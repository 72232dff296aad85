--------------------------- MODULE PosixSemProofs ---------------------------
(***************************************************************************)
(* Proofs about PosixSem, whatever the interleaving of the calls.  The     *)
(* inductive invariant IInv says of the kernel's objects that the only one *)
(* of its kind that lives is the one the key names, of every process what  *)
(* its locals and its handle refer to at each point of its call, and of    *)
(* two processes that they never created the same semaphore with O_EXCL    *)
(* (Apart).  The last needs the middle of sem_open() too: Mine holds the   *)
(* semaphore from semget(IPC_CREAT | IPC_EXCL) on, a new one each time,    *)
(* while the path of an existing semaphore is not taken with O_EXCL.       *)
(***************************************************************************)
EXTENDS PosixSem, FiniteSetTheorems, SequenceTheorems, TLAPS

CreatePcs == {"o_mkshm", "o_setval", "o_magic", "o_linked", "o_one", "o_dup"}
SharePcs  == {"o_unlinked", "o_read", "o_inc"}
LookPcs   == {"o_semget", "o_shmget", "o_creat", "o_reget", "o_reshm"}
OpenPcs   == LookPcs \cup CreatePcs \cup SharePcs \cup {"o_exist"}
ClosePcs  == {"c_read", "c_dec", "c_test", "c_rmsem", "c_rmshm"}
WaitPcs   == {"w_block", "t_try", "t_armed", "t_block", "t_eintr"}
Labels    == {"idle"} \cup NamingCalls \cup WaitPcs

\* Before these points a call knows no semaphore, no segment.
NoSem == {"idle", "u_semget", "u_shmget"} \cup LookPcs
NoShm == NoSem \cup {"o_mkshm"}

Semaphore == [live : BOOLEAN, val : 0 .. SEMVMX]
Segment   == [live : BOOLEAN, magic : BOOLEAN, unlinked : BOOLEAN, ref_count : Int]
Locals    == [pc : Labels, creat : BOOLEAN, excl : BOOLEAN, value : 0 .. SEMVMX,
              s : Nat \cup {NULL}, m : Nat \cup {NULL}, tmp : Int, alarm : BOOLEAN]
Handle    == [s : Nat, m : Nat, excl : BOOLEAN]

\* The one object of a kind that lives is the one the key names.
KeyLives(k, objs) == \A i \in 1 .. Len(objs) : /\ i = k => objs[i].live
                                               /\ objs[i].live => i = k

Objects == /\ sem \in Seq(Semaphore) /\ Len(sem) <= MaxIds
           /\ shm \in Seq(Segment) /\ Len(shm) <= MaxIds
           /\ semKey \in (1 .. Len(sem)) \cup {NULL} /\ KeyLives(semKey, sem)
           /\ shmKey \in (1 .. Len(shm)) \cup {NULL} /\ KeyLives(shmKey, shm)

\* What the locals r and the handle h of a process hold at each point, with ns
\* semaphores and nm segments made so far.
Local(r, h, ns, nm) ==
    /\ r.s \in (1 .. ns) \cup {NULL} /\ (r.pc \notin NoSem => r.s # NULL)
    /\ r.m \in (1 .. nm) \cup {NULL} /\ (r.pc \notin NoShm => r.m # NULL)
    /\ h # NULL => h.s \in 1 .. ns /\ h.m \in 1 .. nm
    /\ r.pc \in OpenPcs  => h = NULL
    /\ r.pc \in ClosePcs => h # NULL /\ h.s = r.s /\ h.m = r.m
    /\ r.pc \in SharePcs => ~r.excl

\* The semaphores that a process created with O_EXCL, and holds.
Mine(r, h) == {i \in Nat : \/ r.pc \in CreatePcs /\ r.excl /\ r.s = i
                           \/ h # NULL /\ h.excl /\ h.s = i}

Processes == /\ call \in [Procs -> Locals]
             /\ handle \in [Procs -> Handle \cup {NULL}]
             /\ \A p \in Procs : Local(call[p], handle[p], Len(sem), Len(shm))

Apart == \A p, q \in Procs : p # q =>
            Mine(call[p], handle[p]) \cap Mine(call[q], handle[q]) = {}

IInv == Objects /\ Processes /\ Apart
-----------------------------------------------------------------------------
(* How a step writes its process's locals.                                 *)

\* Process p has the locals X and the handle H after the step.
Becomes(p, X, H) == /\ call' = [call EXCEPT ![p] = X]
                    /\ handle' = [handle EXCEPT ![p] = H]

\* Other processes keep what they have; p may have created one semaphore.
LEMMA ProcessStep ==
    ASSUME IInv, Objects', NEW p \in Procs, NEW X \in Locals,
           NEW H \in Handle \cup {NULL}, Becomes(p, X, H),
           Len(sem') \in Nat, Len(shm') \in Nat,
           Len(sem) <= Len(sem'), Len(shm) <= Len(shm'),
           Local(X, H, Len(sem'), Len(shm')),
           Mine(X, H) \subseteq Mine(call[p], handle[p]) \cup {Len(sem) + 1}
    PROVE  IInv'
<1>1. /\ call \in [Procs -> Locals] /\ handle \in [Procs -> Handle \cup {NULL}]
      /\ \A q \in Procs : Local(call[q], handle[q], Len(sem), Len(shm))
  BY DEF IInv, Processes
<1>2. call' \in [Procs -> Locals] /\ handle' \in [Procs -> Handle \cup {NULL}]
  BY <1>1 DEF Becomes
<1>3. call'[p] = X /\ handle'[p] = H
  BY <1>1 DEF Becomes
<1>4. \A q \in Procs \ {p} : call'[q] = call[q] /\ handle'[q] = handle[q]
  BY <1>1 DEF Becomes
<1>5. Len(sem) \in Nat /\ Len(shm) \in Nat
  BY DEF IInv, Objects
<1>6. \A q \in Procs : Local(call'[q], handle'[q], Len(sem'), Len(shm'))
  <2>1. \A q \in Procs \ {p} : Local(call[q], handle[q], Len(sem'), Len(shm'))
    BY <1>1, <1>5 DEF Local
  <2> QED
    BY <1>3, <1>4, <2>1
<1>7. ASSUME NEW q \in Procs \ {p}
      PROVE  Mine(X, H) \cap Mine(call[q], handle[q]) = {}
  <2>1. Mine(call[p], handle[p]) \cap Mine(call[q], handle[q]) = {}
    BY DEF IInv, Apart
  <2>2. Len(sem) + 1 \notin Mine(call[q], handle[q])
    <3>1. Local(call[q], handle[q], Len(sem), Len(shm))
      BY <1>1
    <3>2. \A i \in Mine(call[q], handle[q]) : i \in 1 .. Len(sem)
      BY <3>1, SemAssumption DEF Local, Mine, CreatePcs, NoSem, LookPcs
    <3> QED
      BY <1>5, <3>2
  <2> QED
    BY <2>1, <2>2
<1>8. Apart'
  <2>1. \A q, r \in Procs \ {p} : q # r =>
            Mine(call[q], handle[q]) \cap Mine(call[r], handle[r]) = {}
    BY DEF IInv, Apart
  <2> SUFFICES ASSUME NEW q \in Procs, NEW r \in Procs, q # r
               PROVE  Mine(call'[q], handle'[q]) \cap Mine(call'[r], handle'[r]) = {}
    BY DEF Apart
  <2>2. CASE q = p
    BY <1>3, <1>4, <1>7, <2>2
  <2>3. CASE r = p
    BY <1>3, <1>4, <1>7, <2>3
  <2>4. CASE q # p /\ r # p
    BY <1>4, <2>1, <2>4
  <2> QED
    BY <2>2, <2>3, <2>4
<1> QED
  BY <1>2, <1>6, <1>8 DEF IInv, Processes

\* X differs from r in nothing but its label and the fields F.
Keeps(X, r, F) == \A f \in {"creat", "excl", "value", "s", "m", "tmp", "alarm"} \ F :
                     X[f] = r[f]

\* A process outside of calls has typed locals.
LEMMA IdleType == Idle \in Locals /\ Idle.pc = "idle" /\ Idle.s = NULL /\ Idle.m = NULL
  BY SemAssumption DEF Idle, Frame, Locals, Labels

\* A step that only moves on.
LEMMA GotoLemma ==
    ASSUME IInv, NEW p \in Procs, NEW l \in Labels, Goto(p, l)
    PROVE  \E X \in Locals : /\ call' = [call EXCEPT ![p] = X]
                             /\ X.pc = l /\ Keeps(X, call[p], {})
<1> DEFINE X == [call[p] EXCEPT !.pc = l]
<1>1. call[p] \in Locals
  BY DEF IInv, Processes
<1>2. X \in Locals /\ X.pc = l
  BY <1>1 DEF Locals
<1>3. Keeps(X, call[p], {})
  BY <1>1 DEF Locals, Keeps
<1>4. call' = [call EXCEPT ![p] = X]
  BY DEF Goto
<1> QED
  BY <1>2, <1>3, <1>4

\* The other ways a step writes its locals.
NoteS(p, x, l)     == call' = [call EXCEPT ![p].s = x, ![p].pc = l]
NoteM(p, x, l)     == call' = [call EXCEPT ![p].m = x, ![p].pc = l]
NoteTmp(p, x, l)   == call' = [call EXCEPT ![p].tmp = x, ![p].pc = l]
NoteAlarm(p, x, l) == call' = [call EXCEPT ![p].pc = l, ![p].alarm = x]

\* A step that notes a semaphore: semget().
LEMMA SetS ==
    ASSUME IInv, NEW p \in Procs, NEW x \in Nat \cup {NULL}, NEW l \in Labels,
           NoteS(p, x, l)
    PROVE  \E X \in Locals : /\ call' = [call EXCEPT ![p] = X]
                             /\ X.pc = l /\ X.s = x
                             /\ Keeps(X, call[p], {"s"})
<1> DEFINE t == [call[p] EXCEPT !.s = x]
           X == [t EXCEPT !.pc = l]
<1>1. call \in [Procs -> Locals] /\ call[p] \in Locals
  BY DEF IInv, Processes
<1>2. t \in Locals
  BY <1>1 DEF Locals
<1>3. X \in Locals
  BY <1>2 DEF Locals
<1>4. X.pc = l /\ X.s = x
  BY <1>1 DEF Locals
<1>5. Keeps(X, call[p], {"s"})
  BY <1>1 DEF Locals, Keeps
<1>6. call' = [call EXCEPT ![p] = X]
  <2>1. ASSUME NEW q \in Procs PROVE call'[q] = [call EXCEPT ![p] = X][q]
    BY <1>1, <2>1 DEF NoteS
  <2> QED
    BY <1>1 DEF NoteS
<1> QED
  BY <1>3, <1>4, <1>5, <1>6

\* A step that notes a segment: shmget().
LEMMA SetM ==
    ASSUME IInv, NEW p \in Procs, NEW x \in Nat \cup {NULL}, NEW l \in Labels,
           NoteM(p, x, l)
    PROVE  \E X \in Locals : /\ call' = [call EXCEPT ![p] = X]
                             /\ X.pc = l /\ X.m = x
                             /\ Keeps(X, call[p], {"m"})
<1> DEFINE t == [call[p] EXCEPT !.m = x]
           X == [t EXCEPT !.pc = l]
<1>1. call \in [Procs -> Locals] /\ call[p] \in Locals
  BY DEF IInv, Processes
<1>2. t \in Locals
  BY <1>1 DEF Locals
<1>3. X \in Locals
  BY <1>2 DEF Locals
<1>4. X.pc = l /\ X.m = x
  BY <1>1 DEF Locals
<1>5. Keeps(X, call[p], {"m"})
  BY <1>1 DEF Locals, Keeps
<1>6. call' = [call EXCEPT ![p] = X]
  <2>1. ASSUME NEW q \in Procs PROVE call'[q] = [call EXCEPT ![p] = X][q]
    BY <1>1, <2>1 DEF NoteM
  <2> QED
    BY <1>1 DEF NoteM
<1> QED
  BY <1>3, <1>4, <1>5, <1>6

\* A step that reads the count.
LEMMA SetTmp ==
    ASSUME IInv, NEW p \in Procs, NEW x \in Int, NEW l \in Labels,
           NoteTmp(p, x, l)
    PROVE  \E X \in Locals : /\ call' = [call EXCEPT ![p] = X]
                             /\ X.pc = l /\ X.tmp = x
                             /\ Keeps(X, call[p], {"tmp"})
<1> DEFINE t == [call[p] EXCEPT !.tmp = x]
           X == [t EXCEPT !.pc = l]
<1>1. call \in [Procs -> Locals] /\ call[p] \in Locals
  BY DEF IInv, Processes
<1>2. t \in Locals
  BY <1>1 DEF Locals
<1>3. X \in Locals
  BY <1>2 DEF Locals
<1>4. X.pc = l /\ X.tmp = x
  BY <1>1 DEF Locals
<1>5. Keeps(X, call[p], {"tmp"})
  BY <1>1 DEF Locals, Keeps
<1>6. call' = [call EXCEPT ![p] = X]
  <2>1. ASSUME NEW q \in Procs PROVE call'[q] = [call EXCEPT ![p] = X][q]
    BY <1>1, <2>1 DEF NoteTmp
  <2> QED
    BY <1>1 DEF NoteTmp
<1> QED
  BY <1>3, <1>4, <1>5, <1>6

\* A step that sets or takes the alarm.
LEMMA SetAlarm ==
    ASSUME IInv, NEW p \in Procs, NEW x \in BOOLEAN, NEW l \in Labels,
           NoteAlarm(p, x, l)
    PROVE  \E X \in Locals : /\ call' = [call EXCEPT ![p] = X]
                             /\ X.pc = l /\ X.alarm = x
                             /\ Keeps(X, call[p], {"alarm"})
<1> DEFINE t == [call[p] EXCEPT !.alarm = x]
           X == [t EXCEPT !.pc = l]
<1>1. call \in [Procs -> Locals] /\ call[p] \in Locals
  BY DEF IInv, Processes
<1>2. t \in Locals
  BY <1>1 DEF Locals
<1>3. X \in Locals
  BY <1>2 DEF Locals
<1>4. X.pc = l /\ X.alarm = x
  BY <1>1 DEF Locals
<1>5. Keeps(X, call[p], {"alarm"})
  BY <1>1 DEF Locals, Keeps
<1>6. call' = [call EXCEPT ![p] = X]
  <2>1. ASSUME NEW q \in Procs PROVE call'[q] = [call EXCEPT ![p] = X][q]
    BY <1>1, <2>1 DEF NoteAlarm
  <2> QED
    BY <1>1 DEF NoteAlarm
<1> QED
  BY <1>3, <1>4, <1>5, <1>6
-----------------------------------------------------------------------------
(* What the system calls do to the objects.                                *)

\* The objects are sequences, and grow.
LEMMA Lengths == ASSUME Objects PROVE Len(sem) \in Nat /\ Len(shm) \in Nat
  BY DEF Objects

\* A call that leaves the objects alone keeps what is known of them.
LEMMA SameObjects ==
    ASSUME Objects, UNCHANGED ipc
    PROVE  Objects' /\ sem' = sem /\ shm' = shm /\ semKey' = semKey /\ shmKey' = shmKey
  BY DEF Objects, ipc, KeyLives

\* semop() and SETVAL change the value of one semaphore.
LEMMA SetVal ==
    ASSUME Objects, NEW i \in 1 .. Len(sem), NEW v \in 0 .. SEMVMX,
           sem' = [sem EXCEPT ![i].val = v], UNCHANGED <<semKey, shmKey, shm>>
    PROVE  Objects' /\ Len(sem') = Len(sem)
<1>1. sem \in Seq(Semaphore) /\ sem[i] \in Semaphore
  BY DEF Objects
<1> DEFINE x == [sem[i] EXCEPT !.val = v]
<1>2. x \in Semaphore /\ x.live = sem[i].live
  BY <1>1 DEF Semaphore
<1>3. sem' = [sem EXCEPT ![i] = x]
  BY <1>1
<1> HIDE DEF x
<1>4. sem' \in Seq(Semaphore) /\ Len(sem') = Len(sem)
  BY <1>1, <1>2, <1>3
<1>5. \A j \in 1 .. Len(sem) : sem'[j].live = sem[j].live
  BY <1>1, <1>2, <1>3
<1>6. KeyLives(semKey, sem)'
  BY <1>4, <1>5 DEF Objects, KeyLives
<1> QED
  BY <1>4, <1>6 DEF Objects, KeyLives

\* A semop() that takes the semaphore.
LEMMA TakeObjects ==
    ASSUME Objects, NEW i \in 1 .. Len(sem), Take(i)
    PROVE  Objects' /\ Len(sem') = Len(sem) /\ UNCHANGED <<semKey, shmKey, shm>>
<1>1. sem[i] \in Semaphore /\ sem[i].val > 0
  BY DEF Objects, Take
<1>2. sem[i].val \in 0 .. SEMVMX
  BY <1>1 DEF Semaphore
<1>3. sem[i].val - 1 \in 0 .. SEMVMX
  BY <1>1, <1>2, SemAssumption
<1>4. sem' = [sem EXCEPT ![i].val = sem[i].val - 1] /\ UNCHANGED <<semKey, shmKey, shm>>
  BY DEF Take
<1> QED
  BY <1>3, <1>4, SetVal

\* IPC_RMID on a semaphore: the key names none if it named this one.
LEMMA RemoveSemObjects ==
    ASSUME Objects, NEW i \in 1 .. Len(sem), RemoveSem(i), UNCHANGED <<shmKey, shm>>
    PROVE  /\ Objects' /\ Len(sem') = Len(sem)
           /\ semKey' = IF semKey = i THEN NULL ELSE semKey
<1>1. sem \in Seq(Semaphore) /\ sem[i] \in Semaphore /\ KeyLives(semKey, sem)
      /\ semKey \in (1 .. Len(sem)) \cup {NULL}
  BY DEF Objects
<1> DEFINE x == [sem[i] EXCEPT !.live = FALSE]
<1>2. x \in Semaphore /\ x.live = FALSE
  BY <1>1 DEF Semaphore
<1>3. sem' = [sem EXCEPT ![i] = x] /\ semKey' = IF semKey = i THEN NULL ELSE semKey
  BY <1>1 DEF RemoveSem
<1> HIDE DEF x
<1>4. sem' \in Seq(Semaphore) /\ Len(sem') = Len(sem)
  BY <1>1, <1>2, <1>3
<1>5. \A j \in 1 .. Len(sem) : sem'[j] = IF j = i THEN x ELSE sem[j]
  BY <1>1, <1>3
<1>6. NULL \notin 1 .. Len(sem)
  BY <1>1, SemAssumption
<1>7. KeyLives(semKey', sem')
  BY <1>1, <1>2, <1>3, <1>4, <1>5, <1>6 DEF KeyLives
<1> QED
  BY <1>1, <1>3, <1>4, <1>7 DEF Objects, KeyLives

\* IPC_RMID on a segment.
LEMMA RemoveShmObjects ==
    ASSUME Objects, NEW i \in 1 .. Len(shm), RemoveShm(i), UNCHANGED <<semKey, sem>>
    PROVE  /\ Objects' /\ Len(shm') = Len(shm)
           /\ shmKey' = IF shmKey = i THEN NULL ELSE shmKey
<1>1. shm \in Seq(Segment) /\ shm[i] \in Segment /\ KeyLives(shmKey, shm)
      /\ shmKey \in (1 .. Len(shm)) \cup {NULL}
  BY DEF Objects
<1> DEFINE x == [shm[i] EXCEPT !.live = FALSE]
<1>2. x \in Segment /\ x.live = FALSE
  BY <1>1 DEF Segment
<1>3. shm' = [shm EXCEPT ![i] = x] /\ shmKey' = IF shmKey = i THEN NULL ELSE shmKey
  BY <1>1 DEF RemoveShm
<1> HIDE DEF x
<1>4. shm' \in Seq(Segment) /\ Len(shm') = Len(shm)
  BY <1>1, <1>2, <1>3
<1>5. \A j \in 1 .. Len(shm) : shm'[j] = IF j = i THEN x ELSE shm[j]
  BY <1>1, <1>3
<1>6. NULL \notin 1 .. Len(shm)
  BY <1>1, SemAssumption
<1>7. KeyLives(shmKey', shm')
  BY <1>1, <1>2, <1>3, <1>4, <1>5, <1>6 DEF KeyLives
<1> QED
  BY <1>1, <1>3, <1>4, <1>7 DEF Objects, KeyLives

\* semget(IPC_CREAT | IPC_EXCL) makes a semaphore when the key names none.
LEMMA NewSem ==
    ASSUME Objects, semKey = NULL, Len(sem) < MaxIds, NEW x \in Semaphore, x.live,
           sem' = Append(sem, x), semKey' = Len(sem'), UNCHANGED <<shmKey, shm>>
    PROVE  Objects' /\ Len(sem') = Len(sem) + 1
<1>1. sem \in Seq(Semaphore) /\ Len(sem) \in Nat /\ KeyLives(NULL, sem)
  BY DEF Objects
<1>2. sem' \in Seq(Semaphore) /\ Len(sem') = Len(sem) + 1
  BY <1>1
<1>3. \A j \in 1 .. Len(sem') : sem'[j] = IF j = Len(sem') THEN x ELSE sem[j]
  BY <1>1
<1>4. \A j \in 1 .. Len(sem) : ~sem[j].live
  BY <1>1, SemAssumption DEF KeyLives
<1>5. KeyLives(semKey', sem')
  BY <1>1, <1>2, <1>3, <1>4 DEF KeyLives
<1>6. Len(sem') <= MaxIds
  BY <1>1, <1>2, SemAssumption
<1> QED
  BY <1>2, <1>5, <1>6 DEF Objects, KeyLives

\* shmget(IPC_CREAT | IPC_EXCL).
LEMMA NewShm ==
    ASSUME Objects, shmKey = NULL, Len(shm) < MaxIds, NEW x \in Segment, x.live,
           shm' = Append(shm, x), shmKey' = Len(shm'), UNCHANGED <<semKey, sem>>
    PROVE  Objects' /\ Len(shm') = Len(shm) + 1 /\ shm'[shmKey'] = x
<1>1. shm \in Seq(Segment) /\ Len(shm) \in Nat /\ KeyLives(NULL, shm)
  BY DEF Objects
<1>2. shm' \in Seq(Segment) /\ Len(shm') = Len(shm) + 1
  BY <1>1
<1>3. \A j \in 1 .. Len(shm') : shm'[j] = IF j = Len(shm') THEN x ELSE shm[j]
  BY <1>1
<1>4. \A j \in 1 .. Len(shm) : ~shm[j].live
  BY <1>1, SemAssumption DEF KeyLives
<1>5. KeyLives(shmKey', shm')
  BY <1>1, <1>2, <1>3, <1>4 DEF KeyLives
<1>6. Len(shm') <= MaxIds
  BY <1>1, <1>2, SemAssumption
<1>7. shm'[Len(shm')] = x
  BY <1>1, <1>2, <1>3
<1> QED
  BY <1>2, <1>5, <1>6, <1>7 DEF Objects, KeyLives

\* A write to the metadata of one segment, which leaves the segment as live as
\* it was.
LEMMA SetShm ==
    ASSUME Objects, NEW i \in 1 .. Len(shm), NEW x \in Segment, x.live = shm[i].live,
           shm' = [shm EXCEPT ![i] = x], UNCHANGED <<semKey, shmKey, sem>>
    PROVE  Objects' /\ Len(shm') = Len(shm) /\ shm'[i] = x
<1>1. shm \in Seq(Segment)
  BY DEF Objects
<1>2. shm' \in Seq(Segment) /\ Len(shm') = Len(shm)
  BY <1>1
<1>3. \A j \in 1 .. Len(shm) : shm'[j].live = shm[j].live
  BY <1>1
<1>4. KeyLives(shmKey, shm)'
  BY <1>2, <1>3 DEF Objects, KeyLives
<1> QED
  BY <1>1, <1>2, <1>4 DEF Objects, KeyLives

PutMagic(i, v)    == shm' = [shm EXCEPT ![i].magic = v]
PutUnlinked(i, v) == shm' = [shm EXCEPT ![i].unlinked = v]
PutCount(i, v)    == shm' = [shm EXCEPT ![i].ref_count = v]

\* metadata->magic = ...
LEMMA SetMagic ==
    ASSUME Objects, NEW i \in 1 .. Len(shm), NEW v \in BOOLEAN,
           PutMagic(i, v), UNCHANGED <<semKey, shmKey, sem>>
    PROVE  /\ Objects' /\ Len(shm') = Len(shm)
           /\ shm'[i].magic = v /\ shm'[i].unlinked = shm[i].unlinked /\ shm'[i].ref_count = shm[i].ref_count
<1> DEFINE x == [shm[i] EXCEPT !.magic = v]
<1>1. shm \in Seq(Segment) /\ shm[i] \in Segment
  BY DEF Objects
<1>2. /\ x \in Segment /\ x.live = shm[i].live /\ x.magic = v
      /\ x.unlinked = shm[i].unlinked /\ x.ref_count = shm[i].ref_count
  BY <1>1 DEF Segment
<1>3. shm' = [shm EXCEPT ![i] = x]
  BY <1>1 DEF PutMagic
<1> HIDE DEF x
<1> QED
  BY <1>2, <1>3, SetShm

\* metadata->unlinked = ...
LEMMA SetUnlinked ==
    ASSUME Objects, NEW i \in 1 .. Len(shm), NEW v \in BOOLEAN,
           PutUnlinked(i, v), UNCHANGED <<semKey, shmKey, sem>>
    PROVE  /\ Objects' /\ Len(shm') = Len(shm)
           /\ shm'[i].unlinked = v /\ shm'[i].ref_count = shm[i].ref_count
<1> DEFINE x == [shm[i] EXCEPT !.unlinked = v]
<1>1. shm \in Seq(Segment) /\ shm[i] \in Segment
  BY DEF Objects
<1>2. /\ x \in Segment /\ x.live = shm[i].live /\ x.unlinked = v
      /\ x.ref_count = shm[i].ref_count
  BY <1>1 DEF Segment
<1>3. shm' = [shm EXCEPT ![i] = x]
  BY <1>1 DEF PutUnlinked
<1> HIDE DEF x
<1> QED
  BY <1>2, <1>3, SetShm

\* metadata->ref_count = ...
LEMMA SetCount ==
    ASSUME Objects, NEW i \in 1 .. Len(shm), NEW v \in Int,
           PutCount(i, v), UNCHANGED <<semKey, shmKey, sem>>
    PROVE  /\ Objects' /\ Len(shm') = Len(shm)
           /\ shm'[i].ref_count = v /\ shm'[i].unlinked = shm[i].unlinked
<1> DEFINE x == [shm[i] EXCEPT !.ref_count = v]
<1>1. shm \in Seq(Segment) /\ shm[i] \in Segment
  BY DEF Objects
<1>2. /\ x \in Segment /\ x.live = shm[i].live /\ x.ref_count = v
      /\ x.unlinked = shm[i].unlinked
  BY <1>1 DEF Segment
<1>3. shm' = [shm EXCEPT ![i] = x]
  BY <1>1 DEF PutCount
<1> HIDE DEF x
<1> QED
  BY <1>2, <1>3, SetShm
-----------------------------------------------------------------------------
(* The invariant is inductive, call by call.                               *)

\* What is known of one process.
LEMMA OneProcess ==
    ASSUME IInv, NEW p \in Procs
    PROVE  /\ Objects /\ Len(sem) \in Nat /\ Len(shm) \in Nat
           /\ call[p] \in Locals /\ handle[p] \in Handle \cup {NULL}
           /\ Local(call[p], handle[p], Len(sem), Len(shm))
           /\ handle = [handle EXCEPT ![p] = handle[p]]
           /\ call = [call EXCEPT ![p] = call[p]]
  BY Lengths DEF IInv, Processes

\* A step that only changes its process's locals, and makes no semaphore.
LEMMA MoveStep ==
    ASSUME IInv, Objects', NEW p \in Procs, NEW X \in Locals,
           call' = [call EXCEPT ![p] = X], handle' = handle,
           Len(sem') = Len(sem), Len(shm') = Len(shm),
           Local(X, handle[p], Len(sem), Len(shm)),
           X.pc \in CreatePcs => /\ call[p].pc \in CreatePcs
                                 /\ X.excl = call[p].excl /\ X.s = call[p].s
    PROVE  IInv'
<1>1. Becomes(p, X, handle[p]) /\ handle[p] \in Handle \cup {NULL}
  BY OneProcess DEF Becomes
<1>2. Len(sem) \in Nat /\ Len(shm) \in Nat
  BY OneProcess
<1>3. Mine(X, handle[p]) \subseteq Mine(call[p], handle[p]) \cup {Len(sem) + 1}
  BY DEF Mine
<1> QED
  BY <1>1, <1>2, <1>3, ProcessStep

\* A call returns.
LEMMA ReturnStep ==
    ASSUME IInv, Objects', NEW p \in Procs, Return(p), handle' = handle,
           Len(sem') = Len(sem), Len(shm') = Len(shm)
    PROVE  IInv'
<1>1. Local(call[p], handle[p], Len(sem), Len(shm))
  BY OneProcess
<1>2. Local(Idle, handle[p], Len(sem), Len(shm))
  BY <1>1, IdleType DEF Local, NoSem, NoShm, OpenPcs, LookPcs, CreatePcs, SharePcs, ClosePcs
<1>3. Idle.pc \notin CreatePcs
  BY IdleType DEF CreatePcs
<1> QED
  BY <1>2, <1>3, IdleType, MoveStep DEF Return

\* sem_close() returns and frees the handle.
LEMMA FreeStep ==
    ASSUME IInv, Objects', NEW p \in Procs, Return(p), Free(p),
           Len(sem') = Len(sem), Len(shm') = Len(shm)
    PROVE  IInv'
<1>1. Local(Idle, NULL, Len(sem), Len(shm))
  BY IdleType DEF Local, NoSem, NoShm, OpenPcs, LookPcs, CreatePcs, SharePcs, ClosePcs
<1>2. Mine(Idle, NULL) = {}
  BY IdleType DEF Mine, CreatePcs
<1>3. Becomes(p, Idle, NULL)
  BY DEF Return, Free, Becomes
<1>4. Len(sem) \in Nat /\ Len(shm) \in Nat
  BY OneProcess
<1> QED
  BY <1>1, <1>2, <1>3, <1>4, IdleType, ProcessStep

\* A move from one point of a call to another that leaves the locals alone is
\* right when the old point knows what the new one needs.
Follows(l, k) ==
    /\ l \in Labels /\ k \in Labels
    /\ l \notin NoSem => k \notin NoSem
    /\ l \notin NoShm => k \notin NoShm
    /\ l \in OpenPcs => k \in OpenPcs
    /\ l \in ClosePcs => k \in ClosePcs
    /\ l \in SharePcs => k \in SharePcs
    /\ l \in CreatePcs => k \in CreatePcs

\* Such a move keeps the invariant, with or without a new tmp or alarm.
LEMMA KeepStep ==
    ASSUME IInv, Objects', NEW p \in Procs, NEW X \in Locals, NEW F, Keeps(X, call[p], F),
           F \subseteq {"tmp", "alarm"}, Follows(X.pc, call[p].pc),
           call' = [call EXCEPT ![p] = X], handle' = handle,
           Len(sem') = Len(sem), Len(shm') = Len(shm)
    PROVE  IInv'
<1>1. X.s = call[p].s /\ X.m = call[p].m /\ X.excl = call[p].excl
  BY DEF Keeps
<1>2. Local(call[p], handle[p], Len(sem), Len(shm))
  BY OneProcess
<1>3. Local(X, handle[p], Len(sem), Len(shm))
  BY <1>1, <1>2 DEF Local, Follows
<1> QED
  BY <1>1, <1>3, MoveStep DEF Follows

\* A plain move keeps it.
LEMMA GotoStep ==
    ASSUME IInv, Objects', NEW p \in Procs, NEW l, Goto(p, l), handle' = handle,
           Follows(l, call[p].pc), Len(sem') = Len(sem), Len(shm') = Len(shm)
    PROVE  IInv'
<1>1. PICK X \in Locals : /\ call' = [call EXCEPT ![p] = X]
                          /\ X.pc = l /\ Keeps(X, call[p], {})
  BY GotoLemma DEF Follows
<1> QED
  BY <1>1, KeepStep

\* The moves of the calls that need nothing new.
LEMMA Moves ==
    /\ Follows("o_creat", "o_shmget") /\ Follows("o_reget", "o_creat")
    /\ Follows("o_magic", "o_setval") /\ Follows("o_linked", "o_magic")
    /\ Follows("o_one", "o_linked")   /\ Follows("o_dup", "o_one")
    /\ Follows("o_read", "o_unlinked") /\ Follows("o_inc", "o_read")
    /\ Follows("c_dec", "c_read")     /\ Follows("c_test", "c_dec")
    /\ Follows("c_rmsem", "c_test")   /\ Follows("c_rmshm", "c_rmsem")
    /\ Follows("u_semget", "idle")    /\ Follows("u_test", "u_mark")
    /\ Follows("u_rmsem", "u_test")   /\ Follows("u_rmshm", "u_rmsem")
    /\ Follows("t_armed", "t_try")    /\ Follows("t_block", "t_armed")
    /\ Follows("t_eintr", "t_block")
  BY DEF Follows, Labels, NamingCalls, WaitPcs, NoSem, NoShm, OpenPcs, LookPcs,
         CreatePcs, SharePcs, ClosePcs

\* A call past its lookups knows a semaphore and a segment.
LEMMA Known ==
    ASSUME IInv, NEW p \in Procs
    PROVE  /\ call[p].pc \notin NoSem => call[p].s \in 1 .. Len(sem)
           /\ call[p].pc \notin NoShm => call[p].m \in 1 .. Len(shm)
           /\ handle[p] # NULL => handle[p].s \in 1 .. Len(sem) /\ handle[p].m \in 1 .. Len(shm)
<1>1. Local(call[p], handle[p], Len(sem), Len(shm))
  BY OneProcess
<1> QED
  BY <1>1 DEF Local

\* sem_open() starts with no handle.
LEMMA OpenCall ==
    ASSUME IInv, NEW p \in Procs, NEW creat \in BOOLEAN, NEW excl \in BOOLEAN,
           NEW v \in 0 .. SEMVMX, sem_open(p, creat, excl, v)
    PROVE  IInv'
<1> DEFINE X == Frame("o_semget", creat, excl, v, NULL, NULL)
<1>1. X \in Locals /\ X.pc = "o_semget" /\ X.s = NULL /\ X.m = NULL
  <2>1. "o_semget" \in Labels /\ NULL \in Nat \cup {NULL}
    BY DEF Labels, NamingCalls
  <2> QED
    BY <2>1, SemAssumption DEF Frame, Locals
<1>2. call' = [call EXCEPT ![p] = X] /\ handle' = handle /\ handle[p] = NULL
  BY DEF sem_open
<1>3. Objects' /\ sem' = sem /\ shm' = shm
  BY OneProcess, SameObjects DEF sem_open
<1> HIDE DEF X
<1>4. Local(X, handle[p], Len(sem), Len(shm)) /\ X.pc \notin CreatePcs
  BY <1>1, <1>2 DEF Local, NoSem, NoShm, OpenPcs, LookPcs, CreatePcs, SharePcs, ClosePcs
<1> QED
  BY <1>1, <1>2, <1>3, <1>4, MoveStep

\* sem_close() and the waits start from the handle.
LEMMA HandleCall ==
    ASSUME IInv, NEW p \in Procs, NEW l \in {"c_read", "w_block", "t_try"},
           handle[p] # NULL,
           call' = [call EXCEPT ![p] = Frame(l, FALSE, FALSE, 0, handle[p].s, handle[p].m)],
           UNCHANGED <<ipc, handle>>
    PROVE  IInv'
<1> DEFINE X == Frame(l, FALSE, FALSE, 0, handle[p].s, handle[p].m)
<1>1. handle[p] \in Handle /\ Local(call[p], handle[p], Len(sem), Len(shm))
  BY OneProcess
<1>2. handle[p].s \in Nat /\ handle[p].m \in Nat
  BY <1>1 DEF Handle
<1>3. X \in Locals /\ X.pc = l /\ X.s = handle[p].s /\ X.m = handle[p].m
  <2>1. l \in Labels /\ 0 \in 0 .. SEMVMX /\ FALSE \in BOOLEAN
    BY SemAssumption DEF Labels, NamingCalls, WaitPcs
  <2>2. handle[p].s \in Nat \cup {NULL} /\ handle[p].m \in Nat \cup {NULL}
    BY <1>2
  <2> QED
    BY <2>1, <2>2, SemAssumption DEF Frame, Locals
<1>4. Objects' /\ sem' = sem /\ shm' = shm
  BY OneProcess, SameObjects
<1>5. call' = [call EXCEPT ![p] = X]
  OBVIOUS
<1> HIDE DEF X
<1>6. handle[p].s # NULL /\ handle[p].m # NULL
  BY <1>2, SemAssumption
<1>7. Local(X, handle[p], Len(sem), Len(shm)) /\ X.pc \notin CreatePcs
  BY <1>1, <1>3, <1>6 DEF Local, NoSem, NoShm, OpenPcs, LookPcs, CreatePcs, SharePcs, ClosePcs
<1> QED
  BY <1>3, <1>4, <1>5, <1>7, MoveStep

\* semget() of an existing semaphore.
LEMMA OpenSemgetStep ==
    ASSUME IInv, NEW p \in Procs, OpenSemget(p) \/ UnlinkSemget(p)
    PROVE  IInv'
<1>1. Objects' /\ sem' = sem /\ shm' = shm /\ handle' = handle
  BY OneProcess, SameObjects DEF OpenSemget, UnlinkSemget
<1>2. Local(call[p], handle[p], Len(sem), Len(shm)) /\ call[p] \in Locals
  BY OneProcess
<1>3. semKey \in (1 .. Len(sem)) \cup {NULL} /\ semKey \in Nat \cup {NULL}
  BY OneProcess DEF Objects
<1>4. ASSUME NEW l \in Labels, l \in {"o_shmget", "o_reshm", "u_shmget"},
             call[p].pc \in {"o_semget", "o_reget", "u_semget"},
             l \in OpenPcs => call[p].pc \in OpenPcs,
             NoteS(p, semKey, l)
      PROVE  IInv'
  <2>1. PICK X \in Locals : /\ call' = [call EXCEPT ![p] = X]
                            /\ X.pc = l /\ X.s = semKey /\ Keeps(X, call[p], {"s"})
    BY <1>3, <1>4, SetS
  <2>2. X.m = call[p].m
    BY <2>1 DEF Keeps
  <2>3. Local(X, handle[p], Len(sem), Len(shm)) /\ X.pc \notin CreatePcs
    BY <1>2, <1>3, <1>4, <2>1, <2>2
       DEF Local, NoSem, NoShm, OpenPcs, LookPcs, CreatePcs, SharePcs, ClosePcs
  <2> QED
    BY <1>1, <2>1, <2>3, MoveStep
<1>5. CASE pc(p) = "o_semget" /\ OpenSemget(p)
  <2>1. NoteS(p, semKey, "o_shmget")
    BY <1>2, <1>5 DEF OpenSemget, pc, Locals, NoteS
  <2> QED
    BY <1>4, <1>5, <2>1 DEF pc, Labels, NamingCalls, OpenPcs, LookPcs
<1>6. CASE pc(p) = "o_reget" /\ OpenSemget(p)
  <2>1. NoteS(p, semKey, "o_reshm")
    BY <1>2, <1>6 DEF OpenSemget, pc, Locals, NoteS
  <2> QED
    BY <1>4, <1>6, <2>1 DEF pc, Labels, NamingCalls, OpenPcs, LookPcs
<1>7. CASE UnlinkSemget(p)
  BY <1>4, <1>7 DEF UnlinkSemget, NoteS, pc, Labels, NamingCalls, OpenPcs, LookPcs,
                    CreatePcs, SharePcs
<1> QED
  BY <1>5, <1>6, <1>7 DEF OpenSemget

\* shmget() of an existing segment, and the choice after it.
LEMMA OpenShmgetStep ==
    ASSUME IInv, NEW p \in Procs, OpenShmget(p) \/ UnlinkShmget(p)
    PROVE  IInv'
<1>1. Objects' /\ sem' = sem /\ shm' = shm /\ handle' = handle
  BY OneProcess, SameObjects DEF OpenShmget, UnlinkShmget
<1>2. Local(call[p], handle[p], Len(sem), Len(shm)) /\ call[p] \in Locals
  BY OneProcess
<1>3. shmKey \in (1 .. Len(shm)) \cup {NULL} /\ shmKey \in Nat \cup {NULL}
  BY OneProcess DEF Objects
<1>4. ASSUME NEW l \in {"o_exist", "u_mark"}, call[p].s # NULL, shmKey # NULL,
             l = "o_exist" => call[p].pc \in OpenPcs,
             NoteM(p, shmKey, l)
      PROVE  IInv'
  <2>1. l \in Labels
    BY DEF Labels, NamingCalls
  <2>2. PICK X \in Locals : /\ call' = [call EXCEPT ![p] = X]
                            /\ X.pc = l /\ X.m = shmKey /\ Keeps(X, call[p], {"m"})
    BY <1>3, <1>4, <2>1, SetM
  <2>3. X.s = call[p].s
    BY <2>2 DEF Keeps
  <2>4. Local(X, handle[p], Len(sem), Len(shm)) /\ X.pc \notin CreatePcs
    BY <1>2, <1>3, <1>4, <2>2, <2>3
       DEF Local, NoSem, NoShm, OpenPcs, LookPcs, CreatePcs, SharePcs, ClosePcs
  <2> QED
    BY <1>1, <2>2, <2>4, MoveStep
<1>5. CASE Return(p)
  BY <1>1, <1>5, ReturnStep
<1>6. CASE pc(p) = "o_shmget" /\ Goto(p, "o_creat")
  <2>1. Follows("o_creat", call[p].pc)
    BY <1>6 DEF pc, Follows, Labels, NamingCalls, NoSem, NoShm, OpenPcs, LookPcs,
                CreatePcs, SharePcs, ClosePcs
  <2> QED
    BY <1>1, <1>6, <2>1, GotoStep
<1> QED
  BY <1>4, <1>5, <1>6 DEF OpenShmget, UnlinkShmget, NoteM, pc, OpenPcs, LookPcs

\* semget(IPC_CREAT | IPC_EXCL): the semaphore made is new, so it is nobody's.
LEMMA OpenCreateStep ==
    ASSUME IInv, NEW p \in Procs, OpenCreate(p)
    PROVE  IInv'
<1>1. /\ Objects /\ Local(call[p], handle[p], Len(sem), Len(shm)) /\ call[p] \in Locals
      /\ Len(sem) \in Nat /\ Len(shm) \in Nat /\ handle[p] \in Handle \cup {NULL}
      /\ handle = [handle EXCEPT ![p] = handle[p]]
  BY OneProcess
<1>2. call[p].pc = "o_creat" /\ handle' = handle
  BY DEF OpenCreate, pc
<1>3. CASE UNCHANGED ipc /\ (Return(p) \/ Goto(p, "o_reget"))
  <2>1. Objects' /\ sem' = sem /\ shm' = shm
    BY <1>1, <1>3, SameObjects
  <2> QED
    BY <1>2, <1>3, <2>1, Moves, ReturnStep, GotoStep
<1>4. CASE /\ semKey = NULL /\ Len(sem) < MaxIds
           /\ sem' = Append(sem, [live |-> TRUE, val |-> 0])
           /\ semKey' = Len(sem') /\ UNCHANGED <<shmKey, shm>>
           /\ NoteS(p, Len(sem'), "o_mkshm")
  <2> DEFINE x == [live |-> TRUE, val |-> 0]
  <2>1. x \in Semaphore /\ x.live
    BY SemAssumption DEF Semaphore
  <2>2. Objects' /\ Len(sem') = Len(sem) + 1
    BY <1>1, <1>4, <2>1, NewSem
  <2>3. Len(sem') \in Nat \cup {NULL} /\ "o_mkshm" \in Labels
    BY <1>1, <2>2 DEF Labels, NamingCalls
  <2>4. PICK X \in Locals : /\ call' = [call EXCEPT ![p] = X]
                            /\ X.pc = "o_mkshm" /\ X.s = Len(sem')
                            /\ Keeps(X, call[p], {"s"})
    BY <1>4, <2>3, SetS
  <2>5. X.m = call[p].m
    BY <2>4 DEF Keeps
  <2>6. Len(sem') # NULL
    BY <1>1, <2>2, SemAssumption
  <2>7. Local(X, handle[p], Len(sem'), Len(shm'))
    BY <1>1, <1>2, <1>4, <2>2, <2>4, <2>5, <2>6
       DEF Local, NoSem, NoShm, OpenPcs, LookPcs, CreatePcs, SharePcs, ClosePcs
  <2>8. Mine(X, handle[p]) \subseteq Mine(call[p], handle[p]) \cup {Len(sem) + 1}
    BY <2>2, <2>4 DEF Mine
  <2>9. Becomes(p, X, handle[p])
    BY <1>1, <1>2, <2>4 DEF Becomes
  <2> QED
    BY <1>1, <1>4, <2>2, <2>7, <2>8, <2>9, ProcessStep
<1> QED
  BY <1>3, <1>4 DEF OpenCreate, NoteS

\* shmget(IPC_CREAT | IPC_EXCL), or the semaphore goes.
LEMMA OpenMakeShmStep ==
    ASSUME IInv, NEW p \in Procs, OpenMakeShm(p)
    PROVE  IInv'
<1>1. /\ Objects /\ Local(call[p], handle[p], Len(sem), Len(shm)) /\ call[p] \in Locals
      /\ Len(sem) \in Nat /\ Len(shm) \in Nat /\ handle[p] \in Handle \cup {NULL}
      /\ handle = [handle EXCEPT ![p] = handle[p]]
  BY OneProcess
<1>2. call[p].pc = "o_mkshm" /\ handle' = handle
  BY DEF OpenMakeShm, pc
<1>3. call[p].s \in 1 .. Len(sem)
  BY <1>2, Known DEF NoSem, LookPcs
<1>4. CASE RemoveSem(call[p].s) /\ Return(p) /\ UNCHANGED <<shmKey, shm>>
  <2>1. Objects' /\ Len(sem') = Len(sem) /\ shm' = shm
    BY <1>1, <1>3, <1>4, RemoveSemObjects
  <2> QED
    BY <1>2, <1>4, <2>1, ReturnStep
<1>5. CASE /\ shmKey = NULL /\ Len(shm) < MaxIds
           /\ shm' = Append(shm, [live |-> TRUE, magic |-> FALSE,
                                  unlinked |-> FALSE, ref_count |-> 0])
           /\ shmKey' = Len(shm') /\ UNCHANGED <<semKey, sem>>
           /\ NoteM(p, Len(shm'), "o_setval")
  <2> DEFINE x == [live |-> TRUE, magic |-> FALSE, unlinked |-> FALSE, ref_count |-> 0]
  <2>1. x \in Segment /\ x.live
    BY DEF Segment
  <2>2. Objects' /\ Len(shm') = Len(shm) + 1
    BY <1>1, <1>5, <2>1, NewShm
  <2>3. Len(shm') \in Nat \cup {NULL} /\ "o_setval" \in Labels
    BY <1>1, <2>2 DEF Labels, NamingCalls
  <2>4. PICK X \in Locals : /\ call' = [call EXCEPT ![p] = X]
                            /\ X.pc = "o_setval" /\ X.m = Len(shm')
                            /\ Keeps(X, call[p], {"m"})
    BY <1>5, <2>3, SetM
  <2>5. X.s = call[p].s /\ X.excl = call[p].excl
    BY <2>4 DEF Keeps
  <2>6. Len(shm') # NULL
    BY <1>1, <2>2, SemAssumption
  <2>7. Local(X, handle[p], Len(sem'), Len(shm'))
    BY <1>1, <1>2, <1>5, <2>2, <2>4, <2>5, <2>6
       DEF Local, NoSem, NoShm, OpenPcs, LookPcs, CreatePcs, SharePcs, ClosePcs
  <2>8. Mine(X, handle[p]) \subseteq Mine(call[p], handle[p]) \cup {Len(sem) + 1}
    BY <1>2, <2>4, <2>5 DEF Mine, CreatePcs
  <2>9. Becomes(p, X, handle[p])
    BY <1>1, <1>2, <2>4 DEF Becomes
  <2>10. Len(sem') \in Nat /\ Len(shm') \in Nat /\ Len(sem) <= Len(sem') /\ Len(shm) <= Len(shm')
    BY <1>1, <1>5, <2>2
  <2> QED
    BY <1>1, <2>2, <2>7, <2>8, <2>9, <2>10, ProcessStep
<1> QED
  BY <1>4, <1>5 DEF OpenMakeShm, NoteM

\* SETVAL and shmat() of the creator, or what it made goes.
LEMMA OpenSetvalStep ==
    ASSUME IInv, NEW p \in Procs, OpenSetval(p)
    PROVE  IInv'
<1>1. Objects /\ call[p] \in Locals /\ call[p].pc = "o_setval" /\ handle' = handle
  BY OneProcess DEF OpenSetval, pc
<1>2. call[p].s \in 1 .. Len(sem) /\ call[p].m \in 1 .. Len(shm)
  BY <1>1, Known DEF NoSem, NoShm, LookPcs
<1>3. CASE /\ sem' = [sem EXCEPT ![call[p].s].val = call[p].value]
           /\ Goto(p, "o_magic") /\ UNCHANGED <<semKey, shmKey, shm>>
  <2>1. call[p].value \in 0 .. SEMVMX
    BY <1>1 DEF Locals
  <2>2. Objects' /\ Len(sem') = Len(sem) /\ shm' = shm
    BY <1>1, <1>2, <1>3, <2>1, SetVal
  <2> QED
    BY <1>1, <1>3, <2>2, Moves, GotoStep
<1>4. CASE RemoveShm(call[p].m) /\ Return(p) /\ UNCHANGED <<semKey, sem>>
  <2>1. Objects' /\ Len(shm') = Len(shm) /\ sem' = sem
    BY <1>1, <1>2, <1>4, RemoveShmObjects
  <2> QED
    BY <1>1, <1>4, <2>1, ReturnStep
<1> QED
  BY <1>3, <1>4 DEF OpenSetval

\* The magic number is written, or the segment is gone.
LEMMA OpenMagicStep ==
    ASSUME IInv, NEW p \in Procs, OpenMagic(p)
    PROVE  IInv'
<1>1. Objects /\ call[p].pc = "o_magic" /\ handle' = handle
  BY OneProcess DEF OpenMagic, pc
<1>2. call[p].s \in 1 .. Len(sem) /\ call[p].m \in 1 .. Len(shm)
  BY <1>1, Known DEF NoSem, NoShm, LookPcs
<1>3. CASE /\ PutMagic(call[p].m, TRUE)
           /\ Goto(p, "o_linked") /\ UNCHANGED <<semKey, shmKey, sem>>
  <2>1. Objects' /\ Len(shm') = Len(shm) /\ sem' = sem
    BY <1>1, <1>2, <1>3, SetMagic
  <2> QED
    BY <1>1, <1>3, <2>1, Moves, GotoStep
<1>4. CASE RemoveSem(call[p].s) /\ Return(p) /\ UNCHANGED <<shmKey, shm>>
  <2>1. Objects' /\ Len(sem') = Len(sem) /\ shm' = shm
    BY <1>1, <1>2, <1>4, RemoveSemObjects
  <2> QED
    BY <1>1, <1>4, <2>1, ReturnStep
<1> QED
  BY <1>3, <1>4 DEF OpenMagic, PutMagic

\* The other writes to the metadata.
LEMMA OpenLinkedStep ==
    ASSUME IInv, NEW p \in Procs, OpenLinked(p)
    PROVE  IInv'
<1>1. Objects /\ call[p].pc = "o_linked" /\ handle' = handle
  BY OneProcess DEF OpenLinked, pc
<1>2. call[p].m \in 1 .. Len(shm)
  BY <1>1, Known DEF NoSem, NoShm, LookPcs
<1>3. PutUnlinked(call[p].m, FALSE) /\ UNCHANGED <<semKey, shmKey, sem>>
  BY DEF OpenLinked, PutUnlinked
<1>4. Objects' /\ Len(shm') = Len(shm) /\ sem' = sem
  BY <1>1, <1>2, <1>3, SetUnlinked
<1> QED
  BY <1>1, <1>4, Moves, GotoStep DEF OpenLinked

\* The count of a new semaphore starts at one.
LEMMA OpenOneStep ==
    ASSUME IInv, NEW p \in Procs, OpenOne(p)
    PROVE  IInv'
<1>1. Objects /\ call[p].pc = "o_one" /\ handle' = handle
  BY OneProcess DEF OpenOne, pc
<1>2. call[p].m \in 1 .. Len(shm)
  BY <1>1, Known DEF NoSem, NoShm, LookPcs
<1>3. PutCount(call[p].m, 1) /\ UNCHANGED <<semKey, shmKey, sem>>
  BY DEF OpenOne, PutCount
<1>4. Objects' /\ Len(shm') = Len(shm) /\ sem' = sem
  BY <1>1, <1>2, <1>3, SetCount
<1> QED
  BY <1>1, <1>4, Moves, GotoStep DEF OpenOne

\* An existing semaphore is only used without O_EXCL.
LEMMA OpenExistingStep ==
    ASSUME IInv, NEW p \in Procs, OpenExisting(p)
    PROVE  IInv'
<1>1. /\ Objects /\ call[p].pc = "o_exist" /\ call[p] \in Locals
      /\ Local(call[p], handle[p], Len(sem), Len(shm))
  BY OneProcess DEF OpenExisting, pc
<1>2. Objects' /\ sem' = sem /\ shm' = shm /\ handle' = handle
  BY <1>1, SameObjects DEF OpenExisting
<1>3. CASE Return(p)
  BY <1>2, <1>3, ReturnStep
<1>4. CASE ~call[p].excl /\ Goto(p, "o_unlinked")
  <2>1. "o_unlinked" \in Labels
    BY DEF Labels, NamingCalls
  <2>2. PICK X \in Locals : /\ call' = [call EXCEPT ![p] = X]
                            /\ X.pc = "o_unlinked" /\ Keeps(X, call[p], {})
    BY <1>4, <2>1, GotoLemma
  <2>3. X.s = call[p].s /\ X.m = call[p].m /\ X.excl = call[p].excl
    BY <2>2 DEF Keeps
  <2>4. Local(X, handle[p], Len(sem), Len(shm)) /\ X.pc \notin CreatePcs
    BY <1>1, <1>4, <2>2, <2>3
       DEF Local, NoSem, NoShm, OpenPcs, LookPcs, CreatePcs, SharePcs, ClosePcs
  <2> QED
    BY <1>2, <2>2, <2>4, MoveStep
<1> QED
  BY <1>3, <1>4 DEF OpenExisting

\* An unlinked semaphore is refused.
LEMMA OpenUnlinkedStep ==
    ASSUME IInv, NEW p \in Procs, OpenUnlinked(p)
    PROVE  IInv'
<1>1. Objects /\ call[p].pc = "o_unlinked" /\ handle' = handle
  BY OneProcess DEF OpenUnlinked, pc
<1>2. Objects' /\ sem' = sem /\ shm' = shm
  BY <1>1, SameObjects DEF OpenUnlinked
<1> QED
  BY <1>1, <1>2, Moves, ReturnStep, GotoStep DEF OpenUnlinked

\* The reads of ref_count by sem_open() and sem_close().
LEMMA ReadCount ==
    ASSUME IInv, NEW p \in Procs, NEW l, Follows(l, call[p].pc), UNCHANGED <<ipc, handle>>,
           call[p].pc \notin NoShm, NoteTmp(p, shm[call[p].m].ref_count, l)
    PROVE  IInv'
<1>1. Objects' /\ sem' = sem /\ shm' = shm /\ handle' = handle
  BY OneProcess, SameObjects
<1>2. shm[call[p].m] \in Segment
  BY Known, OneProcess DEF Objects
<1>3. shm[call[p].m].ref_count \in Int /\ l \in Labels
  BY <1>2 DEF Segment, Follows
<1>4. PICK X \in Locals : /\ call' = [call EXCEPT ![p] = X] /\ X.pc = l
                          /\ Keeps(X, call[p], {"tmp"})
  BY <1>3, SetTmp
<1> QED
  BY <1>1, <1>4, KeepStep

\* ref_count++ reads.
LEMMA OpenReadStep ==
    ASSUME IInv, NEW p \in Procs, OpenRead(p)
    PROVE  IInv'
<1>1. call[p].pc = "o_read" /\ NoteTmp(p, shm[call[p].m].ref_count, "o_inc")
      /\ UNCHANGED <<ipc, handle>>
  BY DEF OpenRead, pc, NoteTmp
<1>2. call[p].pc \notin NoShm
  BY <1>1 DEF NoShm, NoSem, LookPcs
<1> QED
  BY <1>1, <1>2, Moves, ReadCount

\* ref_count++ writes; the opener now holds what it will hand out.
LEMMA OpenIncStep ==
    ASSUME IInv, NEW p \in Procs, OpenInc(p)
    PROVE  IInv'
<1>1. /\ Objects /\ call[p].pc = "o_inc" /\ handle' = handle /\ call[p] \in Locals
      /\ Local(call[p], handle[p], Len(sem), Len(shm))
  BY OneProcess DEF OpenInc, pc
<1>2. call[p].m \in 1 .. Len(shm)
  BY <1>1, Known DEF NoSem, NoShm, LookPcs
<1>3. call[p].tmp + 1 \in Int
  BY <1>1 DEF Locals
<1>4. /\ PutCount(call[p].m, call[p].tmp + 1)
      /\ UNCHANGED <<semKey, shmKey, sem>> /\ Goto(p, "o_dup")
  BY DEF OpenInc, PutCount
<1>5. Objects' /\ Len(shm') = Len(shm) /\ sem' = sem
  BY <1>1, <1>2, <1>3, <1>4, SetCount
<1>6. "o_dup" \in Labels
  BY DEF Labels, NamingCalls
<1>7. PICK X \in Locals : /\ call' = [call EXCEPT ![p] = X]
                          /\ X.pc = "o_dup" /\ Keeps(X, call[p], {})
  BY <1>4, <1>6, GotoLemma
<1>8. X.s = call[p].s /\ X.m = call[p].m /\ X.excl = call[p].excl
  BY <1>7 DEF Keeps
<1>9. ~X.excl
  BY <1>1, <1>8 DEF Local, SharePcs
<1>10. Local(X, handle[p], Len(sem'), Len(shm'))
  BY <1>1, <1>5, <1>7, <1>8
     DEF Local, NoSem, NoShm, OpenPcs, LookPcs, CreatePcs, SharePcs, ClosePcs
<1>11. Mine(X, handle[p]) \subseteq Mine(call[p], handle[p]) \cup {Len(sem) + 1}
  BY <1>9 DEF Mine
<1>12. /\ Becomes(p, X, handle[p]) /\ handle[p] \in Handle \cup {NULL}
       /\ Len(sem') \in Nat /\ Len(shm') \in Nat
  BY <1>1, <1>5, <1>7, OneProcess DEF Becomes
<1>13. Len(sem) <= Len(sem') /\ Len(shm) <= Len(shm')
  BY <1>5, <1>12
<1> QED
  BY <1>5, <1>10, <1>11, <1>12, <1>13, ProcessStep

\* sem_open() hands out what it created or found.
LEMMA OpenDupStep ==
    ASSUME IInv, NEW p \in Procs, OpenDup(p)
    PROVE  IInv'
<1>1. /\ Objects /\ call[p].pc = "o_dup" /\ Return(p) /\ call[p] \in Locals
      /\ Local(call[p], handle[p], Len(sem), Len(shm))
  BY OneProcess DEF OpenDup, pc
<1>2. Objects' /\ sem' = sem /\ shm' = shm
  BY <1>1, SameObjects DEF OpenDup
<1>3. CASE UNCHANGED handle
  BY <1>1, <1>2, <1>3, ReturnStep
<1> DEFINE H == [s |-> call[p].s, m |-> call[p].m, excl |-> call[p].excl]
<1>4. CASE handle' = [handle EXCEPT ![p] = H]
  <2>1. call[p].s \in 1 .. Len(sem) /\ call[p].m \in 1 .. Len(shm)
    BY <1>1, Known DEF NoSem, NoShm, LookPcs
  <2>2. call[p].s \in Nat /\ call[p].m \in Nat /\ call[p].excl \in BOOLEAN
    BY <1>1, <2>1 DEF Locals
  <2>3. H \in Handle
    BY <2>2 DEF Handle
  <2>4. H.s = call[p].s /\ H.m = call[p].m /\ H.excl = call[p].excl
    OBVIOUS
  <2> HIDE DEF H
  <2>5. Local(Idle, H, Len(sem), Len(shm))
    BY <2>1, <2>4, IdleType
       DEF Local, NoSem, NoShm, OpenPcs, LookPcs, CreatePcs, SharePcs, ClosePcs
  <2>6. Mine(Idle, H) \subseteq Mine(call[p], handle[p]) \cup {Len(sem) + 1}
    BY <1>1, <2>4, IdleType DEF Mine, CreatePcs
  <2>7. Becomes(p, Idle, H)
    BY <1>1, <1>4 DEF Becomes, Return
  <2>8. /\ Len(sem') \in Nat /\ Len(shm') \in Nat
        /\ Len(sem) <= Len(sem') /\ Len(shm) <= Len(shm')
    BY <1>2, OneProcess
  <2> QED
    BY <1>2, <2>3, <2>5, <2>6, <2>7, <2>8, IdleType, ProcessStep
<1> QED
  BY <1>3, <1>4 DEF OpenDup

\* sem_close() reads the count, or finds the segment gone.
LEMMA CloseReadStep ==
    ASSUME IInv, NEW p \in Procs, CloseRead(p)
    PROVE  IInv'
<1>1. call[p].pc = "c_read" /\ UNCHANGED ipc /\ Objects
  BY OneProcess DEF CloseRead, pc
<1>2. CASE NoteTmp(p, shm[call[p].m].ref_count, "c_dec") /\ UNCHANGED handle
  <2>1. call[p].pc \notin NoShm /\ UNCHANGED <<ipc, handle>>
    BY <1>1, <1>2 DEF NoShm, NoSem, LookPcs
  <2> QED
    BY <1>1, <1>2, <2>1, Moves, ReadCount
<1>3. CASE Free(p) /\ Return(p)
  BY <1>1, <1>3, SameObjects, FreeStep
<1> QED
  BY <1>2, <1>3 DEF CloseRead, NoteTmp

\* ref_count-- writes.
LEMMA CloseDecStep ==
    ASSUME IInv, NEW p \in Procs, CloseDec(p)
    PROVE  IInv'
<1>1. Objects /\ call[p].pc = "c_dec" /\ handle' = handle /\ call[p] \in Locals
  BY OneProcess DEF CloseDec, pc
<1>2. call[p].m \in 1 .. Len(shm)
  BY <1>1, Known DEF NoSem, NoShm, LookPcs
<1>3. call[p].tmp - 1 \in Int
  BY <1>1 DEF Locals
<1>4. /\ PutCount(call[p].m, call[p].tmp - 1)
      /\ UNCHANGED <<semKey, shmKey, sem>> /\ Goto(p, "c_test")
  BY DEF CloseDec, PutCount
<1>5. Objects' /\ Len(shm') = Len(shm) /\ sem' = sem
  BY <1>1, <1>2, <1>3, <1>4, SetCount
<1> QED
  BY <1>1, <1>4, <1>5, Moves, GotoStep

\* The last reference goes on to the removals, any other returns.
LEMMA CloseTestStep ==
    ASSUME IInv, NEW p \in Procs, CloseTest(p)
    PROVE  IInv'
<1>1. Objects /\ call[p].pc = "c_test"
  BY OneProcess DEF CloseTest, pc
<1>2. Objects' /\ sem' = sem /\ shm' = shm
  BY <1>1, SameObjects DEF CloseTest
<1> QED
  BY <1>1, <1>2, Moves, FreeStep, GotoStep DEF CloseTest

\* The two IPC_RMID calls.
LEMMA RmSemStep ==
    ASSUME IInv, NEW p \in Procs, RmSem(p)
    PROVE  IInv'
<1>1. /\ Objects /\ call[p].pc \in {"c_rmsem", "u_rmsem"} /\ handle' = handle
      /\ RemoveSem(call[p].s) /\ UNCHANGED <<shmKey, shm>> /\ call[p] \in Locals
  BY OneProcess DEF RmSem, pc
<1>2. call[p].s \in 1 .. Len(sem)
  BY <1>1, Known DEF NoSem, LookPcs
<1>3. Objects' /\ Len(sem') = Len(sem) /\ shm' = shm
  BY <1>1, <1>2, RemoveSemObjects
<1>4. CASE call[p].pc = "c_rmsem"
  <2>1. Goto(p, "c_rmshm")
    BY <1>1, <1>4 DEF RmSem, Goto, pc, Locals
  <2> QED
    BY <1>1, <1>3, <1>4, <2>1, Moves, GotoStep
<1>5. CASE call[p].pc = "u_rmsem"
  <2>1. Goto(p, "u_rmshm")
    BY <1>1, <1>5 DEF RmSem, Goto, pc, Locals
  <2> QED
    BY <1>1, <1>3, <1>5, <2>1, Moves, GotoStep
<1> QED
  BY <1>1, <1>4, <1>5

\* The segment goes, and with sem_close() the handle.
LEMMA RmShmStep ==
    ASSUME IInv, NEW p \in Procs, RmShm(p)
    PROVE  IInv'
<1>1. /\ Objects /\ call[p].pc \in {"c_rmshm", "u_rmshm"}
      /\ RemoveShm(call[p].m) /\ UNCHANGED <<semKey, sem>> /\ Return(p)
  BY OneProcess DEF RmShm, pc
<1>2. call[p].m \in 1 .. Len(shm)
  BY <1>1, Known DEF NoSem, NoShm, LookPcs
<1>3. Objects' /\ Len(shm') = Len(shm) /\ sem' = sem
  BY <1>1, <1>2, RemoveShmObjects
<1> QED
  BY <1>1, <1>3, FreeStep, ReturnStep DEF RmShm

\* sem_unlink(), after its lookups.
LEMMA UnlinkCall ==
    ASSUME IInv, NEW p \in Procs, sem_unlink(p)
    PROVE  IInv'
<1>1. Objects /\ call[p].pc = "idle" /\ handle' = handle /\ Goto(p, "u_semget")
  BY OneProcess DEF sem_unlink, MayName, pc
<1>2. Objects' /\ sem' = sem /\ shm' = shm
  BY <1>1, SameObjects DEF sem_unlink
<1> QED
  BY <1>1, <1>2, Moves, GotoStep

\* sem_unlink() marks the metadata.
LEMMA UnlinkMarkStep ==
    ASSUME IInv, NEW p \in Procs, UnlinkMark(p)
    PROVE  IInv'
<1>1. Objects /\ call[p].pc = "u_mark" /\ handle' = handle
      /\ UNCHANGED <<semKey, shmKey, sem>>
  BY OneProcess DEF UnlinkMark, pc
<1>2. call[p].m \in 1 .. Len(shm)
  BY <1>1, Known DEF NoSem, NoShm, LookPcs
<1>3. CASE PutUnlinked(call[p].m, TRUE) /\ Goto(p, "u_test")
  <2>1. Objects' /\ Len(shm') = Len(shm) /\ sem' = sem
    BY <1>1, <1>2, <1>3, SetUnlinked
  <2> QED
    BY <1>1, <1>3, <2>1, Moves, GotoStep
<1>4. CASE Return(p) /\ UNCHANGED shm
  BY <1>1, <1>4, SameObjects, ReturnStep DEF ipc
<1> QED
  BY <1>3, <1>4 DEF UnlinkMark, PutUnlinked

\* sem_unlink() looks at the count.
LEMMA UnlinkTestStep ==
    ASSUME IInv, NEW p \in Procs, UnlinkTest(p)
    PROVE  IInv'
<1>1. Objects /\ call[p].pc = "u_test" /\ handle' = handle
  BY OneProcess DEF UnlinkTest, pc
<1>2. Objects' /\ sem' = sem /\ shm' = shm
  BY <1>1, SameObjects DEF UnlinkTest
<1> QED
  BY <1>1, <1>2, Moves, ReturnStep, GotoStep DEF UnlinkTest

\* The objects after a wait's try: taken from, or as they were.
LEMMA TryObjects ==
    ASSUME IInv, NEW i \in 1 .. Len(sem), Take(i) \/ UNCHANGED ipc
    PROVE  /\ Objects' /\ Len(sem') = Len(sem) /\ Len(shm') = Len(shm)
           /\ UNCHANGED <<semKey, shmKey, shm>>
<1>1. Objects
  BY DEF IInv
<1> QED
  BY <1>1, TakeObjects, SameObjects

\* sem_wait() and sem_timedwait() after their start: they take the semaphore
\* and return, or set the alarm and wait.
LEMMA WaitSteps ==
    ASSUME IInv, NEW p \in Procs, WaitStep(p)
    PROVE  /\ IInv' /\ UNCHANGED <<semKey, shmKey, shm, handle, leaked>>
           /\ pc(p) \notin NamingCalls
<1>1. call[p].pc \in WaitPcs /\ UNCHANGED <<handle, leaked>>
  BY DEF WaitStep, WaitBlock, TimedTry, TimedBlock, TimedTaken, TimedEintr, pc, WaitPcs
<1>2. call[p].s \in 1 .. Len(sem) /\ Objects /\ pc(p) \notin NamingCalls
  BY <1>1, Known, OneProcess DEF WaitPcs, NoSem, LookPcs, pc, NamingCalls
<1>3. CASE Return(p) /\ (Take(call[p].s) \/ UNCHANGED ipc)
  BY <1>1, <1>2, <1>3, TryObjects, ReturnStep
<1>4. CASE NoteAlarm(p, TRUE, "t_armed") /\ call[p].pc = "t_try" /\ UNCHANGED ipc
  <2>1. "t_armed" \in Labels
    BY DEF Labels, WaitPcs
  <2>2. PICK X \in Locals : /\ call' = [call EXCEPT ![p] = X] /\ X.pc = "t_armed"
                            /\ Keeps(X, call[p], {"alarm"})
    BY <1>4, <2>1, SetAlarm
  <2>3. Objects' /\ sem' = sem /\ shm' = shm /\ semKey' = semKey /\ shmKey' = shmKey
    BY <1>2, <1>4, SameObjects
  <2> QED
    BY <1>1, <1>2, <1>4, <2>2, <2>3, Moves, KeepStep
<1>5. CASE Goto(p, "t_block") /\ call[p].pc = "t_armed" /\ UNCHANGED ipc
  <2>1. Objects' /\ sem' = sem /\ shm' = shm /\ semKey' = semKey /\ shmKey' = shmKey
    BY <1>2, <1>5, SameObjects
  <2> QED
    BY <1>1, <1>2, <1>5, <2>1, Moves, GotoStep
<1>6. \/ Return(p) /\ (Take(call[p].s) \/ UNCHANGED ipc)
      \/ NoteAlarm(p, TRUE, "t_armed") /\ call[p].pc = "t_try" /\ UNCHANGED ipc
      \/ Goto(p, "t_block") /\ call[p].pc = "t_armed" /\ UNCHANGED ipc
  BY DEF WaitStep, WaitBlock, TimedTry, TimedBlock, TimedTaken, TimedEintr, NoteAlarm, pc
<1> QED
  BY <1>3, <1>4, <1>5, <1>6

\* The alarm of sem_timedwait().
LEMMA AlarmSteps ==
    ASSUME IInv, NEW p \in Procs, Alarm(p) \/ AlarmEarly(p)
    PROVE  /\ IInv' /\ UNCHANGED <<semKey, shmKey, shm, handle, leaked>>
           /\ pc(p) \notin NamingCalls
<1>1. /\ call[p].pc \in {"t_armed", "t_block"} /\ UNCHANGED <<ipc, handle, leaked>>
      /\ call[p] \in Locals /\ Objects
  BY OneProcess DEF Alarm, AlarmEarly, pc
<1>2. pc(p) \notin NamingCalls
  BY <1>1 DEF pc, NamingCalls
<1>3. Objects' /\ sem' = sem /\ shm' = shm /\ semKey' = semKey /\ shmKey' = shmKey
  BY <1>1, SameObjects
<1>4. CASE AlarmEarly(p)
  <2> DEFINE X == [call[p] EXCEPT !.alarm = FALSE]
  <2>1. X \in Locals /\ X.pc = call[p].pc
    BY <1>1 DEF Locals
  <2>2. Keeps(X, call[p], {"alarm"})
    BY <1>1 DEF Locals, Keeps
  <2>3. call' = [call EXCEPT ![p] = X]
    BY <1>4 DEF AlarmEarly
  <2>4. Follows(call[p].pc, call[p].pc)
    BY <1>1 DEF Follows, Locals
  <2> HIDE DEF X
  <2> QED
    BY <1>1, <1>2, <1>3, <2>1, <2>2, <2>3, <2>4, KeepStep
<1>5. CASE Alarm(p)
  <2> DEFINE x == FALSE
  <2>1. NoteAlarm(p, x, "t_eintr") /\ call[p].pc = "t_block" /\ x \in BOOLEAN
    BY <1>5 DEF Alarm, NoteAlarm, pc
  <2> HIDE DEF x
  <2>2. "t_eintr" \in Labels
    BY DEF Labels, WaitPcs
  <2>3. PICK X \in Locals : /\ call' = [call EXCEPT ![p] = X] /\ X.pc = "t_eintr"
                            /\ Keeps(X, call[p], {"alarm"})
    BY <2>1, <2>2, SetAlarm
  <2> QED
    BY <1>1, <1>2, <1>3, <2>1, <2>3, Moves, KeepStep
<1> QED
  BY <1>4, <1>5

\* sem_trywait() and sem_post(), and the start of the waits.
LEMMA WaitCalls ==
    ASSUME IInv, NEW p \in Procs,
           sem_wait(p) \/ sem_trywait(p) \/ sem_timedwait(p) \/ sem_post(p)
    PROVE  /\ IInv' /\ UNCHANGED <<semKey, shmKey, shm, handle, leaked>>
           /\ pc(p) \notin NamingCalls
<1>1. handle[p] # NULL /\ call[p].pc = "idle" /\ pc(p) \notin NamingCalls
      /\ UNCHANGED <<handle, leaked>>
  BY DEF sem_wait, sem_trywait, sem_timedwait, sem_post, Start, pc, NamingCalls
<1>2. handle[p].s \in 1 .. Len(sem) /\ Objects
  BY <1>1, Known, OneProcess
<1>3. CASE sem_wait(p) \/ sem_timedwait(p)
  <2>1. UNCHANGED <<ipc, handle>>
    BY <1>3 DEF sem_wait, sem_timedwait, Start
  <2>2. IInv'
    BY <1>1, <1>3, <2>1, HandleCall DEF sem_wait, sem_timedwait, Start
  <2> QED
    BY <1>1, <2>1, <2>2 DEF ipc
<1>4. ASSUME Objects', Len(sem') = Len(sem), UNCHANGED <<semKey, shmKey, shm, call>>
      PROVE  IInv'
  BY <1>1, <1>4 DEF IInv, Processes, Apart
<1>5. CASE sem_trywait(p)
  <2>1. Objects' /\ Len(sem') = Len(sem) /\ UNCHANGED <<semKey, shmKey, shm>> /\ call' = call
    BY <1>2, <1>5, TakeObjects DEF sem_trywait
  <2> QED
    BY <1>1, <1>4, <2>1
<1>6. CASE sem_post(p)
  <2>1. sem[handle[p].s] \in Semaphore /\ sem[handle[p].s].val < SEMVMX
    BY <1>2, <1>6 DEF sem_post, Objects
  <2>2. sem[handle[p].s].val + 1 \in 0 .. SEMVMX
    BY <2>1, SemAssumption DEF Semaphore
  <2>3. sem' = [sem EXCEPT ![handle[p].s].val = sem[handle[p].s].val + 1]
        /\ UNCHANGED <<semKey, shmKey, shm>> /\ call' = call
    BY <1>6 DEF sem_post
  <2>4. Objects' /\ Len(sem') = Len(sem)
    BY <1>2, <2>2, <2>3, SetVal
  <2> QED
    BY <1>1, <1>4, <2>3, <2>4
<1> QED
  BY <1>3, <1>5, <1>6

\* The empty system satisfies the invariant.
LEMMA InitInv == Init => IInv
<1> SUFFICES ASSUME Init PROVE IInv
  OBVIOUS
<1>1. Objects
  BY SemAssumption DEF Init, Objects, KeyLives
<1>2. \A p \in Procs : call[p] = Idle /\ handle[p] = NULL
  BY DEF Init
<1>3. Processes
  BY <1>2, IdleType DEF Init, Processes, Local, NoSem, NoShm, OpenPcs, LookPcs, CreatePcs,
                        SharePcs, ClosePcs
<1>4. \A p \in Procs : Mine(call[p], handle[p]) = {}
  BY <1>2, IdleType DEF Mine, CreatePcs
<1> QED
  BY <1>1, <1>3, <1>4 DEF IInv, Apart

\* Every step keeps it.
LEMMA NextInv == IInv /\ [Next]_vars => IInv'
<1> SUFFICES ASSUME IInv, [Next]_vars PROVE IInv'
  OBVIOUS
<1>1. CASE UNCHANGED vars
  BY <1>1 DEF vars, IInv, Objects, KeyLives, Processes, Apart
<1>2. ASSUME NEW p \in Procs, Call(p) PROVE IInv'
  <2>1. ASSUME NEW x \in BOOLEAN, NEW creat \in BOOLEAN, NEW v \in 0 .. SEMVMX,
               sem_open(p, creat, x, v)
        PROVE  IInv'
    BY <2>1, OpenCall
  <2>2. ASSUME NEW x \in BOOLEAN, sem_open(p, FALSE, x, 0) PROVE IInv'
    <3>1. 0 \in 0 .. SEMVMX
      BY SemAssumption
    <3> QED
      BY <2>1, <2>2, <3>1, Zenon
  <2>3. ASSUME NEW x \in BOOLEAN, NEW v \in Values, sem_open(p, TRUE, x, v) PROVE IInv'
    <3>1. v \in 0 .. SEMVMX
      BY SemAssumption
    <3> QED
      BY <2>1, <2>3, <3>1, Zenon
  <2>4. CASE sem_close(p)
    BY <2>4, HandleCall DEF sem_close
  <2> QED
    BY <1>2, <2>2, <2>3, <2>4, UnlinkCall, WaitCalls DEF Call
<1>3. ASSUME NEW p \in Procs, Step(p) PROVE IInv'
  <2>1. CASE OpenStep(p)
    BY <2>1, OpenSemgetStep, OpenShmgetStep, OpenCreateStep, OpenMakeShmStep,
       OpenSetvalStep, OpenMagicStep, OpenLinkedStep, OpenOneStep, OpenExistingStep,
       OpenUnlinkedStep, OpenReadStep, OpenIncStep, OpenDupStep DEF OpenStep
  <2>2. CASE CloseStep(p) \/ RemoveStep(p)
    BY <2>2, CloseReadStep, CloseDecStep, CloseTestStep, RmSemStep, RmShmStep
       DEF CloseStep, RemoveStep
  <2>3. CASE UnlinkStep(p)
    BY <2>3, OpenSemgetStep, OpenShmgetStep, UnlinkMarkStep, UnlinkTestStep DEF UnlinkStep
  <2> QED
    BY <1>3, <2>1, <2>2, <2>3, WaitSteps DEF Step
<1> QED
  BY <1>1, <1>2, <1>3, AlarmSteps DEF Next

\* The invariant holds of every behaviour.
LEMMA Invariant == Spec => []IInv
  BY InitInv, NextInv, PTL DEF Spec

\* Whatever the interleaving of the calls of any number of processes, with
\* naming calls overlapping or not: identifiers name objects that were made, and
\* no semaphore is taken below zero or posted above SEMVMX.
THEOREM TypeCorrect == Spec => []TypeOK
<1>1. IInv => TypeOK
  <2> SUFFICES ASSUME IInv PROVE TypeOK
    OBVIOUS
  <2>1. /\ Len(sem) <= MaxIds /\ Len(shm) <= MaxIds
        /\ semKey \in (1 .. Len(sem)) \cup {NULL} /\ shmKey \in (1 .. Len(shm)) \cup {NULL}
    BY DEF IInv, Objects
  <2>2. \A i \in 1 .. Len(sem) : sem[i] \in Semaphore
    BY DEF IInv, Objects
  <2>3. \A i \in 1 .. Len(shm) : shm[i] \in Segment
    BY DEF IInv, Objects
  <2>4. \A p \in Procs : /\ call[p].s \in (1 .. Len(sem)) \cup {NULL}
                         /\ call[p].m \in (1 .. Len(shm)) \cup {NULL}
    BY DEF IInv, Processes, Local
  <2> QED
    BY <2>1, <2>2, <2>3, <2>4 DEF TypeOK, Semaphore, Segment
<1> QED
  BY <1>1, Invariant, PTL

\* However many openers race, and however their system calls interleave, two
\* that asked for O_CREAT | O_EXCL never hold the same semaphore.
THEOREM ExclusiveOpen == Spec => []ExclusiveCreation
<1>1. IInv => ExclusiveCreation
  <2> SUFFICES ASSUME IInv, NEW p \in Procs, NEW q \in Procs, p # q,
                      handle[p] # NULL, handle[q] # NULL, handle[p].excl, handle[q].excl
               PROVE  handle[p].s # handle[q].s
    BY DEF ExclusiveCreation
  <2>1. handle[p].s \in Nat /\ handle[q].s \in Nat
    BY DEF IInv, Processes, Handle
  <2>2. Mine(call[p], handle[p]) \cap Mine(call[q], handle[q]) = {}
    BY DEF IInv, Apart
  <2>3. handle[p].s \in Mine(call[p], handle[p]) /\ handle[q].s \in Mine(call[q], handle[q])
    BY <2>1 DEF Mine
  <2> QED
    BY <2>2, <2>3
<1> QED
  BY <1>1, Invariant, PTL
=============================================================================
