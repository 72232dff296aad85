----------------------- MODULE PosixSemSerialProofs -----------------------
(***************************************************************************)
(* Proofs about PosixSem for callers that do not overlap sem_open(),       *)
(* sem_close() and sem_unlink(): the reference count of the metadata is    *)
(* then exact, or too high after a sem_open() that failed late.  SerialInv *)
(* follows the one naming call that is under way through its points: Phase *)
(* says at each of them how far the count is from the number of handles,   *)
(* which objects the keys still name and who may hold a handle.  Between   *)
(* calls, Rest holds.  sem_wait(), sem_post() and the alarms overlap the   *)
(* naming calls freely, and leave everything SerialInv speaks of alone.    *)
(***************************************************************************)
EXTENDS PosixSemProofs

\* Handles name what the keys name, except that sem_close() may have removed the
\* semaphore and not yet the segment.
HandlesCurrent == \A p \in Procs : handle[p] # NULL =>
    handle[p].m = shmKey /\ (handle[p].s = semKey \/ pc(p) = "c_rmshm")

\* The count of the segment is d above the number of handles, or more if a
\* sem_open() failed after counting itself.
Count(d) == shmKey # NULL =>
    LET c == Cardinality(Openers(shmKey)) + d
    IN  shm[shmKey].ref_count >= c /\ (~leaked => shm[shmKey].ref_count = c)

\* Between calls.
Rest == /\ semKey = NULL <=> shmKey = NULL
        /\ Count(0)
        /\ shmKey # NULL /\ shm[shmKey].unlinked => shm[shmKey].ref_count # 0

\* No process of S holds a handle.
NoHandles(S) == \A p \in S : handle[p] = NULL

\* The one naming call, process p's, at each of its points; r are its locals.
AtRest  == {"o_semget", "o_shmget", "o_creat", "o_exist", "o_unlinked", "o_read",
            "o_inc", "c_read", "c_dec", "u_semget", "u_shmget", "u_mark"}
Fresh   == {"o_setval", "o_magic", "o_linked", "o_one"}
OnBoth  == Fresh \cup {"o_exist", "o_unlinked", "o_read", "o_inc", "o_dup", "c_read",
            "c_dec", "c_test", "c_rmsem", "u_mark", "u_test", "u_rmsem"}

Phase(r, p) ==
    /\ r.pc \notin {"o_reget", "o_reshm"}
    /\ r.pc \in AtRest => Rest
    /\ r.pc \in OnBoth => r.s = semKey /\ r.m = shmKey
    /\ r.pc \in {"o_shmget", "u_shmget"} => r.s = semKey
    /\ r.pc = "o_creat" => semKey = NULL
    /\ r.pc = "o_mkshm" => r.s = semKey /\ shmKey = NULL
    /\ r.pc \in Fresh \cup {"u_rmsem", "u_rmshm"} => NoHandles(Procs)
    /\ r.pc \in Fresh \cup {"o_read", "o_inc", "o_dup"} => ~shm[shmKey].unlinked
    /\ r.pc \in {"o_inc", "c_dec"} => r.tmp = shm[shmKey].ref_count
    /\ r.pc = "o_dup"  => Count(1)
    /\ r.pc = "c_test" => Count(-1)
    /\ r.pc = "u_test" => Count(0)
    /\ r.pc \in {"c_rmsem", "c_rmshm"} => NoHandles(Procs \ {p})
    /\ r.pc \in {"c_rmshm", "u_rmshm"} => semKey = NULL /\ r.m = shmKey

SerialInv == /\ \A p, q \in Procs : pc(p) \in NamingCalls /\ pc(q) \in NamingCalls => p = q
             /\ HandlesCurrent
             /\ Quiet => Rest
             /\ \A p \in Procs : pc(p) \in NamingCalls => Phase(call[p], p)
-----------------------------------------------------------------------------
(* It is enough to follow the process in the naming call.                  *)

\* What SerialInv speaks of, but for the locals of the calls.
core == <<semKey, shmKey, shm, handle, leaked>>

\* No process but p is in a naming call.
Alone(p) == \A q \in Procs \ {p} : pc(q) \notin NamingCalls

\* It is enough to look at the process whose naming call it is.
LEMMA SerialMove ==
    ASSUME IInv, SerialInv, NEW p \in Procs, Alone(p), NEW X \in Locals,
           call' = [call EXCEPT ![p] = X], HandlesCurrent',
           X.pc \in NamingCalls => Phase(X, p)',
           X.pc \notin NamingCalls => Rest'
    PROVE  SerialInv'
<1>1. call \in [Procs -> Locals]
  BY DEF IInv, Processes
<1>2. call'[p] = X /\ \A q \in Procs \ {p} : call'[q] = call[q]
  BY <1>1
<1>3. \A q \in Procs \ {p} : pc(q)' \notin NamingCalls
  BY <1>2 DEF Alone, pc
<1>4. pc(p)' = X.pc
  BY <1>2 DEF pc
<1>5. Quiet' => Rest'
  BY <1>4 DEF Quiet
<1>6. \A q \in Procs : pc(q)' \in NamingCalls => Phase(call[q], q)'
  BY <1>2, <1>3, <1>4
<1> QED
  BY <1>3, <1>5, <1>6 DEF SerialInv

\* What the phases say of the state is said in terms of core.
LEMMA SameCore ==
    ASSUME UNCHANGED core
    PROVE  /\ Rest => Rest'
           /\ \A r, p : Phase(r, p) => Phase(r, p)'
<1>1. /\ semKey' = semKey /\ shmKey' = shmKey /\ shm' = shm /\ handle' = handle
      /\ leaked' = leaked
  BY DEF core
<1>2. \A d : Count(d)' = Count(d)
  BY <1>1, Zenon DEF Count, Openers
<1>3. Rest' = Rest
  BY <1>1, <1>2, Zenon DEF Rest
<1>4. \A S : NoHandles(S)' = NoHandles(S)
  BY <1>1, Zenon DEF NoHandles
<1>5. \A r, p : Phase(r, p)' = Phase(r, p)
  BY <1>1, <1>2, <1>3, <1>4, Zenon DEF Phase
<1> QED
  BY <1>3, <1>5, Zenon

\* Handles stay current when neither they nor the keys change.
LEMMA HandlesStay ==
    ASSUME IInv, HandlesCurrent, UNCHANGED <<semKey, shmKey, handle>>, NEW p \in Procs,
           NEW X, call' = [call EXCEPT ![p] = X], pc(p) # "c_rmshm"
    PROVE  HandlesCurrent'
<1>1. call \in [Procs -> Locals]
  BY DEF IInv, Processes
<1>2. \A q \in Procs \ {p} : pc(q)' = pc(q)
  BY <1>1 DEF pc
<1> QED
  BY <1>2 DEF HandlesCurrent

\* A naming call moves on and leaves core alone.
LEMMA CoreMove ==
    ASSUME IInv, SerialInv, NEW p \in Procs, Alone(p), pc(p) # "c_rmshm",
           NEW X \in Locals, call' = [call EXCEPT ![p] = X], UNCHANGED core,
           X.pc \in NamingCalls => Phase(X, p),
           X.pc \notin NamingCalls => Rest
    PROVE  SerialInv'
<1>1. HandlesCurrent'
  <2>1. UNCHANGED <<semKey, shmKey, handle>> /\ HandlesCurrent
    BY DEF core, SerialInv
  <2> QED
    BY <2>1, HandlesStay
<1>2. X.pc \in NamingCalls => Phase(X, p)'
  BY SameCore
<1>3. X.pc \notin NamingCalls => Rest'
  BY SameCore
<1> QED
  BY <1>1, <1>2, <1>3, SerialMove

\* Steps outside of naming calls leave core alone, and stay outside.
LEMMA OtherMove ==
    ASSUME IInv, SerialInv, NEW p \in Procs, pc(p) \notin NamingCalls,
           NEW X \in Locals, call' = [call EXCEPT ![p] = X], UNCHANGED core,
           X.pc \notin NamingCalls
    PROVE  SerialInv'
<1>1. call \in [Procs -> Locals]
  BY DEF IInv, Processes
<1>2. call'[p] = X /\ \A q \in Procs \ {p} : call'[q] = call[q]
  BY <1>1
<1>3. \A q \in Procs : pc(q)' \in NamingCalls => pc(q) \in NamingCalls /\ q # p
  BY <1>2 DEF pc
<1>4. \A q \in Procs : pc(q) \in NamingCalls => pc(q)' \in NamingCalls
  BY <1>2 DEF pc
<1>5. HandlesCurrent'
  <2>1. UNCHANGED <<semKey, shmKey, handle>> /\ HandlesCurrent
    BY DEF core, SerialInv
  <2>2. pc(p) # "c_rmshm"
    BY DEF NamingCalls
  <2> QED
    BY <2>1, <2>2, HandlesStay
<1>6. Quiet' => Rest'
  BY <1>4, SameCore DEF Quiet, SerialInv
<1>7. ASSUME NEW q \in Procs, pc(q)' \in NamingCalls PROVE Phase(call[q], q)'
  <2>1. call'[q] = call[q] /\ Phase(call[q], q)
    BY <1>2, <1>3, <1>7 DEF SerialInv
  <2>2. \A r : Phase(r, q) => Phase(r, q)'
    BY SameCore
  <2> QED
    BY <2>1, <2>2
<1> QED
  BY <1>3, <1>5, <1>6, <1>7 DEF SerialInv

\* The process in a naming call is alone, and its phase is known.
LEMMA InNaming ==
    ASSUME IInv, SerialInv, NEW p \in Procs, pc(p) \in NamingCalls
    PROVE  Alone(p) /\ Phase(call[p], p) /\ HandlesCurrent
  BY DEF SerialInv, Alone

\* Handles are counted in the naturals.
LEMMA OpenersCount ==
    \A i : IsFiniteSet(Openers(i)) /\ Cardinality(Openers(i)) \in Nat
<1> TAKE i
<1>1. Openers(i) \subseteq Procs
  BY DEF Openers
<1>2. IsFiniteSet(Openers(i))
  BY <1>1, SemAssumption, FS_Subset
<1> QED
  BY <1>2, FS_CardinalityType

\* No handle: the count of handles is zero; and conversely, for current handles.
LEMMA ZeroOpeners ==
    ASSUME HandlesCurrent
    PROVE  Cardinality(Openers(shmKey)) = 0 <=> NoHandles(Procs)
<1>1. Openers(shmKey) = {} <=> NoHandles(Procs)
  BY DEF HandlesCurrent, Openers, NoHandles
<1> QED
  BY <1>1, OpenersCount, FS_EmptySet

\* One opener at most, and it is p.
LEMMA OneOpener ==
    ASSUME HandlesCurrent, NEW p \in Procs, handle[p] # NULL,
           Cardinality(Openers(shmKey)) <= 1
    PROVE  NoHandles(Procs \ {p})
<1> DEFINE S == Openers(shmKey)
<1>1. p \in S /\ IsFiniteSet(S) /\ Cardinality(S) \in Nat
  BY OpenersCount DEF HandlesCurrent, Openers
<1>2. \A q \in Procs : handle[q] # NULL => q \in S
  BY DEF HandlesCurrent, Openers
<1> HIDE DEF S
<1>3. IsFiniteSet(S \ {p}) /\ Cardinality(S \ {p}) = Cardinality(S) - 1
  BY <1>1, FS_RemoveElement
<1>4. Cardinality(S \ {p}) = 0
  <2>1. Cardinality(S) <= 1
    BY DEF S
  <2>2. Cardinality(S \ {p}) \in Nat
    BY <1>3, FS_CardinalityType
  <2> QED
    BY <1>1, <1>3, <2>1, <2>2
<1>5. S \ {p} = {}
  BY <1>3, <1>4, FS_EmptySet
<1> QED
  BY <1>2, <1>5 DEF NoHandles

\* A write of the count, the handles being the same.
LEMMA CountWritten ==
    ASSUME NEW d \in Int, NEW e \in Int, Count(d), shmKey # NULL,
           shm[shmKey].ref_count \in Int,
           shm'[shmKey].ref_count = shm[shmKey].ref_count + e,
           shmKey' = shmKey, handle' = handle, leaked' = leaked
    PROVE  Count(d + e)'
<1> DEFINE c == Cardinality(Openers(shmKey))
<1>1. c \in Nat /\ c' = c
  BY OpenersCount DEF Openers
<1>2. /\ shm[shmKey].ref_count >= c + d
      /\ ~leaked => shm[shmKey].ref_count = c + d
  BY DEF Count
<1> HIDE DEF c
<1>3. shm'[shmKey'].ref_count >= c' + (d + e)
  BY <1>1, <1>2
<1>4. CASE leaked
  <2>1. leaked'
    BY <1>4
  <2> QED
    BY <1>3, <2>1 DEF Count, c
<1>5. CASE ~leaked
  <2>1. shm'[shmKey'].ref_count = c' + (d + e)
    BY <1>1, <1>2, <1>5
  <2> QED
    BY <1>3, <2>1 DEF Count, c
<1> QED
  BY <1>4, <1>5

\* A handle more, or less, the count being the same.
LEMMA CountHandles ==
    ASSUME NEW d \in Int, NEW e \in Int, Count(d), shmKey # NULL,
           shm[shmKey].ref_count \in Int,
           Cardinality(Openers(shmKey)') = Cardinality(Openers(shmKey)) + e,
           shmKey' = shmKey, shm' = shm, leaked' = leaked
    PROVE  Count(d - e)'
<1> DEFINE c == Cardinality(Openers(shmKey))
<1>1. c \in Nat /\ c' = c + e
  BY OpenersCount
<1>2. /\ shm[shmKey].ref_count >= c + d
      /\ ~leaked => shm[shmKey].ref_count = c + d
  BY DEF Count
<1> HIDE DEF c
<1>3. shm'[shmKey'].ref_count >= c' + (d - e)
  BY <1>1, <1>2
<1>4. CASE leaked
  <2>1. leaked'
    BY <1>4
  <2> QED
    BY <1>3, <2>1 DEF Count, c
<1>5. CASE ~leaked
  <2>1. shm'[shmKey'].ref_count = c' + (d - e)
    BY <1>1, <1>2, <1>5
  <2> QED
    BY <1>3, <2>1 DEF Count, c
<1> QED
  BY <1>4, <1>5

\* The key's segment is a segment.
LEMMA KeySegment ==
    ASSUME IInv, shmKey # NULL
    PROVE  /\ shmKey \in 1 .. Len(shm) /\ shm[shmKey] \in Segment
           /\ shm[shmKey].ref_count \in Int /\ shm[shmKey].live
<1>1. shmKey \in 1 .. Len(shm) /\ shm[shmKey] \in Segment /\ shm[shmKey].live
  BY DEF IInv, Objects, KeyLives
<1> QED
  BY <1>1 DEF Segment

\* A call that works on both objects.
LEMMA Both ==
    ASSUME IInv, NEW p \in Procs, pc(p) \in OnBoth, Phase(call[p], p)
    PROVE  /\ call[p].s = semKey /\ call[p].m = shmKey
           /\ semKey # NULL /\ semKey \in 1 .. Len(sem) /\ sem[semKey].live
           /\ shmKey # NULL /\ shmKey \in 1 .. Len(shm) /\ CanAttach(shmKey)
<1>1. call[p].s = semKey /\ call[p].m = shmKey
  BY DEF Phase, pc
<1>2. call[p].s \in 1 .. Len(sem) /\ call[p].m \in 1 .. Len(shm)
  BY Known DEF OnBoth, Fresh, NoSem, NoShm, LookPcs, pc
<1>3. semKey # NULL /\ shmKey # NULL
  BY <1>1, <1>2, SemAssumption
<1> QED
  BY <1>1, <1>2, <1>3, KeySegment DEF IInv, Objects, KeyLives, CanAttach

\* Nobody holds a handle when the key names no segment.
LEMMA NoSegment ==
    ASSUME IInv, HandlesCurrent, shmKey = NULL
    PROVE  NoHandles(Procs)
<1> SUFFICES ASSUME NEW p \in Procs, handle[p] # NULL PROVE FALSE
  BY DEF NoHandles
<1>1. handle[p].m \in Nat /\ handle[p].m = NULL
  BY OneProcess DEF HandlesCurrent, Handle
<1> QED
  BY <1>1, SemAssumption

\* A naming call returns, everything being as between calls.
LEMMA ReturnMove ==
    ASSUME IInv, SerialInv, NEW p \in Procs, Alone(p), pc(p) # "c_rmshm",
           Return(p), UNCHANGED core, Rest
    PROVE  SerialInv'
<1>1. Idle.pc \notin NamingCalls
  BY IdleType DEF NamingCalls
<1> QED
  BY <1>1, IdleType, CoreMove DEF Return
-----------------------------------------------------------------------------
(* Call by call.                                                           *)

\* A naming call starts when no other is under way.
LEMMA NamingStarts ==
    ASSUME IInv, SerialInv, serial, NEW p \in Procs, MayName(p), NEW X \in Locals,
           call' = [call EXCEPT ![p] = X], UNCHANGED core,
           \/ X.pc \in {"o_semget", "u_semget"}
           \/ X.pc = "c_read" /\ handle[p] # NULL /\ X.s = handle[p].s /\ X.m = handle[p].m
    PROVE  SerialInv'
<1>1. pc(p) = "idle" /\ \A q \in Procs : pc(q) \notin NamingCalls
  BY DEF MayName
<1>2. Rest /\ Alone(p) /\ HandlesCurrent /\ pc(p) # "c_rmshm"
  BY <1>1 DEF SerialInv, Quiet, Alone
<1>3. X.pc = "c_read" => X.s = semKey /\ X.m = shmKey
  BY <1>2 DEF HandlesCurrent
<1>4. Phase(X, p) /\ X.pc \in NamingCalls
  BY <1>2, <1>3 DEF Phase, AtRest, OnBoth, Fresh, NamingCalls
<1> QED
  BY <1>2, <1>4, CoreMove

\* The three naming calls start this way.
LEMMA NamingCallsStart ==
    ASSUME IInv, SerialInv, serial, NEW p \in Procs,
           \/ \E creat, x \in BOOLEAN, v \in 0 .. SEMVMX : sem_open(p, creat, x, v)
           \/ sem_close(p) \/ sem_unlink(p)
    PROVE  SerialInv'
<1>1. MayName(p) /\ UNCHANGED core
  BY DEF sem_open, sem_close, sem_unlink, core, ipc
<1>2. ASSUME NEW creat \in BOOLEAN, NEW x \in BOOLEAN, NEW v \in 0 .. SEMVMX,
             sem_open(p, creat, x, v)
      PROVE  SerialInv'
  <2> DEFINE X == Frame("o_semget", creat, x, v, NULL, NULL)
  <2>1. X \in Locals /\ X.pc = "o_semget"
    <3>1. "o_semget" \in Labels /\ NULL \in Nat \cup {NULL}
      BY DEF Labels, NamingCalls
    <3> QED
      BY <3>1 DEF Frame, Locals
  <2>2. call' = [call EXCEPT ![p] = X]
    BY <1>2 DEF sem_open
  <2> HIDE DEF X
  <2> QED
    BY <1>1, <2>1, <2>2, NamingStarts
<1>3. CASE sem_close(p)
  <2> DEFINE X == Frame("c_read", FALSE, FALSE, 0, handle[p].s, handle[p].m)
  <2>1. handle[p] # NULL /\ handle[p].s \in Nat \cup {NULL} /\ handle[p].m \in Nat \cup {NULL}
    BY <1>3, OneProcess DEF sem_close, Handle
  <2>2. X \in Locals /\ X.pc = "c_read" /\ X.s = handle[p].s /\ X.m = handle[p].m
    <3>1. "c_read" \in Labels /\ 0 \in 0 .. SEMVMX /\ FALSE \in BOOLEAN
      BY SemAssumption DEF Labels, NamingCalls
    <3> QED
      BY <2>1, <3>1 DEF Frame, Locals
  <2>3. call' = [call EXCEPT ![p] = X]
    BY <1>3 DEF sem_close
  <2> HIDE DEF X
  <2> QED
    BY <1>1, <2>1, <2>2, <2>3, NamingStarts
<1>4. CASE sem_unlink(p)
  <2>1. "u_semget" \in Labels
    BY DEF Labels, NamingCalls
  <2>2. PICK X \in Locals : call' = [call EXCEPT ![p] = X] /\ X.pc = "u_semget"
    BY <1>4, <2>1, GotoLemma DEF sem_unlink
  <2> QED
    BY <1>1, <2>2, NamingStarts
<1> QED
  BY <1>2, <1>3, <1>4

\* Both lookups of a semaphore find what the key names.
LEMMA SemgetSerial ==
    ASSUME IInv, SerialInv, NEW p \in Procs, OpenSemget(p) \/ UnlinkSemget(p)
    PROVE  SerialInv'
<1>1. pc(p) \in {"o_semget", "o_reget", "u_semget"} /\ UNCHANGED core
  BY DEF OpenSemget, UnlinkSemget, core, ipc
<1>2. Alone(p) /\ Phase(call[p], p) /\ pc(p) # "c_rmshm"
  BY <1>1, InNaming DEF NamingCalls
<1>3. Rest /\ pc(p) # "o_reget"
  BY <1>1, <1>2 DEF Phase, AtRest, pc
<1>4. PICK l \in {"o_shmget", "u_shmget"} : NoteS(p, semKey, l)
  <2>1. call[p] \in Locals
    BY OneProcess
  <2> QED
    BY <1>1, <1>3, <2>1 DEF OpenSemget, UnlinkSemget, NoteS, pc, Locals
<1>5. semKey \in Nat \cup {NULL} /\ l \in Labels
  BY DEF IInv, Objects, Labels, NamingCalls
<1>6. PICK X \in Locals : call' = [call EXCEPT ![p] = X] /\ X.pc = l /\ X.s = semKey
  BY <1>4, <1>5, SetS
<1>7. Phase(X, p) /\ X.pc \in NamingCalls
  BY <1>3, <1>6 DEF Phase, AtRest, OnBoth, Fresh, NamingCalls
<1> QED
  BY <1>1, <1>2, <1>6, <1>7, CoreMove

\* Both lookups of a segment: there is one exactly when there is a semaphore.
LEMMA ShmgetSerial ==
    ASSUME IInv, SerialInv, NEW p \in Procs, OpenShmget(p) \/ UnlinkShmget(p)
    PROVE  SerialInv'
<1>1. pc(p) \in {"o_shmget", "o_reshm", "u_shmget"} /\ UNCHANGED core
  BY DEF OpenShmget, UnlinkShmget, core, ipc
<1>2. Alone(p) /\ Phase(call[p], p) /\ pc(p) # "c_rmshm"
  BY <1>1, InNaming DEF NamingCalls
<1>3. Rest /\ pc(p) # "o_reshm" /\ call[p].s = semKey
  BY <1>1, <1>2 DEF Phase, AtRest, pc
<1>4. CASE Return(p)
  BY <1>1, <1>2, <1>3, <1>4, ReturnMove
<1>5. ASSUME NEW l \in {"o_exist", "u_mark"}, NoteM(p, shmKey, l) PROVE SerialInv'
  <2>1. shmKey \in Nat \cup {NULL} /\ l \in Labels
    BY DEF IInv, Objects, Labels, NamingCalls
  <2>2. PICK X \in Locals : /\ call' = [call EXCEPT ![p] = X] /\ X.pc = l
                            /\ X.m = shmKey /\ Keeps(X, call[p], {"m"})
    BY <1>5, <2>1, SetM
  <2>3. X.s = semKey
    BY <1>3, <2>2 DEF Keeps
  <2>4. Phase(X, p) /\ X.pc \in NamingCalls
    BY <1>3, <2>2, <2>3 DEF Phase, AtRest, OnBoth, Fresh, NamingCalls
  <2> QED
    BY <1>1, <1>2, <2>2, <2>4, CoreMove
<1>6. CASE Goto(p, "o_creat") /\ (call[p].s = NULL \/ shmKey = NULL)
  <2>1. "o_creat" \in Labels
    BY DEF Labels, NamingCalls
  <2>2. PICK X \in Locals : call' = [call EXCEPT ![p] = X] /\ X.pc = "o_creat"
    BY <1>6, <2>1, GotoLemma
  <2>3. semKey = NULL
    BY <1>3, <1>6 DEF Rest
  <2>4. Phase(X, p) /\ X.pc \in NamingCalls
    BY <1>3, <2>2, <2>3 DEF Phase, AtRest, OnBoth, Fresh, NamingCalls
  <2> QED
    BY <1>1, <1>2, <2>2, <2>4, CoreMove
<1> QED
  BY <1>4, <1>5, <1>6 DEF OpenShmget, UnlinkShmget, NoteM

\* No caller ever finds that another has created the semaphore meanwhile.
LEMMA CreateSerial ==
    ASSUME IInv, SerialInv, NEW p \in Procs, OpenCreate(p)
    PROVE  SerialInv'
<1>1. pc(p) = "o_creat" /\ pc(p) # "c_rmshm" /\ pc(p) \in NamingCalls
  BY DEF OpenCreate, NamingCalls
<1>2. Alone(p) /\ Phase(call[p], p) /\ HandlesCurrent
  BY <1>1, InNaming
<1>3. semKey = NULL /\ Rest /\ shmKey = NULL
  BY <1>1, <1>2 DEF Phase, AtRest, Rest, pc
<1>4. NoHandles(Procs)
  BY <1>2, <1>3, NoSegment
<1>5. CASE Return(p) /\ UNCHANGED ipc
  <2>1. UNCHANGED core
    BY <1>5 DEF OpenCreate, core, ipc
  <2> QED
    BY <1>1, <1>2, <1>3, <1>5, <2>1, ReturnMove
<1>6. CASE /\ sem' = Append(sem, [live |-> TRUE, val |-> 0]) /\ semKey' = Len(sem')
           /\ NoteS(p, Len(sem'), "o_mkshm") /\ UNCHANGED <<shmKey, shm>>
  <2>1. Len(sem') \in Nat \cup {NULL} /\ "o_mkshm" \in Labels
    <3>1. Len(sem') = Len(sem) + 1 /\ Len(sem) \in Nat
      BY <1>6, OneProcess DEF Objects
    <3> QED
      BY <3>1 DEF Labels, NamingCalls
  <2>2. PICK X \in Locals : /\ call' = [call EXCEPT ![p] = X]
                            /\ X.pc = "o_mkshm" /\ X.s = Len(sem')
    BY <1>6, <2>1, SetS
  <2>3. HandlesCurrent'
    BY <1>4 DEF OpenCreate, HandlesCurrent, NoHandles
  <2>4. X.pc \in NamingCalls /\ Phase(X, p)'
    BY <1>3, <1>6, <2>2 DEF Phase, AtRest, OnBoth, Fresh, NamingCalls
  <2> QED
    BY <1>2, <2>2, <2>3, <2>4, SerialMove
<1> QED
  BY <1>3, <1>5, <1>6 DEF OpenCreate, NoteS

\* A fresh segment, or the semaphore removed again.
LEMMA MakeShmSerial ==
    ASSUME IInv, SerialInv, NEW p \in Procs, OpenMakeShm(p)
    PROVE  SerialInv'
<1>1. pc(p) = "o_mkshm" /\ pc(p) \in NamingCalls /\ handle' = handle
  BY DEF OpenMakeShm, NamingCalls
<1>2. Alone(p) /\ Phase(call[p], p) /\ HandlesCurrent
  BY <1>1, InNaming
<1>3. call[p].s = semKey /\ shmKey = NULL
  BY <1>1, <1>2 DEF Phase, pc
<1>4. NoHandles(Procs) /\ NoHandles(Procs)'
  BY <1>1, <1>2, <1>3, NoSegment DEF NoHandles
<1>5. HandlesCurrent'
  BY <1>4 DEF HandlesCurrent, NoHandles
<1> DEFINE g == [live |-> TRUE, magic |-> FALSE, unlinked |-> FALSE, ref_count |-> 0]
<1>6. CASE /\ shm' = Append(shm, g) /\ shmKey' = Len(shm')
           /\ NoteM(p, Len(shm'), "o_setval") /\ UNCHANGED <<semKey, sem>>
  <2>1. g \in Segment /\ ~g.unlinked
    BY DEF Segment
  <2> HIDE DEF g
  <2>2. Len(shm') = Len(shm) + 1 /\ Len(shm) \in Nat /\ shm'[Len(shm) + 1] = g
    BY <1>6, <2>1, OneProcess DEF Objects
  <2>3. Len(shm') \in Nat \cup {NULL} /\ "o_setval" \in Labels
    BY <2>2 DEF Labels, NamingCalls
  <2>4. PICK X \in Locals : /\ call' = [call EXCEPT ![p] = X] /\ X.pc = "o_setval"
                            /\ X.m = Len(shm') /\ Keeps(X, call[p], {"m"})
    BY <1>6, <2>3, SetM
  <2>5. X.s = semKey
    BY <1>3, <2>4 DEF Keeps
  <2>6. ~shm'[shmKey'].unlinked
    BY <1>6, <2>1, <2>2
  <2>7. X.pc \in NamingCalls /\ Phase(X, p)'
    BY <1>4, <1>6, <2>4, <2>5, <2>6 DEF Phase, AtRest, OnBoth, Fresh, NamingCalls
  <2> QED
    BY <1>2, <1>5, <2>4, <2>7, SerialMove
<1>7. CASE RemoveSem(call[p].s) /\ Return(p) /\ UNCHANGED <<shmKey, shm>>
  <2>1. semKey' = NULL /\ shmKey' = NULL
    BY <1>3, <1>7 DEF RemoveSem
  <2>2. Rest' /\ Idle.pc \notin NamingCalls
    BY <2>1, IdleType DEF Rest, Count, NamingCalls
  <2> QED
    BY <1>2, <1>5, <1>7, <2>2, IdleType, SerialMove DEF Return
<1> QED
  BY <1>6, <1>7 DEF OpenMakeShm, NoteM

\* Nobody has removed the semaphore before SETVAL.
LEMMA SetvalSerial ==
    ASSUME IInv, SerialInv, NEW p \in Procs, OpenSetval(p)
    PROVE  SerialInv'
<1>1. pc(p) = "o_setval" /\ pc(p) \in NamingCalls /\ pc(p) \in OnBoth /\ pc(p) # "c_rmshm"
  BY DEF OpenSetval, NamingCalls, OnBoth, Fresh
<1>2. Alone(p) /\ Phase(call[p], p)
  BY <1>1, InNaming
<1>3. SemLive(call[p].s)
  BY <1>1, <1>2, Both DEF SemLive
<1>4. UNCHANGED core /\ Goto(p, "o_magic")
  BY <1>3 DEF OpenSetval, core
<1>5. "o_magic" \in Labels
  BY DEF Labels, NamingCalls
<1>6. PICK X \in Locals : /\ call' = [call EXCEPT ![p] = X] /\ X.pc = "o_magic"
                          /\ Keeps(X, call[p], {})
  BY <1>4, <1>5, GotoLemma
<1>7. X.s = call[p].s /\ X.m = call[p].m
  BY <1>6 DEF Keeps
<1>8. X.pc \in NamingCalls /\ Phase(X, p)
  BY <1>1, <1>2, <1>6, <1>7 DEF Phase, AtRest, OnBoth, Fresh, NamingCalls, pc
<1> QED
  BY <1>1, <1>2, <1>4, <1>6, <1>8, CoreMove

\* One field of the segment of the key is written; the process goes on to l.
LEMMA WriteMove ==
    ASSUME IInv, SerialInv, NEW p \in Procs, pc(p) \in OnBoth, NEW l \in NamingCalls,
           Goto(p, l), UNCHANGED <<semKey, shmKey, handle, leaked>>
    PROVE  \E X \in Locals : /\ call' = [call EXCEPT ![p] = X] /\ X.pc = l
                             /\ X.s = semKey' /\ X.m = shmKey'
<1>1. pc(p) \in NamingCalls /\ l \in Labels
  BY DEF OnBoth, Fresh, NamingCalls, Labels
<1>2. Phase(call[p], p)
  BY <1>1, InNaming
<1>3. PICK X \in Locals : /\ call' = [call EXCEPT ![p] = X] /\ X.pc = l
                          /\ Keeps(X, call[p], {})
  BY <1>1, GotoLemma
<1>4. X.s = semKey' /\ X.m = shmKey'
  BY <1>2, <1>3, Both DEF Keeps
<1> QED
  BY <1>3, <1>4

\* Then only the new point's phase is to be shown.
LEMMA WritePhase ==
    ASSUME IInv, SerialInv, NEW p \in Procs, pc(p) \in OnBoth, NEW X \in Locals,
           call' = [call EXCEPT ![p] = X], X.pc \in NamingCalls,
           UNCHANGED <<semKey, shmKey, handle, leaked>>, Phase(X, p)'
    PROVE  SerialInv'
<1>1. pc(p) \in NamingCalls /\ pc(p) # "c_rmshm"
  BY DEF OnBoth, Fresh, NamingCalls
<1>2. Alone(p) /\ HandlesCurrent
  BY <1>1, InNaming
<1>3. HandlesCurrent'
  BY <1>1, <1>2, HandlesStay
<1> QED
  BY <1>2, <1>3, SerialMove

\* What a write of one field does to the segment.
LEMMA SegmentWritten ==
    ASSUME IInv, NEW i \in 1 .. Len(shm), NEW v
    PROVE  /\ PutMagic(i, v) =>
                shm'[i].unlinked = shm[i].unlinked /\ shm'[i].ref_count = shm[i].ref_count
           /\ PutUnlinked(i, v) =>
                shm'[i].unlinked = v /\ shm'[i].ref_count = shm[i].ref_count
           /\ PutCount(i, v) =>
                shm'[i].unlinked = shm[i].unlinked /\ shm'[i].ref_count = v
<1>1. shm \in Seq(Segment) /\ i \in DOMAIN shm /\ shm[i] \in Segment
  BY DEF IInv, Objects
<1>2. PutMagic(i, v) => shm'[i] = [shm[i] EXCEPT !.magic = v]
  BY <1>1 DEF PutMagic
<1>3. PutUnlinked(i, v) => shm'[i] = [shm[i] EXCEPT !.unlinked = v]
  BY <1>1 DEF PutUnlinked
<1>4. PutCount(i, v) => shm'[i] = [shm[i] EXCEPT !.ref_count = v]
  BY <1>1 DEF PutCount
<1> QED
  BY <1>1, <1>2, <1>3, <1>4 DEF Segment

\* The three assignments to the metadata of a new semaphore.
LEMMA MetadataSerial ==
    ASSUME IInv, SerialInv, NEW p \in Procs, OpenMagic(p) \/ OpenLinked(p) \/ OpenOne(p)
    PROVE  SerialInv'
<1>1. /\ pc(p) \in {"o_magic", "o_linked", "o_one"} /\ pc(p) \in OnBoth
      /\ pc(p) \in NamingCalls
  BY DEF OpenMagic, OpenLinked, OpenOne, NamingCalls, OnBoth, Fresh
<1>2. Phase(call[p], p) /\ HandlesCurrent
  BY <1>1, InNaming
<1>3. /\ call[p].m = shmKey /\ shmKey # NULL /\ shmKey \in 1 .. Len(shm)
      /\ CanAttach(shmKey)
  BY <1>1, <1>2, Both
<1>4. NoHandles(Procs) /\ ~shm[shmKey].unlinked
  BY <1>1, <1>2 DEF Phase, Fresh, pc
<1>5. UNCHANGED <<semKey, shmKey, handle, leaked>>
  BY <1>3 DEF OpenMagic, OpenLinked, OpenOne
<1>6. NoHandles(Procs)'
  BY <1>4, <1>5 DEF NoHandles
<1>7. CASE PutMagic(shmKey, TRUE) /\ Goto(p, "o_linked")
  <2>1. "o_linked" \in NamingCalls
    BY DEF NamingCalls
  <2>2. PICK X \in Locals : /\ call' = [call EXCEPT ![p] = X] /\ X.pc = "o_linked"
                            /\ X.s = semKey' /\ X.m = shmKey'
    BY <1>1, <1>5, <1>7, <2>1, WriteMove
  <2>3. ~shm'[shmKey'].unlinked
    BY <1>3, <1>4, <1>5, <1>7, SegmentWritten
  <2>4. Phase(X, p)'
    BY <1>6, <2>2, <2>3 DEF Phase, AtRest, OnBoth, Fresh
  <2> QED
    BY <1>1, <1>5, <2>1, <2>2, <2>4, WritePhase
<1>8. CASE OpenLinked(p)
  <2>1. "o_one" \in NamingCalls /\ Goto(p, "o_one") /\ PutUnlinked(shmKey, FALSE)
    BY <1>3, <1>8 DEF NamingCalls, OpenLinked, PutUnlinked
  <2>2. PICK X \in Locals : /\ call' = [call EXCEPT ![p] = X] /\ X.pc = "o_one"
                            /\ X.s = semKey' /\ X.m = shmKey'
    BY <1>1, <1>5, <2>1, WriteMove
  <2>3. ~shm'[shmKey'].unlinked
    BY <1>3, <1>5, <2>1, SegmentWritten
  <2>4. Phase(X, p)'
    BY <1>6, <2>2, <2>3 DEF Phase, AtRest, OnBoth, Fresh
  <2> QED
    BY <1>1, <1>5, <2>1, <2>2, <2>4, WritePhase
<1>9. CASE OpenOne(p)
  <2>1. "o_dup" \in NamingCalls /\ Goto(p, "o_dup") /\ PutCount(shmKey, 1)
    BY <1>3, <1>9 DEF NamingCalls, OpenOne, PutCount
  <2>2. PICK X \in Locals : /\ call' = [call EXCEPT ![p] = X] /\ X.pc = "o_dup"
                            /\ X.s = semKey' /\ X.m = shmKey'
    BY <1>1, <1>5, <2>1, WriteMove
  <2>3. ~shm'[shmKey'].unlinked /\ shm'[shmKey'].ref_count = 1
    BY <1>3, <1>4, <1>5, <2>1, SegmentWritten
  <2>4. Cardinality(Openers(shmKey)) = 0 /\ Openers(shmKey)' = Openers(shmKey)
    BY <1>2, <1>4, <1>5, ZeroOpeners DEF Openers
  <2>5. Cardinality(Openers(shmKey)') = 0
    BY <2>4
  <2>6. Count(1)'
    BY <1>5, <2>3, <2>5 DEF Count
  <2>7. Phase(X, p)'
    BY <2>2, <2>3, <2>6 DEF Phase, AtRest, OnBoth, Fresh
  <2> QED
    BY <1>1, <1>5, <2>1, <2>2, <2>7, WritePhase
<1> QED
  BY <1>3, <1>7, <1>8, <1>9 DEF OpenMagic, PutMagic

\* sem_open() of an existing semaphore, up to its increment.
LEMMA ExistingSerial ==
    ASSUME IInv, SerialInv, NEW p \in Procs, OpenExisting(p) \/ OpenUnlinked(p)
    PROVE  SerialInv'
<1>1. /\ pc(p) \in {"o_exist", "o_unlinked"} /\ pc(p) # "c_rmshm" /\ pc(p) \in OnBoth
      /\ pc(p) \in NamingCalls /\ UNCHANGED core
  BY DEF OpenExisting, OpenUnlinked, core, ipc, NamingCalls, OnBoth, Fresh
<1>2. Alone(p) /\ Phase(call[p], p)
  BY <1>1, InNaming
<1>3. Rest /\ call[p].s = semKey /\ call[p].m = shmKey
  BY <1>1, <1>2, Both DEF Phase, AtRest, pc
<1>4. CASE Return(p)
  BY <1>1, <1>2, <1>3, <1>4, ReturnMove
<1>5. ASSUME NEW l \in {"o_unlinked", "o_read"}, Goto(p, l),
             l = "o_read" => ~shm[call[p].m].unlinked
      PROVE  SerialInv'
  <2>1. l \in Labels
    BY DEF Labels, NamingCalls
  <2>2. PICK X \in Locals : /\ call' = [call EXCEPT ![p] = X] /\ X.pc = l
                            /\ Keeps(X, call[p], {})
    BY <1>5, <2>1, GotoLemma
  <2>3. X.s = semKey /\ X.m = shmKey
    BY <1>3, <2>2 DEF Keeps
  <2>4. X.pc \in NamingCalls /\ Phase(X, p)
    BY <1>3, <1>5, <2>2, <2>3 DEF Phase, AtRest, OnBoth, Fresh, NamingCalls
  <2> QED
    BY <1>1, <1>2, <2>2, <2>4, CoreMove
<1> QED
  BY <1>4, <1>5 DEF OpenExisting, OpenUnlinked

\* The two reads of the count.
LEMMA ReadSerial ==
    ASSUME IInv, SerialInv, NEW p \in Procs, OpenRead(p) \/ CloseRead(p)
    PROVE  SerialInv'
<1>1. /\ pc(p) \in {"o_read", "c_read"} /\ pc(p) # "c_rmshm" /\ pc(p) \in OnBoth
      /\ pc(p) \in NamingCalls
  BY DEF OpenRead, CloseRead, NamingCalls, OnBoth, Fresh
<1>2. Alone(p) /\ Phase(call[p], p)
  BY <1>1, InNaming
<1>3. /\ Rest /\ call[p].s = semKey /\ call[p].m = shmKey /\ shmKey # NULL
      /\ CanAttach(call[p].m)
  BY <1>1, <1>2, Both DEF Phase, AtRest, pc
<1>4. PICK l \in {"o_inc", "c_dec"} : /\ NoteTmp(p, shm[shmKey].ref_count, l)
                                      /\ l = "o_inc" => pc(p) = "o_read"
                                      /\ UNCHANGED core
  BY <1>3 DEF OpenRead, CloseRead, NoteTmp, core, ipc
<1>5. l \in Labels /\ shm[shmKey].ref_count \in Int
  BY <1>3, KeySegment DEF Labels, NamingCalls
<1>6. PICK X \in Locals : /\ call' = [call EXCEPT ![p] = X] /\ X.pc = l
                          /\ X.tmp = shm[shmKey].ref_count /\ Keeps(X, call[p], {"tmp"})
  BY <1>4, <1>5, SetTmp
<1>7. X.s = semKey /\ X.m = shmKey
  BY <1>3, <1>6 DEF Keeps
<1>8. l = "o_inc" => ~shm[shmKey].unlinked
  BY <1>2, <1>4 DEF Phase, pc
<1>9. X.pc \in NamingCalls /\ Phase(X, p)
  BY <1>3, <1>6, <1>7, <1>8 DEF Phase, AtRest, OnBoth, Fresh, NamingCalls
<1> QED
  BY <1>1, <1>2, <1>4, <1>6, <1>9, CoreMove

\* The two writes of the count: nobody has written it since it was read.
LEMMA WriteSerial ==
    ASSUME IInv, SerialInv, NEW p \in Procs, OpenInc(p) \/ CloseDec(p)
    PROVE  SerialInv'
<1>1. pc(p) \in {"o_inc", "c_dec"} /\ pc(p) \in OnBoth /\ pc(p) \in NamingCalls
  BY DEF OpenInc, CloseDec, NamingCalls, OnBoth, Fresh
<1>2. Phase(call[p], p)
  BY <1>1, InNaming
<1>3. /\ Count(0) /\ call[p].m = shmKey /\ shmKey # NULL /\ shmKey \in 1 .. Len(shm)
      /\ call[p].tmp = shm[shmKey].ref_count
  BY <1>1, <1>2, Both DEF Phase, AtRest, Rest, pc
<1>4. shm[shmKey].ref_count \in Int
  BY <1>3, KeySegment
<1>5. UNCHANGED <<semKey, shmKey, handle, leaked>>
  BY DEF OpenInc, CloseDec
<1>6. CASE OpenInc(p)
  <2>1. /\ "o_dup" \in NamingCalls /\ Goto(p, "o_dup") /\ pc(p) = "o_inc"
        /\ PutCount(shmKey, shm[shmKey].ref_count + 1)
    BY <1>3, <1>6 DEF NamingCalls, OpenInc, PutCount
  <2>2. PICK X \in Locals : /\ call' = [call EXCEPT ![p] = X] /\ X.pc = "o_dup"
                            /\ X.s = semKey' /\ X.m = shmKey'
    BY <1>1, <1>5, <2>1, WriteMove
  <2>3. /\ shm'[shmKey].ref_count = shm[shmKey].ref_count + 1
        /\ shm'[shmKey].unlinked = shm[shmKey].unlinked
    BY <1>3, <2>1, SegmentWritten
  <2>4. Count(0 + 1)'
    BY <1>3, <1>4, <1>5, <2>3, CountWritten
  <2>5. ~shm'[shmKey'].unlinked
    BY <1>2, <1>5, <2>1, <2>3 DEF Phase, pc
  <2>6. Phase(X, p)'
    BY <2>2, <2>4, <2>5 DEF Phase, AtRest, OnBoth, Fresh
  <2> QED
    BY <1>1, <1>5, <2>1, <2>2, <2>6, WritePhase
<1>7. CASE CloseDec(p)
  <2>1. /\ "c_test" \in NamingCalls /\ Goto(p, "c_test")
        /\ PutCount(shmKey, shm[shmKey].ref_count - 1)
    BY <1>3, <1>7 DEF NamingCalls, CloseDec, PutCount
  <2>2. PICK X \in Locals : /\ call' = [call EXCEPT ![p] = X] /\ X.pc = "c_test"
                            /\ X.s = semKey' /\ X.m = shmKey'
    BY <1>1, <1>5, <2>1, WriteMove
  <2>3. shm'[shmKey].ref_count = shm[shmKey].ref_count + (-1)
    BY <1>3, <1>4, <2>1, SegmentWritten
  <2>4. Count(0 + (-1))'
    BY <1>3, <1>4, <1>5, <2>3, CountWritten
  <2>5. Phase(X, p)'
    BY <2>2, <2>4 DEF Phase, AtRest, OnBoth, Fresh
  <2> QED
    BY <1>1, <1>5, <2>1, <2>2, <2>5, WritePhase
<1> QED
  BY <1>6, <1>7

\* A handle more or less: how the openers of the key's segment change.
LEMMA OpenersChange ==
    ASSUME IInv, NEW p \in Procs, NEW H, handle' = [handle EXCEPT ![p] = H],
           UNCHANGED shmKey
    PROVE  /\ handle[p] = NULL /\ H # NULL /\ H.m = shmKey =>
                Cardinality(Openers(shmKey)') = Cardinality(Openers(shmKey)) + 1
           /\ handle[p] # NULL /\ handle[p].m = shmKey /\ H = NULL =>
                Cardinality(Openers(shmKey)') = Cardinality(Openers(shmKey)) + (-1)
<1> DEFINE S == Openers(shmKey)
<1>1. DOMAIN handle = Procs
  BY DEF IInv, Processes
<1>2. handle'[p] = H /\ \A q \in Procs \ {p} : handle'[q] = handle[q]
  BY <1>1
<1>3. IsFiniteSet(S) /\ Cardinality(S) \in Nat
  BY OpenersCount
<1>4. CASE handle[p] = NULL /\ H # NULL /\ H.m = shmKey
  <2>1. S' = S \cup {p} /\ p \notin S
    BY <1>2, <1>4 DEF Openers
  <2> HIDE DEF S
  <2>2. Cardinality(S \cup {p}) = Cardinality(S) + 1
    BY <1>3, <2>1, FS_AddElement
  <2>3. Cardinality(S') = Cardinality(S) + 1
    BY <2>1, <2>2
  <2> QED
    BY <1>4, <2>3 DEF S
<1>5. CASE handle[p] # NULL /\ handle[p].m = shmKey /\ H = NULL
  <2>1. S' = S \ {p} /\ p \in S
    BY <1>2, <1>5 DEF Openers
  <2> HIDE DEF S
  <2>2. Cardinality(S \ {p}) = Cardinality(S) - 1
    BY <1>3, <2>1, FS_RemoveElement
  <2>3. Cardinality(S') = Cardinality(S) + (-1)
    BY <1>3, <2>1, <2>2
  <2> QED
    BY <1>5, <2>3 DEF S
<1> QED
  BY <1>4, <1>5

\* sem_open() has counted itself before it has a handle; if it fails now, the
\* count stays too high.
LEMMA DupSerial ==
    ASSUME IInv, SerialInv, NEW p \in Procs, OpenDup(p)
    PROVE  SerialInv'
<1>1. /\ pc(p) = "o_dup" /\ pc(p) \in NamingCalls /\ pc(p) \in OnBoth /\ pc(p) # "c_rmshm"
      /\ UNCHANGED <<semKey, shmKey, shm>> /\ Return(p)
  BY DEF OpenDup, NamingCalls, OnBoth, Fresh, ipc
<1>2. Alone(p) /\ Phase(call[p], p) /\ HandlesCurrent
  BY <1>1, InNaming
<1>3. /\ call[p].s = semKey /\ call[p].m = shmKey /\ semKey # NULL /\ shmKey # NULL
      /\ shm[shmKey].ref_count \in Int
  BY <1>1, <1>2, Both, KeySegment
<1>4. Count(1) /\ ~shm[shmKey].unlinked
  BY <1>1, <1>2 DEF Phase, pc
<1>5. handle[p] = NULL
  BY <1>1, OneProcess DEF Local, OpenPcs, CreatePcs, pc
<1>6. Idle.pc \notin NamingCalls
  BY IdleType DEF NamingCalls
<1>7. Count(0)' => Rest'
  BY <1>1, <1>3, <1>4 DEF Rest
<1> DEFINE H == [s |-> call[p].s, m |-> call[p].m, excl |-> call[p].excl]
<1>8. CASE handle' = [handle EXCEPT ![p] = H] /\ UNCHANGED leaked
  <2>1. H # NULL /\ H.s = semKey /\ H.m = shmKey
    <3>1. call[p] \in Locals /\ call[p].s \in Nat /\ call[p].m \in Nat
      BY <1>1, OneProcess, Known DEF NoSem, NoShm, LookPcs, pc
    <3>2. H \in Handle
      BY <3>1 DEF Handle, Locals
    <3> QED
      BY <1>3, <3>2, SemAssumption DEF Handle
  <2> HIDE DEF H
  <2>2. Cardinality(Openers(shmKey)') = Cardinality(Openers(shmKey)) + 1
    BY <1>1, <1>5, <1>8, <2>1, OpenersChange
  <2>3. Count(1 - 1)'
    BY <1>1, <1>3, <1>4, <1>8, <2>2, CountHandles
  <2>4. HandlesCurrent'
    <3>1. DOMAIN handle = Procs /\ DOMAIN call = Procs
      BY DEF IInv, Processes
    <3>2. \A q \in Procs \ {p} : handle'[q] = handle[q] /\ pc(q)' = pc(q)
      BY <1>1, <1>8, <3>1 DEF Return, pc
    <3> QED
      BY <1>1, <1>2, <1>8, <2>1, <3>1, <3>2 DEF HandlesCurrent
  <2>5. Rest'
    <3>1. 1 - 1 = 0
      OBVIOUS
    <3> QED
      BY <1>7, <2>3, <3>1
  <2> QED
    BY <1>1, <1>2, <1>6, <2>4, <2>5, IdleType, SerialMove DEF Return
<1>9. CASE leaked' = TRUE /\ UNCHANGED handle
  <2>1. HandlesCurrent'
    BY <1>1, <1>2, <1>9, HandlesStay DEF Return
  <2>2. Openers(shmKey)' = Openers(shmKey)
    BY <1>1, <1>9 DEF Openers
  <2>3. /\ Cardinality(Openers(shmKey)) \in Nat
        /\ shm[shmKey].ref_count >= Cardinality(Openers(shmKey)) + 1
    BY <1>3, <1>4, OpenersCount DEF Count
  <2>4. shm[shmKey].ref_count >= Cardinality(Openers(shmKey)) + 0
    BY <1>3, <2>3
  <2>5. Count(0)'
    BY <1>1, <1>9, <2>2, <2>4 DEF Count
  <2>6. Rest'
    BY <1>7, <2>5, Zenon
  <2> QED
    BY <1>1, <1>2, <1>6, <2>1, <2>6, IdleType, SerialMove DEF Return
<1> QED
  BY <1>8, <1>9 DEF OpenDup

\* The last handle of an unlinked semaphore goes with the objects; any other is
\* freed.
LEMMA TestSerial ==
    ASSUME IInv, SerialInv, NEW p \in Procs, CloseTest(p)
    PROVE  SerialInv'
<1>1. /\ pc(p) = "c_test" /\ pc(p) \in NamingCalls /\ pc(p) \in OnBoth /\ pc(p) # "c_rmshm"
      /\ UNCHANGED <<semKey, shmKey, shm, leaked>>
  BY DEF CloseTest, NamingCalls, OnBoth, Fresh, ipc
<1>2. Alone(p) /\ Phase(call[p], p) /\ HandlesCurrent
  BY <1>1, InNaming
<1>3. /\ call[p].s = semKey /\ call[p].m = shmKey /\ semKey # NULL /\ shmKey # NULL
      /\ shm[shmKey].ref_count \in Int
  BY <1>1, <1>2, Both, KeySegment
<1>4. Count(-1)
  BY <1>1, <1>2 DEF Phase, pc
<1>5. handle[p] # NULL /\ handle[p].m = shmKey
  BY <1>1, <1>3, OneProcess DEF Local, ClosePcs, pc
<1>6. CASE LastReference(call[p].m) /\ Goto(p, "c_rmsem") /\ UNCHANGED handle
  <2>1. Cardinality(Openers(shmKey)) <= 1
    <3>1. Cardinality(Openers(shmKey)) \in Nat
      BY OpenersCount
    <3>2. 0 >= Cardinality(Openers(shmKey)) + (-1)
      BY <1>3, <1>4, <1>6 DEF Count, LastReference
    <3> QED
      BY <3>1, <3>2
  <2>2. NoHandles(Procs \ {p})
    BY <1>2, <1>5, <2>1, OneOpener
  <2>3. "c_rmsem" \in Labels
    BY DEF Labels, NamingCalls
  <2>4. PICK X \in Locals : /\ call' = [call EXCEPT ![p] = X] /\ X.pc = "c_rmsem"
                            /\ Keeps(X, call[p], {})
    BY <1>6, <2>3, GotoLemma
  <2>5. X.s = semKey /\ X.m = shmKey
    BY <1>3, <2>4 DEF Keeps
  <2>6. X.pc \in NamingCalls /\ Phase(X, p)
    BY <2>2, <2>4, <2>5 DEF Phase, AtRest, OnBoth, Fresh, NamingCalls
  <2>7. UNCHANGED core
    BY <1>1, <1>6 DEF core
  <2> QED
    BY <1>1, <1>2, <2>4, <2>6, <2>7, CoreMove
<1>7. CASE ~LastReference(call[p].m) /\ Free(p) /\ Return(p)
  <2>1. Cardinality(Openers(shmKey)') = Cardinality(Openers(shmKey)) + (-1)
    BY <1>1, <1>5, <1>7, OpenersChange DEF Free
  <2>2. Count((-1) - (-1))'
    BY <1>1, <1>3, <1>4, <2>1, CountHandles
  <2>3. shm[shmKey].unlinked => shm[shmKey].ref_count # 0
    BY <1>3, <1>7 DEF LastReference
  <2>4. Rest'
    BY <1>1, <1>3, <2>2, <2>3 DEF Rest
  <2>5. HandlesCurrent'
    <3>1. DOMAIN handle = Procs /\ DOMAIN call = Procs
      BY DEF IInv, Processes
    <3>2. \A q \in Procs \ {p} : handle'[q] = handle[q] /\ pc(q)' = pc(q)
      BY <1>7, <3>1 DEF Return, Free, pc
    <3> QED
      BY <1>1, <1>2, <1>7, <3>1, <3>2 DEF HandlesCurrent, Free
  <2>6. Idle.pc \notin NamingCalls
    BY IdleType DEF NamingCalls
  <2> QED
    BY <1>2, <1>7, <2>4, <2>5, <2>6, IdleType, SerialMove DEF Return
<1> QED
  BY <1>6, <1>7 DEF CloseTest

\* IPC_RMID of the semaphore: no handle is left but the one being closed.
LEMMA RmSemSerial ==
    ASSUME IInv, SerialInv, NEW p \in Procs, RmSem(p)
    PROVE  SerialInv'
<1>1. /\ pc(p) \in {"c_rmsem", "u_rmsem"} /\ pc(p) \in NamingCalls /\ pc(p) \in OnBoth
      /\ UNCHANGED <<shmKey, shm, handle, leaked>> /\ RemoveSem(call[p].s)
  BY DEF RmSem, NamingCalls, OnBoth, Fresh
<1>2. Alone(p) /\ Phase(call[p], p) /\ HandlesCurrent
  BY <1>1, InNaming
<1>3. call[p].m = shmKey /\ semKey' = NULL
  BY <1>1, <1>2, Both DEF RemoveSem
<1>4. NoHandles(Procs \ {p}) /\ (pc(p) = "u_rmsem" => NoHandles(Procs))
  BY <1>1, <1>2 DEF Phase, pc, NoHandles
<1>5. PICK l \in {"c_rmshm", "u_rmshm"} : Goto(p, l) /\ (l = "u_rmshm" => pc(p) = "u_rmsem")
  <2>1. call[p] \in Locals
    BY OneProcess
  <2> QED
    BY <1>1, <2>1 DEF RmSem, Goto, pc, Locals
<1>6. l \in Labels
  BY DEF Labels, NamingCalls
<1>7. PICK X \in Locals : /\ call' = [call EXCEPT ![p] = X] /\ X.pc = l
                          /\ Keeps(X, call[p], {})
  BY <1>5, <1>6, GotoLemma
<1>8. X.m = shmKey'
  BY <1>1, <1>3, <1>7 DEF Keeps
<1>9. NoHandles(Procs \ {p})' /\ (l = "u_rmshm" => NoHandles(Procs)')
  BY <1>1, <1>4, <1>5 DEF NoHandles
<1>10. pc(p)' = l
  BY <1>7, OneProcess DEF pc, IInv, Processes
<1>11. HandlesCurrent'
  <2>1. \A q \in Procs \ {p} : handle'[q] = NULL
    BY <1>9 DEF NoHandles
  <2>2. handle'[p] # NULL => handle'[p].m = shmKey' /\ pc(p)' = "c_rmshm"
    BY <1>1, <1>2, <1>9, <1>10 DEF HandlesCurrent, NoHandles
  <2> QED
    BY <2>1, <2>2 DEF HandlesCurrent
<1>12. X.pc \in NamingCalls /\ Phase(X, p)'
  BY <1>3, <1>7, <1>8, <1>9 DEF Phase, AtRest, OnBoth, Fresh, NamingCalls
<1> QED
  BY <1>2, <1>7, <1>11, <1>12, SerialMove

\* IPC_RMID of the segment: nothing is left.
LEMMA RmShmSerial ==
    ASSUME IInv, SerialInv, NEW p \in Procs, RmShm(p)
    PROVE  SerialInv'
<1>1. /\ pc(p) \in {"c_rmshm", "u_rmshm"} /\ pc(p) \in NamingCalls
      /\ RemoveShm(call[p].m) /\ Return(p) /\ semKey' = semKey
  BY DEF RmShm, NamingCalls
<1>2. Alone(p) /\ Phase(call[p], p)
  BY <1>1, InNaming
<1>3. semKey' = NULL /\ shmKey' = NULL
  BY <1>1, <1>2 DEF Phase, pc, RemoveShm
<1>4. NoHandles(Procs)'
  <2>1. DOMAIN handle = Procs
    BY DEF IInv, Processes
  <2>2. CASE pc(p) = "c_rmshm"
    BY <1>2, <2>1, <2>2 DEF RmShm, Free, Phase, pc, NoHandles
  <2>3. CASE pc(p) = "u_rmshm"
    BY <1>2, <2>3 DEF RmShm, Phase, pc, NoHandles
  <2> QED
    BY <1>1, <2>2, <2>3
<1>5. HandlesCurrent'
  BY <1>4 DEF HandlesCurrent, NoHandles
<1>6. Rest' /\ Idle.pc \notin NamingCalls
  BY <1>3, IdleType DEF Rest, Count, NamingCalls
<1> QED
  BY <1>1, <1>2, <1>5, <1>6, IdleType, SerialMove DEF Return

\* sem_unlink() marks the metadata, and looks at the count it did not change.
LEMMA UnlinkSerial ==
    ASSUME IInv, SerialInv, NEW p \in Procs, UnlinkMark(p) \/ UnlinkTest(p)
    PROVE  SerialInv'
<1>1. /\ pc(p) \in {"u_mark", "u_test"} /\ pc(p) \in NamingCalls /\ pc(p) \in OnBoth
      /\ pc(p) # "c_rmshm" /\ UNCHANGED <<semKey, shmKey, handle, leaked>>
  BY DEF UnlinkMark, UnlinkTest, NamingCalls, OnBoth, Fresh, ipc
<1>2. Alone(p) /\ Phase(call[p], p) /\ HandlesCurrent
  BY <1>1, InNaming
<1>3. /\ call[p].s = semKey /\ call[p].m = shmKey /\ semKey # NULL /\ shmKey # NULL
      /\ shmKey \in 1 .. Len(shm) /\ shm[shmKey].ref_count \in Int
  BY <1>1, <1>2, Both, KeySegment
<1>4. Count(0)
  BY <1>1, <1>2 DEF Phase, AtRest, Rest, pc
<1>5. CASE PutUnlinked(shmKey, TRUE) /\ Goto(p, "u_test")
  <2>1. "u_test" \in NamingCalls
    BY DEF NamingCalls
  <2>2. PICK X \in Locals : /\ call' = [call EXCEPT ![p] = X] /\ X.pc = "u_test"
                            /\ X.s = semKey' /\ X.m = shmKey'
    BY <1>1, <1>5, <2>1, WriteMove
  <2>3. shm'[shmKey].ref_count = shm[shmKey].ref_count + 0
    <3>1. shm'[shmKey].ref_count = shm[shmKey].ref_count
      BY <1>3, <1>5, SegmentWritten, Zenon
    <3> QED
      BY <1>3, <3>1
  <2>4. Count(0 + 0)'
    BY <1>1, <1>3, <1>4, <2>3, CountWritten
  <2>5. Phase(X, p)'
    BY <2>2, <2>4 DEF Phase, AtRest, OnBoth, Fresh
  <2> QED
    BY <1>1, <2>1, <2>2, <2>5, WritePhase
<1>6. CASE Return(p) /\ UNCHANGED shm /\ Rest
  <2>1. UNCHANGED core
    BY <1>1, <1>6 DEF core
  <2> QED
    BY <1>1, <1>2, <1>6, <2>1, ReturnMove
<1>7. CASE Goto(p, "u_rmsem") /\ UNCHANGED shm /\ shm[shmKey].ref_count = 0
  <2>1. Cardinality(Openers(shmKey)) = 0
    <3>1. Cardinality(Openers(shmKey)) \in Nat
      BY OpenersCount
    <3>2. 0 >= Cardinality(Openers(shmKey)) + 0
      BY <1>3, <1>4, <1>7 DEF Count
    <3> QED
      BY <3>1, <3>2
  <2>2. NoHandles(Procs) /\ NoHandles(Procs)'
    BY <1>1, <1>2, <2>1, ZeroOpeners DEF NoHandles
  <2>3. "u_rmsem" \in NamingCalls
    BY DEF NamingCalls
  <2>4. PICK X \in Locals : /\ call' = [call EXCEPT ![p] = X] /\ X.pc = "u_rmsem"
                            /\ X.s = semKey' /\ X.m = shmKey'
    BY <1>1, <1>7, <2>3, WriteMove
  <2>5. Phase(X, p)'
    BY <2>2, <2>4 DEF Phase, AtRest, OnBoth, Fresh
  <2> QED
    BY <1>1, <2>3, <2>4, <2>5, WritePhase
<1>8. CASE UnlinkMark(p)
  <2>1. Rest
    BY <1>2, <1>8 DEF UnlinkMark, Phase, AtRest, pc
  <2> QED
    BY <1>3, <1>5, <1>6, <1>8, <2>1 DEF UnlinkMark, PutUnlinked
<1>9. CASE UnlinkTest(p)
  <2>1. shm[shmKey].ref_count # 0 => Rest
    BY <1>3, <1>4 DEF Rest
  <2> QED
    BY <1>3, <1>6, <1>7, <1>9, <2>1 DEF UnlinkTest, ipc
<1> QED
  BY <1>8, <1>9

\* Waits, posts and alarms touch neither the keys, the metadata nor the handles.
LEMMA OthersSerial ==
    ASSUME IInv, IInv', SerialInv, NEW p \in Procs,
           \/ WaitStep(p) \/ Alarm(p) \/ AlarmEarly(p)
           \/ sem_wait(p) \/ sem_trywait(p) \/ sem_timedwait(p) \/ sem_post(p)
    PROVE  SerialInv'
<1>1. UNCHANGED core /\ pc(p) \notin NamingCalls
  BY WaitSteps, AlarmSteps, WaitCalls DEF core
<1>2. call \in [Procs -> Locals] /\ call' \in [Procs -> Locals]
  BY DEF IInv, Processes
<1>3. \A q \in Procs \ {p} : call'[q] = call[q]
  BY <1>2 DEF WaitStep, WaitBlock, TimedTry, TimedBlock, TimedTaken, TimedEintr, Alarm,
              AlarmEarly, sem_wait, sem_trywait, sem_timedwait, sem_post, Start, Return, Goto
<1>4. call' = [call EXCEPT ![p] = call'[p]]
  BY <1>2, <1>3
<1>5. call'[p].pc \in WaitPcs \cup {"idle"}
  <2>1. call[p] \in Locals /\ call[p].pc \in Labels
    BY <1>2 DEF Locals
  <2>2. \A l, x : NoteAlarm(p, x, l) => call'[p].pc = l
    BY <1>2, <2>1 DEF NoteAlarm, Locals
  <2>3. \A l : Goto(p, l) => call'[p].pc = l
    BY <1>2, <2>1 DEF Goto, Locals
  <2>4. Return(p) => call'[p].pc = "idle"
    BY <1>2, IdleType DEF Return
  <2>5. CASE WaitStep(p)
    BY <2>2, <2>3, <2>4, <2>5 DEF WaitStep, WaitBlock, TimedTry, TimedBlock, TimedTaken,
                                  TimedEintr, NoteAlarm, WaitPcs
  <2>6. CASE Alarm(p)
    BY <2>2, <2>6 DEF Alarm, NoteAlarm, WaitPcs
  <2>7. CASE AlarmEarly(p)
    BY <1>2, <2>1, <2>7 DEF AlarmEarly, Locals, WaitPcs, pc
  <2>8. CASE sem_wait(p) \/ sem_timedwait(p)
    BY <1>2, <2>8 DEF sem_wait, sem_timedwait, Start, Frame, WaitPcs
  <2>9. CASE sem_trywait(p) \/ sem_post(p)
    BY <2>9 DEF sem_trywait, sem_post, pc
  <2> QED
    BY <2>5, <2>6, <2>7, <2>8, <2>9
<1>6. call'[p].pc \notin NamingCalls /\ call'[p] \in Locals
  BY <1>2, <1>5 DEF WaitPcs, NamingCalls
<1> QED
  BY <1>1, <1>4, <1>6, OtherMove
-----------------------------------------------------------------------------
(* The invariant of callers that do not overlap their naming calls.        *)

\* Init decides whether the callers overlap; the invariant is for those that do not.
Serialised == serial => SerialInv

\* It holds of the empty system.
LEMMA InitSerial == Init => Serialised
<1> SUFFICES ASSUME Init PROVE SerialInv
  BY DEF Serialised
<1>1. \A p \in Procs : handle[p] = NULL /\ pc(p) \notin NamingCalls
  BY IdleType DEF Init, pc, NamingCalls
<1>2. semKey = NULL /\ shmKey = NULL
  BY DEF Init
<1>3. Rest
  BY <1>2 DEF Rest, Count
<1> QED
  BY <1>1, <1>3 DEF SerialInv, HandlesCurrent

\* Every step keeps it.
LEMMA NextSerial ==
    ASSUME IInv, Serialised, [Next]_vars
    PROVE  Serialised'
<1>1. IInv'
  BY NextInv
<1>2. serial' = serial
  BY Zenon DEF Next, vars, Call, Step, Alarm, AlarmEarly
<1> SUFFICES ASSUME serial PROVE SerialInv'
  BY <1>2, Zenon DEF Serialised
<1>3. SerialInv
  BY DEF Serialised
<1>4. CASE UNCHANGED vars
  <2>1. UNCHANGED core /\ UNCHANGED call
    BY <1>4 DEF vars, core
  <2>2. Rest => Rest'
    BY <2>1, SameCore
  <2>3. \A p \in Procs : Phase(call[p], p) => Phase(call[p], p)'
    <3> TAKE p \in Procs
    <3>1. \A r : Phase(r, p) => Phase(r, p)'
      BY <2>1, SameCore
    <3> QED
      BY <2>1, <3>1
  <2> QED
    BY <1>3, <2>1, <2>2, <2>3 DEF SerialInv, HandlesCurrent, Quiet, pc, core
<1>5. ASSUME NEW p \in Procs, Call(p) PROVE SerialInv'
  <2>1. CASE sem_close(p) \/ sem_unlink(p)
    BY <1>3, <2>1, NamingCallsStart
  <2>2. CASE sem_wait(p) \/ sem_trywait(p) \/ sem_timedwait(p) \/ sem_post(p)
    BY <1>1, <1>3, <2>2, OthersSerial
  <2>3. ASSUME NEW x \in BOOLEAN, sem_open(p, FALSE, x, 0) PROVE SerialInv'
    <3>1. 0 \in 0 .. SEMVMX /\ FALSE \in BOOLEAN
      BY SemAssumption
    <3>2. \E creat, y \in BOOLEAN, v \in 0 .. SEMVMX : sem_open(p, creat, y, v)
      BY <2>3, <3>1, Zenon
    <3> QED
      BY <1>3, <3>2, NamingCallsStart
  <2>4. ASSUME NEW x \in BOOLEAN, NEW v \in Values, sem_open(p, TRUE, x, v) PROVE SerialInv'
    <3>1. v \in 0 .. SEMVMX /\ TRUE \in BOOLEAN
      BY SemAssumption
    <3>2. \E creat, y \in BOOLEAN, w \in 0 .. SEMVMX : sem_open(p, creat, y, w)
      BY <2>4, <3>1, Zenon
    <3> QED
      BY <1>3, <3>2, NamingCallsStart
  <2> QED
    BY <1>5, <2>1, <2>2, <2>3, <2>4 DEF Call
<1>6. ASSUME NEW p \in Procs, Step(p) PROVE SerialInv'
  <2>1. CASE OpenStep(p)
    BY <1>3, <2>1, SemgetSerial, ShmgetSerial, CreateSerial, MakeShmSerial, SetvalSerial,
       MetadataSerial, ExistingSerial, ReadSerial, WriteSerial, DupSerial DEF OpenStep
  <2>2. CASE CloseStep(p) \/ RemoveStep(p)
    BY <1>3, <2>2, ReadSerial, WriteSerial, TestSerial, RmSemSerial, RmShmSerial
       DEF CloseStep, RemoveStep
  <2>3. CASE UnlinkStep(p)
    BY <1>3, <2>3, SemgetSerial, ShmgetSerial, UnlinkSerial DEF UnlinkStep
  <2>4. CASE WaitStep(p)
    BY <1>1, <1>3, <2>4, OthersSerial
  <2> QED
    BY <1>6, <2>1, <2>2, <2>3, <2>4 DEF Step
<1>7. ASSUME NEW p \in Procs, Alarm(p) \/ AlarmEarly(p) PROVE SerialInv'
  BY <1>1, <1>3, <1>7, OthersSerial
<1> QED
  BY <1>4, <1>5, <1>6, <1>7 DEF Next

\* Both invariants hold of every behaviour.
LEMMA SerialInvariant == Spec => [](IInv /\ Serialised)
  BY InitInv, InitSerial, NextInv, NextSerial, PTL DEF Spec

\* When sem_open(), sem_close() and sem_unlink() do not overlap, no process loses
\* the semaphore or the metadata under a handle it holds, whatever the number of
\* processes, whatever the order of their calls, and even after a sem_open()
\* that left the count too high.
THEOREM HandlesStayValid == Spec => []OpenStaysValid
<1>1. IInv /\ Serialised => OpenStaysValid
  <2> SUFFICES ASSUME IInv, SerialInv, NEW p \in Procs, handle[p] # NULL,
                      pc(p) \notin NamingCalls
               PROVE  sem[handle[p].s].live /\ shm[handle[p].m].live
    BY DEF OpenStaysValid, Serialised
  <2>1. handle[p].m = shmKey /\ handle[p].s = semKey
    BY DEF SerialInv, HandlesCurrent, NamingCalls
  <2>2. handle[p].s \in 1 .. Len(sem) /\ handle[p].m \in 1 .. Len(shm)
    BY Known
  <2> QED
    BY <2>1, <2>2 DEF IInv, Objects, KeyLives
<1> QED
  BY <1>1, SerialInvariant, PTL

\* When the naming calls do not overlap and none failed late, the count between
\* calls is the number of handles, the key names both objects or none, and an
\* unlinked semaphore that is still there has a handle: the last close has
\* removed every other.
THEOREM LastCloseRemoves == Spec => []LastCloseFrees
<1>1. IInv /\ Serialised => LastCloseFrees
  <2> SUFFICES ASSUME IInv, SerialInv, Quiet, ~leaked
               PROVE  /\ RefCountCounts
                      /\ (semKey = NULL) = (shmKey = NULL)
                      /\ shmKey # NULL /\ shm[shmKey].unlinked => Openers(shmKey) # {}
    BY DEF LastCloseFrees, Serialised
  <2>1. Rest
    BY DEF SerialInv
  <2>2. shmKey # NULL => shm[shmKey].ref_count = Cardinality(Openers(shmKey))
    <3>1. Cardinality(Openers(shmKey)) \in Nat
      BY OpenersCount
    <3>2. shmKey # NULL => shm[shmKey].ref_count = Cardinality(Openers(shmKey)) + 0
      BY <2>1 DEF Rest, Count
    <3> QED
      BY <3>1, <3>2
  <2>3. RefCountCounts
    <3> SUFFICES ASSUME NEW i \in 1 .. Len(shm), shm[i].live
                 PROVE  shm[i].ref_count = Cardinality(Openers(i))
      BY DEF RefCountCounts
    <3>1. i = shmKey /\ i # NULL
      BY SemAssumption DEF IInv, Objects, KeyLives
    <3> QED
      BY <2>2, <3>1
  <2>4. (semKey = NULL) = (shmKey = NULL)
    BY <2>1 DEF Rest
  <2>5. shmKey # NULL /\ shm[shmKey].unlinked => Openers(shmKey) # {}
    BY <2>1, <2>2, FS_EmptySet DEF Rest
  <2> QED
    BY <2>3, <2>4, <2>5
<1> QED
  BY <1>1, SerialInvariant, PTL
=============================================================================
