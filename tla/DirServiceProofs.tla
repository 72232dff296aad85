-------------------------- MODULE DirServiceProofs --------------------------
(***************************************************************************)
(* Proofs about DirService.                                                *)
(*                                                                         *)
(* Exclusion is not inductive: what keeps it is that a semaphore's unit is *)
(* in its value or with one owner, where an init_dir that has created the  *)
(* semaphore and has yet to SETVAL it owns it too (OneUnit), and that      *)
(* under the calling convention all processes at or past the lock use the  *)
(* one semaphore the key names (Order).  On top of that, the entries stay  *)
(* whole because the segment is wiped before there is a semaphore to lock  *)
(* (KeysFit), and because the one process inside fills a free entry and    *)
(* sets in_use last (Filling).                                             *)
(***************************************************************************)
EXTENDS DirService, WellFoundedInduction, FiniteSetTheorems,
        SequenceTheorems, TLAPS

InitPcs   == {"i_shmget", "i_memset", "i_semget", "i_setval"}
RmPcs     == {"r_shmget", "r_semget", "r_rmshm", "r_rmsem"}
WritePcs  == {"name", "value", "use"}
InsidePcs == {"scan", "name", "value", "update", "use", "remove", "unlock"}
UserPcs   == InsidePcs \cup {"attach", "semget", "lock"}
Labels    == {"idle"} \cup InitPcs \cup RmPcs \cup UserPcs
Ops       == {"init_dir", "rm_dir", "get", "set", "delete"}

String    == [id : Nat, len : Nat]
Entry     == [name : String \cup {NULL, TORN}, value : Values \cup {NULL, TORN},
              in_use : BOOLEAN]
Segment   == [live : BOOLEAN, entries : [Slots -> Entry]]
Semaphore == [live : BOOLEAN, val : 0 .. 1]
Process   == [pc : Labels, op : Ops \cup {NULL}, name : Names \cup {NULL},
              value : Values \cup {NULL}, m : Nat \cup {NULL}, s : Nat \cup {NULL},
              i : Slots \cup {NULL}, undo : 0 .. 1]

\* The types of the variables.
Types ==
    /\ orderly \in BOOLEAN /\ torn \in BOOLEAN /\ half \in BOOLEAN
    /\ shm \in Seq(Segment) /\ sem \in Seq(Semaphore)
    /\ shmKey \in (1 .. Len(shm)) \cup {NULL}
    /\ semKey \in (1 .. Len(sem)) \cup {NULL}
    /\ pr \in [Procs -> Process]

\* What the locals of process r hold at each point of its call, with ms
\* segments and ss semaphores made so far.
Local(r, ms, ss) ==
    /\ r.pc \in InitPcs => r.op = "init_dir"
    /\ r.pc \in RmPcs   => /\ r.op = "rm_dir"
                           /\ r.m \in (1 .. ms) \cup {NULL}
                           /\ r.s \in (1 .. ss) \cup {NULL}
    /\ r.pc \in UserPcs => /\ r.op \in {"get", "set", "delete"}
                           /\ r.name \in Names
                           /\ r.op = "set" => r.value \in Values
    /\ r.pc \in WritePcs \cup {"update"}           => r.op = "set"
    /\ r.pc \in WritePcs \cup {"update", "remove"} => r.i \in Slots
    /\ r.pc \in InsidePcs \cup {"lock", "semget", "i_memset"} => r.m \in 1 .. ms
    /\ r.pc \in InsidePcs \cup {"lock", "i_setval"}           => r.s \in 1 .. ss
    /\ r.undo = IF r.pc \in InsidePcs THEN 1 ELSE 0

Locals == \A p \in Procs : Local(pr[p], Len(shm), Len(sem))

\* Process r owns semaphore r.s: it holds it, or it has made it and has yet to
\* give it its value.
Owns(r) == r.pc \in InsidePcs \cup {"i_setval"}

\* A semaphore's unit is in its value or with one owner.
OneUnit == \A p \in Procs : Owns(pr[p]) =>
              /\ sem[pr[p].s].val = 0
              /\ \A q \in Procs : Owns(pr[q]) /\ pr[q].s = pr[p].s => q = p

\* The calling convention: rm_dir runs alone, and one init_dir at a time.
Alone == \A p, q \in Procs : p # q /\ pc(p) # "idle" /\ pc(q) # "idle" =>
            /\ pr[p].op # "rm_dir"
            /\ pr[p].op = "init_dir" => pr[q].op # "init_dir"

\* Process r works on the objects the keys name.
Current(r, mk, sk) ==
    /\ r.pc \in InsidePcs \cup {"lock"}           => r.s = sk
    /\ r.pc \in InsidePcs \cup {"lock", "semget"} => r.m = mk
    /\ r.pc \in {"r_semget", "r_rmshm"}           => r.m = mk
    /\ r.pc \in {"r_rmshm", "r_rmsem"}            => r.s = sk

Order == orderly => /\ Alone
                    /\ \A p \in Procs : Current(pr[p], shmKey, semKey)

IInv == Types /\ Locals /\ OneUnit /\ Order
-----------------------------------------------------------------------------
\* Every nonempty set of naturals has a smallest element (< is well founded).
LEMMA Smallest == ASSUME NEW S \in SUBSET Nat, S # {}
                  PROVE  \E x \in S : \A y \in S : x <= y
<1> DEFINE R == OpToRel(<, Nat)
<1>1. IsWellFoundedOn(R, Nat)
  BY NatLessThanWellFounded
<1>2. \A x, y \in Nat : x < y => <<x, y>> \in R
  BY DEF OpToRel
<1> HIDE DEF R
<1>3. PICK x \in S : \A y \in S : ~(<<y, x>> \in R)
  BY <1>1, WFMin, Zenon
<1>4. \A y \in S : ~(y < x)
  BY <1>2, <1>3
<1> QED
  BY <1>4

\* The slot at which the loop of dir_set() or dir_get() stops is one it looked
\* for.
LEMMA FirstLemma == ASSUME NEW S \in SUBSET Slots, S # {} PROVE First(S) \in S
<1>1. S \in SUBSET Nat
  BY DirAssumption DEF Slots
<1>2. \E x \in S : \A y \in S : x <= y
  BY <1>1, Smallest
<1> QED
  BY <1>2 DEF First

\* A process that makes no call has typed locals.
LEMMA IdleLemma == Idle \in Process
  BY DEF Idle, Frame, Process, Labels

\* The ways a step writes its process's locals, and what they leave there.
SetM(p, x, l)    == pr' = [pr EXCEPT ![p].m = x, ![p].pc = l]
SetS(p, x, l)    == pr' = [pr EXCEPT ![p].s = x, ![p].pc = l]
SetI(p, x, l)    == pr' = [pr EXCEPT ![p].i = x, ![p].pc = l]
SetUndo(p, l)    == pr' = [pr EXCEPT ![p].pc = l, ![p].undo = 1]
Same(X, r, F)    == \A f \in {"op", "name", "value", "m", "s", "i", "undo"} \ F : X[f] = r[f]

\* A step that notes a segment (shmget()) leaves the other locals alone.
LEMMA SetMLemma ==
    ASSUME Types, NEW p \in Procs, NEW x \in Nat \cup {NULL}, NEW l \in Labels, SetM(p, x, l)
    PROVE  \E X \in Process : /\ pr' = [pr EXCEPT ![p] = X]
                              /\ X.pc = l /\ X.m = x
                              /\ Same(X, pr[p], {"m"})
<1> DEFINE t == [pr[p] EXCEPT !.m = x]
           X == [t EXCEPT !.pc = l]
<1>1. pr[p] \in Process
  BY DEF Types
<1>2. t \in Process
  BY <1>1 DEF Process
<1>3. X \in Process
  BY <1>2 DEF Process
<1>4. X.pc = l /\ X.m = x
  BY <1>1 DEF Process
<1>5. Same(X, pr[p], {"m"})
  BY <1>1 DEF Process, Same
<1>6. pr' = [pr EXCEPT ![p] = X]
  BY <1>1 DEF Types, Process, SetM
<1> QED
  BY <1>3, <1>4, <1>5, <1>6

\* A step that notes a semaphore (semget()) leaves the other locals alone.
LEMMA SetSLemma ==
    ASSUME Types, NEW p \in Procs, NEW x \in Nat \cup {NULL}, NEW l \in Labels, SetS(p, x, l)
    PROVE  \E X \in Process : /\ pr' = [pr EXCEPT ![p] = X]
                              /\ X.pc = l /\ X.s = x
                              /\ Same(X, pr[p], {"s"})
<1> DEFINE t == [pr[p] EXCEPT !.s = x]
           X == [t EXCEPT !.pc = l]
<1>1. pr[p] \in Process
  BY DEF Types
<1>2. t \in Process
  BY <1>1 DEF Process
<1>3. X \in Process
  BY <1>2 DEF Process
<1>4. X.pc = l /\ X.s = x
  BY <1>1 DEF Process
<1>5. Same(X, pr[p], {"s"})
  BY <1>1 DEF Process, Same
<1>6. pr' = [pr EXCEPT ![p] = X]
  BY <1>1 DEF Types, Process, SetS
<1> QED
  BY <1>3, <1>4, <1>5, <1>6

\* A step that notes a slot (the scan) leaves the other locals alone.
LEMMA SetILemma ==
    ASSUME Types, NEW p \in Procs, NEW x \in Slots, NEW l \in Labels, SetI(p, x, l)
    PROVE  \E X \in Process : /\ pr' = [pr EXCEPT ![p] = X]
                              /\ X.pc = l /\ X.i = x
                              /\ Same(X, pr[p], {"i"})
<1> DEFINE t == [pr[p] EXCEPT !.i = x]
           X == [t EXCEPT !.pc = l]
<1>1. pr[p] \in Process
  BY DEF Types
<1>2. t \in Process
  BY <1>1 DEF Process
<1>3. X \in Process
  BY <1>2 DEF Process
<1>4. X.pc = l /\ X.i = x
  BY <1>1 DEF Process
<1>5. Same(X, pr[p], {"i"})
  BY <1>1 DEF Process, Same
<1>6. pr' = [pr EXCEPT ![p] = X]
  BY <1>1 DEF Types, Process, SetI
<1> QED
  BY <1>3, <1>4, <1>5, <1>6

\* The lock, with its SEM_UNDO, leaves the other locals alone.
LEMMA SetUndoLemma ==
    ASSUME Types, NEW p \in Procs, NEW l \in Labels, SetUndo(p, l)
    PROVE  \E X \in Process : /\ pr' = [pr EXCEPT ![p] = X]
                              /\ X.pc = l /\ X.undo = 1
                              /\ Same(X, pr[p], {"undo"})
<1> DEFINE t == [pr[p] EXCEPT !.pc = l]
           X == [t EXCEPT !.undo = 1]
<1>1. pr[p] \in Process
  BY DEF Types
<1>2. t \in Process
  BY <1>1 DEF Process
<1>3. \A u \in Process : [u EXCEPT !.undo = 1] \in Process
  BY DEF Process
<1> HIDE DEF t
<1>7. X \in Process
  BY <1>2, <1>3
<1> USE DEF t
<1>4. X.pc = l /\ X.undo = 1
  BY <1>1 DEF Process
<1>5. Same(X, pr[p], {"undo"})
  BY <1>1 DEF Process, Same
<1>6. pr' = [pr EXCEPT ![p] = X]
  BY <1>1 DEF Types, Process, SetUndo
<1> QED
  BY <1>4, <1>5, <1>6, <1>7

\* A step that only goes on leaves the locals alone.
LEMMA GotoLemma ==
    ASSUME Types, NEW p \in Procs, NEW l \in Labels, Goto(p, l)
    PROVE  \E X \in Process : /\ pr' = [pr EXCEPT ![p] = X]
                              /\ X.pc = l
                              /\ Same(X, pr[p], {})
<1> DEFINE X == [pr[p] EXCEPT !.pc = l]
<1>1. pr[p] \in Process
  BY DEF Types
<1>3. X \in Process
  BY <1>1 DEF Process
<1>4. X.pc = l
  BY <1>1 DEF Process
<1>5. Same(X, pr[p], {})
  BY <1>1 DEF Process, Same
<1>6. pr' = [pr EXCEPT ![p] = X]
  BY <1>1 DEF Types, Process, Goto
<1> QED
  BY <1>3, <1>4, <1>5, <1>6

\* What is common to all steps of a process: the locals it is left with fit the
\* objects, the processes that ran together still may, and all still work on
\* what the keys name.
LEMMA StepLemma ==
    ASSUME IInv, NEW p \in Procs, NEW X \in Process,
           pr' = [pr EXCEPT ![p] = X],
           orderly' = orderly, half' \in BOOLEAN, torn' \in BOOLEAN,
           sem' \in Seq(Semaphore), Len(sem') >= Len(sem),
           semKey' \in (1 .. Len(sem')) \cup {NULL},
           shm' \in Seq(Segment), Len(shm') >= Len(shm),
           shmKey' \in (1 .. Len(shm')) \cup {NULL},
           Local(X, Len(shm'), Len(sem')),
           OneUnit',
           X.pc # "idle" => pc(p) # "idle" /\ X.op = pr[p].op,
           orderly => /\ Current(X, shmKey', semKey')
                      /\ \A q \in Procs \ {p} : Current(pr[q], shmKey', semKey')
    PROVE  IInv'
<1>1. pr' \in [Procs -> Process] /\ pr'[p] = X /\ \A q \in Procs \ {p} : pr'[q] = pr[q]
  BY DEF IInv, Types
<1>2. Types'
  BY <1>1 DEF IInv, Types
<1>3. Locals'
  <2>1. \A q \in Procs : Local(pr[q], Len(shm), Len(sem)) => Local(pr[q], Len(shm'), Len(sem'))
    BY <1>2 DEF IInv, Types, Local
  <2> QED
    BY <1>1, <2>1 DEF IInv, Locals
<1>4. Order'
  BY <1>1 DEF IInv, Order, Alone, pc
<1> QED
  BY <1>2, <1>3, <1>4 DEF IInv

\* A process goes on or ends, and nothing happens to the semaphores.
LEMMA MoveStep ==
    ASSUME IInv, NEW p \in Procs, NEW X \in Process,
           pr' = [pr EXCEPT ![p] = X],
           orderly' = orderly, half' \in BOOLEAN, torn' \in BOOLEAN,
           sem' = sem, semKey' = semKey,
           shm' \in Seq(Segment), Len(shm') >= Len(shm),
           shmKey' \in (1 .. Len(shm')) \cup {NULL},
           Local(X, Len(shm'), Len(sem)),
           Owns(X) => Owns(pr[p]) /\ X.s = pr[p].s,
           X.pc # "idle" => pc(p) # "idle" /\ X.op = pr[p].op,
           orderly => /\ Current(X, shmKey', semKey)
                      /\ \A q \in Procs \ {p} : Current(pr[q], shmKey', semKey)
    PROVE  IInv'
<1>1. pr'[p] = X /\ \A q \in Procs \ {p} : pr'[q] = pr[q]
  BY DEF IInv, Types
<1>2. OneUnit'
  BY <1>1 DEF IInv, OneUnit
<1>3. /\ sem' \in Seq(Semaphore) /\ Len(sem') >= Len(sem)
      /\ semKey' \in (1 .. Len(sem')) \cup {NULL}
  BY DEF IInv, Types
<1> QED
  BY <1>2, <1>3, StepLemma

\* A process goes on or ends, and nothing happens to the objects.
LEMMA GoStep ==
    ASSUME IInv, NEW p \in Procs, NEW X \in Process,
           pr' = [pr EXCEPT ![p] = X], UNCHANGED ipc,
           orderly' = orderly, half' \in BOOLEAN, torn' \in BOOLEAN,
           Local(X, Len(shm), Len(sem)),
           Owns(X) => Owns(pr[p]) /\ X.s = pr[p].s,
           X.pc # "idle" => pc(p) # "idle" /\ X.op = pr[p].op,
           orderly => Current(X, shmKey, semKey)
    PROVE  IInv'
<1>1. /\ shm' = shm /\ sem' = sem /\ shmKey' = shmKey /\ semKey' = semKey
      /\ shm' \in Seq(Segment) /\ Len(shm') >= Len(shm)
      /\ shmKey' \in (1 .. Len(shm')) \cup {NULL}
  BY DEF ipc, IInv, Types
<1>2. orderly => \A q \in Procs \ {p} : Current(pr[q], shmKey', semKey)
  BY <1>1 DEF IInv, Order
<1> QED
  BY <1>1, <1>2, MoveStep

\* A process ends, and nothing happens to the objects.
LEMMA ReturnStep ==
    ASSUME IInv, NEW p \in Procs, Return(p), UNCHANGED ipc,
           orderly' = orderly, half' \in BOOLEAN, torn' \in BOOLEAN
    PROVE  IInv'
<1>1. Idle \in Process /\ Local(Idle, Len(shm), Len(sem)) /\ ~Owns(Idle)
  BY IdleLemma DEF Local, Owns, Idle, Frame, InitPcs, RmPcs, UserPcs, WritePcs, InsidePcs
<1>2. Idle.pc = "idle" /\ Current(Idle, shmKey, semKey)
  BY DEF Current, Idle, Frame, InsidePcs
<1>3. pr' = [pr EXCEPT ![p] = Idle]
  BY DEF Return
<1> QED
  BY <1>1, <1>2, <1>3, GoStep

\* What the steps that leave the counts alone start from.
LEMMA CountLemma ==
    ASSUME IInv, NEW p \in Procs, UNCHANGED count
    PROVE  /\ orderly' = orderly /\ half' \in BOOLEAN /\ torn' \in BOOLEAN
           /\ Types /\ Local(pr[p], Len(shm), Len(sem))
           /\ orderly => Current(pr[p], shmKey, semKey)
  BY DEF count, IInv, Types, Locals, Order

\* What a step writes into a segment keeps the segments' types.
LEMMA SegmentLemma ==
    ASSUME Types, NEW m \in 1 .. Len(shm), NEW x \in Segment,
           shm' = [shm EXCEPT ![m] = x]
    PROVE  shm' \in Seq(Segment) /\ Len(shm') = Len(shm)
  BY ExceptSeq DEF Types

\* What a step does to one semaphore keeps the semaphores' types.
LEMMA SemaphoreLemma ==
    ASSUME Types, NEW i \in 1 .. Len(sem), NEW x \in Semaphore,
           sem' = [sem EXCEPT ![i] = x]
    PROVE  /\ sem' \in Seq(Semaphore) /\ Len(sem') = Len(sem) /\ sem'[i] = x
           /\ \A j \in (1 .. Len(sem)) \ {i} : sem'[j] = sem[j]
  BY ExceptSeq DEF Types

\* Only one semaphore changes, and afterwards its unit is in its value, or with
\* the process that takes the step alone.
LEMMA UnitLemma ==
    ASSUME IInv, NEW p \in Procs, NEW X \in Process, pr' = [pr EXCEPT ![p] = X],
           NEW i \in 1 .. Len(sem),
           \A j \in (1 .. Len(sem)) \ {i} : sem'[j] = sem[j],
           \A q \in Procs \ {p} : Owns(pr[q]) => pr[q].s # i,
           Owns(X) => X.s = i /\ sem'[i].val = 0
    PROVE  OneUnit'
<1>1. pr'[p] = X /\ \A q \in Procs \ {p} : pr'[q] = pr[q]
  BY DEF IInv, Types
<1>2. \A q \in Procs : Owns(pr[q]) => pr[q].s \in 1 .. Len(sem)
  BY DEF IInv, Locals, Local, Owns
<1> QED
  BY <1>1, <1>2 DEF IInv, OneUnit

USE DEF Labels, InitPcs, RmPcs, UserPcs, WritePcs, InsidePcs, pc

\* attach_directory() finds the segment the key names, or ends.
LEMMA AttachStep ==
    ASSUME IInv, NEW p \in Procs, attach_directory(p)
    PROVE  IInv'
<1>0. UNCHANGED ipc /\ UNCHANGED count /\ pc(p) = "attach"
  BY DEF attach_directory
<1>1. CASE Return(p)
  BY <1>0, <1>1, CountLemma, ReturnStep
<1>2. CASE shmKey # NULL /\ SetM(p, shmKey, "semget")
  <2>1. shmKey \in 1 .. Len(shm)
    BY <1>2 DEF IInv, Types
  <2>2. PICK X \in Process : /\ pr' = [pr EXCEPT ![p] = X]
                             /\ X.pc = "semget" /\ X.m = shmKey
                             /\ Same(X, pr[p], {"m"})
    BY <1>0, <1>2, <2>1, CountLemma, SetMLemma
  <2>3. /\ Local(X, Len(shm), Len(sem)) /\ ~Owns(X) /\ Current(X, shmKey, semKey)
        /\ X.op = pr[p].op
    BY <1>0, <2>1, <2>2, CountLemma DEF Local, Owns, Current, Same
  <2> QED
    BY <1>0, <2>2, <2>3, CountLemma, GoStep
<1> QED
  BY <1>1, <1>2 DEF attach_directory, SetM

\* ensure_semaphore() finds the semaphore the key names, or ends.
LEMMA EnsureStep ==
    ASSUME IInv, NEW p \in Procs, ensure_semaphore(p)
    PROVE  IInv'
<1>0. UNCHANGED ipc /\ UNCHANGED count /\ pc(p) = "semget"
  BY DEF ensure_semaphore
<1>1. CASE Return(p)
  BY <1>0, <1>1, CountLemma, ReturnStep
<1>2. CASE semKey # NULL /\ SetS(p, semKey, "lock")
  <2>1. semKey \in 1 .. Len(sem)
    BY <1>2 DEF IInv, Types
  <2>2. PICK X \in Process : /\ pr' = [pr EXCEPT ![p] = X]
                             /\ X.pc = "lock" /\ X.s = semKey
                             /\ Same(X, pr[p], {"s"})
    BY <1>0, <1>2, <2>1, CountLemma, SetSLemma
  <2>3. /\ Local(X, Len(shm), Len(sem)) /\ ~Owns(X) /\ X.op = pr[p].op
        /\ orderly => Current(X, shmKey, semKey)
    BY <1>0, <2>1, <2>2, CountLemma DEF Local, Owns, Current, Same
  <2> QED
    BY <1>0, <2>2, <2>3, CountLemma, GoStep
<1> QED
  BY <1>1, <1>2 DEF ensure_semaphore, SetS

\* dir_cleanup() looks both identifiers up.
LEMMA CleanupGetStep ==
    ASSUME IInv, NEW p \in Procs, CleanupShmget(p) \/ CleanupSemget(p)
    PROVE  IInv'
<1>0. UNCHANGED ipc /\ UNCHANGED count
  BY DEF CleanupShmget, CleanupSemget
<1>1. shmKey \in (1 .. Len(shm)) \cup {NULL} /\ semKey \in (1 .. Len(sem)) \cup {NULL}
  BY DEF IInv, Types
<1>2. CASE pc(p) = "r_shmget" /\ SetM(p, shmKey, "r_semget")
  <2>1. PICK X \in Process : /\ pr' = [pr EXCEPT ![p] = X]
                             /\ X.pc = "r_semget" /\ X.m = shmKey
                             /\ Same(X, pr[p], {"m"})
    BY <1>0, <1>1, <1>2, CountLemma, SetMLemma
  <2>2. /\ Local(X, Len(shm), Len(sem)) /\ ~Owns(X) /\ X.op = pr[p].op
        /\ Current(X, shmKey, semKey)
    BY <1>0, <1>1, <1>2, <2>1, CountLemma DEF Local, Owns, Current, Same
  <2> QED
    BY <1>0, <1>2, <2>1, <2>2, CountLemma, GoStep
<1>3. CASE pc(p) = "r_semget" /\ SetS(p, semKey, "r_rmshm")
  <2>1. PICK X \in Process : /\ pr' = [pr EXCEPT ![p] = X]
                             /\ X.pc = "r_rmshm" /\ X.s = semKey
                             /\ Same(X, pr[p], {"s"})
    BY <1>0, <1>1, <1>3, CountLemma, SetSLemma
  <2>2. /\ Local(X, Len(shm), Len(sem)) /\ ~Owns(X) /\ X.op = pr[p].op
        /\ orderly => Current(X, shmKey, semKey)
    BY <1>0, <1>1, <1>3, <2>1, CountLemma DEF Local, Owns, Current, Same
  <2> QED
    BY <1>0, <1>3, <2>1, <2>2, CountLemma, GoStep
<1> QED
  BY <1>2, <1>3 DEF CleanupShmget, CleanupSemget, SetM, SetS

\* The two loops change nothing but the slot and where the call goes on.
LEMMA ScanStep ==
    ASSUME IInv, NEW p \in Procs, Scan(p)
    PROVE  IInv'
<1>0. UNCHANGED ipc /\ UNCHANGED count /\ pc(p) = "scan"
  BY DEF Scan
<1>1. ASSUME NEW S \in SUBSET Slots, S # {}, NEW l \in InsidePcs, SetI(p, First(S), l),
             l \in {"name", "update"} => pr[p].op = "set",
             l \notin {"value", "use"}
      PROVE  IInv'
  <2>1. First(S) \in Slots
    BY <1>1, FirstLemma
  <2>2. PICK X \in Process : /\ pr' = [pr EXCEPT ![p] = X]
                             /\ X.pc = l /\ X.i = First(S)
                             /\ Same(X, pr[p], {"i"})
    BY <1>0, <1>1, <2>1, CountLemma, SetILemma
  <2>3. /\ Local(X, Len(shm), Len(sem)) /\ X.op = pr[p].op /\ X.s = pr[p].s
        /\ orderly => Current(X, shmKey, semKey)
    BY <1>0, <1>1, <2>1, <2>2, CountLemma DEF Local, Current, Same
  <2> QED
    BY <1>0, <2>2, <2>3, CountLemma, GoStep DEF Owns
<1>2. Hits(p) \in SUBSET Slots /\ FreeSlots(p) \in SUBSET Slots
  BY DEF Hits, FreeSlots
<1>3. CASE \E l \in {"update", "remove", "unlock"} :
               /\ Hits(p) # {} /\ SetI(p, First(Hits(p)), l)
               /\ l = "update" => pr[p].op = "set"
  BY <1>1, <1>2, <1>3
<1>4. CASE /\ pr[p].op = "set" /\ FreeSlots(p) # {} /\ SetI(p, First(FreeSlots(p)), "name")
  BY <1>1, <1>2, <1>4
<1>5. CASE Goto(p, "unlock")
  <2>1. PICK X \in Process : /\ pr' = [pr EXCEPT ![p] = X]
                             /\ X.pc = "unlock"
                             /\ Same(X, pr[p], {})
    BY <1>0, <1>5, CountLemma, GotoLemma
  <2>2. /\ Local(X, Len(shm), Len(sem)) /\ X.op = pr[p].op /\ X.s = pr[p].s
        /\ orderly => Current(X, shmKey, semKey)
    BY <1>0, <2>1, CountLemma DEF Local, Current, Same
  <2> QED
    BY <1>0, <2>1, <2>2, CountLemma, GoStep DEF Owns
<1>6. Scan(p) => \/ \E l \in {"update", "remove", "unlock"} :
                      /\ Hits(p) # {} /\ SetI(p, First(Hits(p)), l)
                      /\ l = "update" => pr[p].op = "set"
                 \/ pr[p].op = "set" /\ FreeSlots(p) # {} /\ SetI(p, First(FreeSlots(p)), "name")
                 \/ Goto(p, "unlock")
  BY DEF Scan, SetI
<1> QED
  BY <1>3, <1>4, <1>5, <1>6

\* A fresh segment is typed.
LEMMA ZerosLemma == [live |-> TRUE, entries |-> Zeros] \in Segment /\ Zeros \in [Slots -> Entry]
  BY DEF Zeros, Segment, Entry

\* A process is alone when it runs rm_dir, and nobody removes anything while
\* another command runs.
LEMMA AloneLemma ==
    ASSUME IInv, orderly, NEW p \in Procs, NEW q \in Procs, p # q, pc(p) # "idle"
    PROVE  /\ pc(q) \notin RmPcs
           /\ pc(p) \in RmPcs => pc(q) = "idle"
           /\ pc(p) \in InitPcs => pc(q) \notin InitPcs
  BY DEF IInv, Locals, Local, Order, Alone

\* dir_init() creates the segment, or finds that it exists.
LEMMA InitShmgetStep ==
    ASSUME IInv, NEW p \in Procs, InitShmget(p)
    PROVE  IInv'
<1>0. UNCHANGED count /\ pc(p) = "i_shmget"
  BY DEF InitShmget
<1>1. CASE Return(p) /\ UNCHANGED ipc
  BY <1>0, <1>1, CountLemma, ReturnStep
<1>2. CASE Goto(p, "i_semget") /\ UNCHANGED ipc
  <2>1. PICK X \in Process : /\ pr' = [pr EXCEPT ![p] = X]
                             /\ X.pc = "i_semget"
                             /\ Same(X, pr[p], {})
    BY <1>0, <1>2, CountLemma, GotoLemma
  <2>2. /\ Local(X, Len(shm), Len(sem)) /\ ~Owns(X) /\ X.op = pr[p].op
        /\ Current(X, shmKey, semKey)
    BY <1>0, <2>1, CountLemma DEF Local, Current, Same, Owns
  <2> QED
    BY <1>0, <1>2, <2>1, <2>2, CountLemma, GoStep
<1>3. CASE /\ shmKey = NULL
           /\ shm' = Append(shm, [live |-> TRUE, entries |-> Zeros])
           /\ shmKey' = Len(shm')
           /\ SetM(p, Len(shm'), "i_memset")
           /\ UNCHANGED <<semKey, sem>>
  <2>1. shm' \in Seq(Segment) /\ Len(shm') = Len(shm) + 1 /\ Len(shm) \in Nat
    BY <1>3, ZerosLemma, AppendProperties DEF IInv, Types
  <2>2. PICK X \in Process : /\ pr' = [pr EXCEPT ![p] = X]
                             /\ X.pc = "i_memset" /\ X.m = Len(shm')
                             /\ Same(X, pr[p], {"m"})
    BY <1>0, <1>3, <2>1, CountLemma, SetMLemma
  <2>3. /\ Local(X, Len(shm'), Len(sem)) /\ ~Owns(X) /\ X.op = pr[p].op
        /\ Current(X, shmKey', semKey)
    BY <1>0, <2>1, <2>2, CountLemma DEF Local, Current, Same, Owns
  <2>4. ASSUME orderly, NEW q \in Procs \ {p} PROVE Current(pr[q], shmKey', semKey)
    <3>1. pc(q) \notin RmPcs
      BY <1>0, <2>4, AloneLemma
    <3>2. pc(q) \notin InsidePcs \cup {"lock", "semget"}
      BY <1>3, <2>1, <2>4, DirAssumption DEF IInv, Order, Current, Locals, Local
    <3> QED
      BY <3>1, <3>2 DEF Current
  <2>5. shmKey' \in (1 .. Len(shm')) \cup {NULL} /\ Len(shm') >= Len(shm)
    BY <1>3, <2>1
  <2> QED
    BY <1>0, <1>3, <2>1, <2>2, <2>3, <2>4, <2>5, CountLemma, MoveStep
<1> QED
  BY <1>1, <1>2, <1>3 DEF InitShmget, SetM

\* dir_init() wipes the segment it created.
LEMMA InitMemsetStep ==
    ASSUME IInv, NEW p \in Procs, InitMemset(p)
    PROVE  IInv'
<1>0. UNCHANGED count /\ pc(p) = "i_memset" /\ UNCHANGED <<shmKey, semKey, sem>>
  BY DEF InitMemset
<1>1. CASE Return(p) /\ UNCHANGED shm
  BY <1>0, <1>1, CountLemma, ReturnStep DEF ipc
<1>2. CASE shm' = [shm EXCEPT ![pr[p].m].entries = Zeros] /\ Goto(p, "i_semget")
  <2>1. pr[p].m \in 1 .. Len(shm) /\ shm[pr[p].m] \in Segment
    BY <1>0 DEF IInv, Types, Locals, Local
  <2>2. [shm[pr[p].m] EXCEPT !.entries = Zeros] \in Segment
    BY <2>1, ZerosLemma DEF Segment
  <2>3. shm' \in Seq(Segment) /\ Len(shm') = Len(shm)
    BY <1>2, <2>1, <2>2, SegmentLemma DEF IInv
  <2>4. PICK X \in Process : /\ pr' = [pr EXCEPT ![p] = X]
                             /\ X.pc = "i_semget"
                             /\ Same(X, pr[p], {})
    BY <1>0, <1>2, CountLemma, GotoLemma
  <2>5. /\ Local(X, Len(shm'), Len(sem)) /\ ~Owns(X) /\ X.op = pr[p].op
        /\ Current(X, shmKey, semKey)
    BY <1>0, <2>4, CountLemma DEF Local, Current, Same, Owns
  <2>6. /\ orderly => \A q \in Procs \ {p} : Current(pr[q], shmKey', semKey)
        /\ shmKey' \in (1 .. Len(shm')) \cup {NULL} /\ Len(shm') >= Len(shm)
    BY <1>0, <2>3 DEF IInv, Types, Order
  <2> QED
    BY <1>0, <2>3, <2>4, <2>5, <2>6, CountLemma, MoveStep
<1> QED
  BY <1>1, <1>2 DEF InitMemset

\* dir_cleanup() removes the segment: nobody else runs who could use it.
LEMMA CleanupShmStep ==
    ASSUME IInv, NEW p \in Procs, CleanupShm(p)
    PROVE  IInv'
<1>0. UNCHANGED count /\ pc(p) = "r_rmshm" /\ UNCHANGED <<semKey, sem>> /\ Goto(p, "r_rmsem")
  BY DEF CleanupShm
<1>1. PICK X \in Process : /\ pr' = [pr EXCEPT ![p] = X]
                           /\ X.pc = "r_rmsem"
                           /\ Same(X, pr[p], {})
  BY <1>0, CountLemma, GotoLemma
<1>2. /\ shm' \in Seq(Segment) /\ Len(shm') = Len(shm)
      /\ shmKey' \in (1 .. Len(shm')) \cup {NULL}
  <2>1. CASE pr[p].m = NULL
    BY <2>1 DEF CleanupShm, IInv, Types
  <2>2. CASE pr[p].m # NULL
    <3>1. pr[p].m \in 1 .. Len(shm) /\ shm[pr[p].m] \in Segment
      BY <1>0, <2>2 DEF IInv, Types, Locals, Local
    <3>2. [shm[pr[p].m] EXCEPT !.live = FALSE] \in Segment
      BY <3>1 DEF Segment
    <3>3. shm' \in Seq(Segment) /\ Len(shm') = Len(shm)
      BY <2>2, <3>1, <3>2, SegmentLemma DEF IInv, CleanupShm
    <3> QED
      BY <2>2, <3>3 DEF CleanupShm, IInv, Types
  <2> QED
    BY <2>1, <2>2
<1>3. /\ Local(X, Len(shm'), Len(sem)) /\ ~Owns(X) /\ X.op = pr[p].op
      /\ orderly => Current(X, shmKey', semKey)
  BY <1>0, <1>1, <1>2, CountLemma DEF Local, Current, Same, Owns
<1>4. ASSUME orderly, NEW q \in Procs \ {p} PROVE Current(pr[q], shmKey', semKey)
  <2>1. pc(q) = "idle"
    BY <1>0, <1>4, AloneLemma
  <2> QED
    BY <2>1 DEF Current
<1>5. Len(shm') >= Len(shm)
  BY <1>2 DEF IInv, Types
<1> QED
  BY <1>0, <1>1, <1>2, <1>3, <1>4, <1>5, CountLemma, MoveStep

\* What the end of a command asks of StepLemma.
LEMMA EndStep ==
    ASSUME IInv, NEW p \in Procs, Return(p),
           orderly' = orderly, half' \in BOOLEAN, torn' \in BOOLEAN,
           sem' \in Seq(Semaphore), Len(sem') = Len(sem),
           semKey' \in (1 .. Len(sem')) \cup {NULL},
           shm' \in Seq(Segment), Len(shm') = Len(shm), shmKey' = shmKey,
           OneUnit',
           orderly => \A q \in Procs \ {p} : Current(pr[q], shmKey, semKey')
    PROVE  IInv'
<1>1. Idle \in Process /\ Local(Idle, Len(shm'), Len(sem'))
  BY IdleLemma DEF Local, Idle, Frame
<1>2. Idle.pc = "idle" /\ Current(Idle, shmKey', semKey')
  BY DEF Current, Idle, Frame
<1>3. pr' = [pr EXCEPT ![p] = Idle]
  BY DEF Return
<1>4. shmKey' \in (1 .. Len(shm')) \cup {NULL} /\ Len(shm') >= Len(shm) /\ Len(sem') >= Len(sem)
  BY DEF IInv, Types
<1> QED
  BY <1>1, <1>2, <1>3, <1>4, StepLemma

\* dir_cleanup() removes the semaphore: nobody else runs who could use it.
LEMMA CleanupSemStep ==
    ASSUME IInv, NEW p \in Procs, CleanupSem(p)
    PROVE  IInv'
<1>0. UNCHANGED count /\ pc(p) = "r_rmsem" /\ UNCHANGED <<shmKey, shm>> /\ Return(p)
  BY DEF CleanupSem
<1>1. /\ sem' \in Seq(Semaphore) /\ Len(sem') = Len(sem)
      /\ \A i \in 1 .. Len(sem) : sem'[i].val = sem[i].val
      /\ semKey' \in (1 .. Len(sem')) \cup {NULL}
  <2>1. CASE pr[p].s = NULL
    BY <2>1 DEF CleanupSem, IInv, Types
  <2>2. CASE pr[p].s # NULL
    <3>1. pr[p].s \in 1 .. Len(sem) /\ sem[pr[p].s] \in Semaphore
      BY <1>0, <2>2 DEF IInv, Types, Locals, Local
    <3>2. /\ [sem[pr[p].s] EXCEPT !.live = FALSE] \in Semaphore
          /\ [sem[pr[p].s] EXCEPT !.live = FALSE].val = sem[pr[p].s].val
      BY <3>1 DEF Semaphore
    <3>3. /\ sem' \in Seq(Semaphore) /\ Len(sem') = Len(sem)
          /\ sem'[pr[p].s] = [sem[pr[p].s] EXCEPT !.live = FALSE]
          /\ \A j \in (1 .. Len(sem)) \ {pr[p].s} : sem'[j] = sem[j]
      BY <2>2, <3>1, <3>2, SemaphoreLemma DEF IInv, CleanupSem
    <3>4. \A i \in 1 .. Len(sem) : sem'[i].val = sem[i].val
      BY <3>2, <3>3
    <3> QED
      BY <2>2, <3>3, <3>4 DEF CleanupSem, IInv, Types
  <2> QED
    BY <2>1, <2>2
<1>2. OneUnit'
  <2>1. ~Owns(pr'[p]) /\ \A q \in Procs \ {p} : pr'[q] = pr[q]
    BY <1>0 DEF Return, IInv, Types, Owns, Idle, Frame
  <2>2. \A q \in Procs : Owns(pr[q]) => pr[q].s \in 1 .. Len(sem)
    BY DEF IInv, Locals, Local, Owns
  <2> QED
    BY <1>1, <2>1, <2>2 DEF IInv, OneUnit
<1>3. ASSUME orderly, NEW q \in Procs \ {p} PROVE Current(pr[q], shmKey, semKey')
  <2>1. pc(q) = "idle"
    BY <1>0, <1>3, AloneLemma
  <2> QED
    BY <2>1 DEF Current
<1>4. shm' \in Seq(Segment) /\ Len(shm') = Len(shm)
  BY <1>0 DEF IInv, Types
<1> QED
  BY <1>0, <1>1, <1>2, <1>3, <1>4, CountLemma, EndStep

\* dir_init() creates the semaphore, with value 0, and owns it until SETVAL.
LEMMA InitSemgetStep ==
    ASSUME IInv, NEW p \in Procs, InitSemget(p)
    PROVE  IInv'
<1>0. UNCHANGED count /\ pc(p) = "i_semget"
  BY DEF InitSemget
<1>1. CASE Return(p) /\ UNCHANGED ipc
  BY <1>0, <1>1, CountLemma, ReturnStep
<1>2. CASE /\ semKey = NULL
           /\ sem' = Append(sem, [live |-> TRUE, val |-> 0])
           /\ semKey' = Len(sem')
           /\ SetS(p, Len(sem'), "i_setval")
           /\ UNCHANGED <<shmKey, shm>>
  <2>1. [live |-> TRUE, val |-> 0] \in Semaphore
    BY DEF Semaphore
  <2>2. /\ sem' \in Seq(Semaphore) /\ Len(sem') = Len(sem) + 1 /\ Len(sem) \in Nat
        /\ \A i \in 1 .. Len(sem) : sem'[i] = sem[i]
        /\ sem'[Len(sem')] = [live |-> TRUE, val |-> 0]
    BY <1>2, <2>1, AppendProperties DEF IInv, Types
  <2>3. PICK X \in Process : /\ pr' = [pr EXCEPT ![p] = X]
                             /\ X.pc = "i_setval" /\ X.s = Len(sem')
                             /\ Same(X, pr[p], {"s"})
    BY <1>0, <1>2, <2>2, CountLemma, SetSLemma
  <2>4. /\ Local(X, Len(shm), Len(sem')) /\ X.op = pr[p].op
        /\ Current(X, shmKey, semKey')
    BY <1>0, <2>2, <2>3, CountLemma DEF Local, Current, Same
  <2>5. ASSUME orderly, NEW q \in Procs \ {p} PROVE Current(pr[q], shmKey, semKey')
    <3>1. pc(q) \notin RmPcs
      BY <1>0, <2>5, AloneLemma
    <3>2. pc(q) \notin InsidePcs \cup {"lock"}
      BY <1>2, <2>2, <2>5, DirAssumption DEF IInv, Order, Current, Locals, Local
    <3> QED
      BY <2>5, <3>1, <3>2 DEF Current, IInv, Order
  <2>6. OneUnit'
    <3>1. pr'[p] = X /\ \A q \in Procs \ {p} : pr'[q] = pr[q]
      BY <2>3 DEF IInv, Types
    <3>2. \A q \in Procs : Owns(pr[q]) => pr[q].s \in 1 .. Len(sem)
      BY DEF IInv, Locals, Local, Owns
    <3> QED
      BY <2>2, <2>3, <3>1, <3>2 DEF IInv, OneUnit
  <2>7. /\ semKey' \in (1 .. Len(sem')) \cup {NULL} /\ Len(sem') >= Len(sem)
        /\ shmKey' \in (1 .. Len(shm')) \cup {NULL} /\ Len(shm') >= Len(shm)
        /\ shm' \in Seq(Segment) /\ shmKey' = shmKey /\ shm' = shm
    BY <1>2, <2>2 DEF IInv, Types
  <2> QED
    BY <1>0, <2>2, <2>3, <2>4, <2>5, <2>6, <2>7, CountLemma, StepLemma
<1> QED
  BY <1>1, <1>2 DEF InitSemget, SetS

\* The owner of a semaphore ends, and its unit goes back into the value or is
\* lost.
LEMMA OwnerEnds ==
    ASSUME IInv, NEW p \in Procs, Return(p), Owns(pr[p]),
           orderly' = orderly, half' \in BOOLEAN, torn' \in BOOLEAN,
           UNCHANGED <<shmKey, semKey>>, shm' \in Seq(Segment), Len(shm') = Len(shm),
           \/ sem' = sem
           \/ sem' = [sem EXCEPT ![pr[p].s].val = 1]
    PROVE  IInv'
<1>1. pr[p].s \in 1 .. Len(sem) /\ sem[pr[p].s] \in Semaphore
  BY DEF IInv, Types, Locals, Local, Owns
<1>2. [sem[pr[p].s] EXCEPT !.val = 1] \in Semaphore
  BY <1>1 DEF Semaphore
<1>3. /\ sem' \in Seq(Semaphore) /\ Len(sem') = Len(sem)
      /\ \A j \in (1 .. Len(sem)) \ {pr[p].s} : sem'[j] = sem[j]
  <2>1. CASE sem' = sem
    BY <2>1 DEF IInv, Types
  <2>2. CASE sem' = [sem EXCEPT ![pr[p].s].val = 1]
    BY <1>1, <1>2, <2>2, SemaphoreLemma DEF IInv
  <2> QED
    BY <2>1, <2>2
<1>4. OneUnit'
  <2>1. ~Owns(Idle) /\ Idle \in Process /\ pr' = [pr EXCEPT ![p] = Idle]
    BY IdleLemma DEF Owns, Idle, Frame, Return
  <2>2. \A q \in Procs \ {p} : Owns(pr[q]) => pr[q].s # pr[p].s
    BY DEF IInv, OneUnit
  <2> QED
    BY <1>1, <1>3, <2>1, <2>2, UnitLemma
<1>5. /\ semKey' \in (1 .. Len(sem')) \cup {NULL}
      /\ orderly => \A q \in Procs \ {p} : Current(pr[q], shmKey, semKey')
  BY <1>3 DEF IInv, Types, Order
<1> QED
  BY <1>3, <1>4, <1>5, EndStep

\* SETVAL gives the semaphore its unit, which only its creator could.
LEMMA InitSetvalStep ==
    ASSUME IInv, NEW p \in Procs, InitSetval(p)
    PROVE  IInv'
<1>1. UNCHANGED count /\ Return(p) /\ Owns(pr[p]) /\ UNCHANGED <<shmKey, semKey, shm>>
  BY DEF InitSetval, Owns
<1>2. shm' \in Seq(Segment) /\ Len(shm') = Len(shm)
  BY <1>1 DEF IInv, Types
<1>3. sem' = sem \/ sem' = [sem EXCEPT ![pr[p].s].val = 1]
  BY DEF InitSetval
<1> QED
  BY <1>1, <1>2, <1>3, CountLemma, OwnerEnds

\* The unlock gives the unit back.
LEMMA UnlockStep ==
    ASSUME IInv, NEW p \in Procs, Unlock(p)
    PROVE  IInv'
<1>1. UNCHANGED count /\ Return(p) /\ Owns(pr[p]) /\ UNCHANGED <<shmKey, semKey, shm>>
  BY DEF Unlock, Owns
<1>2. shm' \in Seq(Segment) /\ Len(shm') = Len(shm)
  BY <1>1 DEF IInv, Types
<1>3. sem[pr[p].s].val + 1 = 1
  BY <1>1 DEF IInv, OneUnit
<1>4. sem' = sem \/ sem' = [sem EXCEPT ![pr[p].s].val = 1]
  BY <1>3 DEF Unlock
<1> QED
  BY <1>1, <1>2, <1>4, CountLemma, OwnerEnds

\* The lock takes the unit: nobody owned the semaphore while its value was 1.
LEMMA LockStep ==
    ASSUME IInv, NEW p \in Procs, Lock(p)
    PROVE  IInv'
<1>0. UNCHANGED count /\ pc(p) = "lock" /\ UNCHANGED <<shmKey, semKey, shm>>
  BY DEF Lock
<1>1. CASE Return(p) /\ UNCHANGED sem
  BY <1>0, <1>1, CountLemma, ReturnStep DEF ipc
<1>2. CASE /\ sem[pr[p].s].val > 0
           /\ sem' = [sem EXCEPT ![pr[p].s].val = @ - 1]
           /\ SetUndo(p, "scan")
  <2>1. pr[p].s \in 1 .. Len(sem) /\ sem[pr[p].s] \in Semaphore
    BY <1>0 DEF IInv, Types, Locals, Local
  <2>2. /\ [sem[pr[p].s] EXCEPT !.val = @ - 1] \in Semaphore
        /\ [sem[pr[p].s] EXCEPT !.val = @ - 1].val = 0
    BY <1>2, <2>1 DEF Semaphore
  <2>3. /\ sem' \in Seq(Semaphore) /\ Len(sem') = Len(sem)
        /\ sem'[pr[p].s] = [sem[pr[p].s] EXCEPT !.val = @ - 1]
        /\ \A j \in (1 .. Len(sem)) \ {pr[p].s} : sem'[j] = sem[j]
    BY <1>2, <2>1, <2>2, SemaphoreLemma DEF IInv
  <2>4. PICK X \in Process : /\ pr' = [pr EXCEPT ![p] = X]
                             /\ X.pc = "scan" /\ X.undo = 1
                             /\ Same(X, pr[p], {"undo"})
    BY <1>0, <1>2, CountLemma, SetUndoLemma
  <2>5. /\ Local(X, Len(shm'), Len(sem')) /\ X.op = pr[p].op /\ X.s = pr[p].s
        /\ orderly => Current(X, shmKey', semKey')
    BY <1>0, <2>3, <2>4, CountLemma DEF Local, Current, Same
  <2>6. OneUnit'
    <3>1. \A q \in Procs \ {p} : Owns(pr[q]) => pr[q].s # pr[p].s
      BY <1>2 DEF IInv, OneUnit
    <3>2. X.s = pr[p].s /\ sem'[pr[p].s].val = 0
      BY <2>2, <2>3, <2>5
    <3>3. \A j \in (1 .. Len(sem)) \ {pr[p].s} : sem'[j] = sem[j]
      BY <2>3
    <3>5. pr'[p] = X /\ \A q \in Procs \ {p} : pr'[q] = pr[q]
      BY <2>4 DEF IInv, Types
    <3>6. \A q \in Procs : Owns(pr[q]) => pr[q].s \in 1 .. Len(sem)
      BY DEF IInv, Locals, Local, Owns
    <3> QED
      BY <3>1, <3>2, <3>3, <3>5, <3>6 DEF IInv, OneUnit
  <2>7. /\ semKey' \in (1 .. Len(sem')) \cup {NULL} /\ Len(sem') >= Len(sem)
        /\ shmKey' \in (1 .. Len(shm')) \cup {NULL} /\ Len(shm') >= Len(shm)
        /\ shm' \in Seq(Segment)
        /\ orderly => \A q \in Procs \ {p} : Current(pr[q], shmKey', semKey')
    BY <1>0, <2>3 DEF IInv, Types, Order
  <2> QED
    BY <1>0, <2>3, <2>4, <2>5, <2>6, <2>7, CountLemma, StepLemma
<1> QED
  BY <1>1, <1>2 DEF Lock, TakeLock, SetUndo

\* The bytes a process writes into its entry, one field at a time.
LEMMA WriteLemma ==
    ASSUME Types, NEW p \in Procs, pr[p].m \in 1 .. Len(shm), pr[p].i \in Slots,
           \/ \E x \in String \cup {TORN} : Write(p, "name", x)
           \/ \E x \in Values \cup {TORN} : Write(p, "value", x)
           \/ \E x \in BOOLEAN : Write(p, "in_use", x)
    PROVE  shm' \in Seq(Segment) /\ Len(shm') = Len(shm)
<1> DEFINE m == pr[p].m
           i == pr[p].i
<1>0. shm[m] \in Segment
  BY DEF Types
<1>1. /\ shm[m] \in Segment /\ shm[m].entries \in [Slots -> Entry]
      /\ shm[m].entries[i] \in Entry
  BY <1>0 DEF Segment
<1>2. ASSUME NEW e \in Entry, shm' = [shm EXCEPT ![m].entries[i] = e]
      PROVE  shm' \in Seq(Segment) /\ Len(shm') = Len(shm)
  <2>1. [shm[m].entries EXCEPT ![i] = e] \in [Slots -> Entry]
    BY <1>1
  <2>2. [shm[m] EXCEPT !.entries = [shm[m].entries EXCEPT ![i] = e]] \in Segment
    BY <1>1, <2>1 DEF Segment
  <2> QED
    BY <1>2, <2>2, SegmentLemma
<1>3. CASE \E x \in String \cup {TORN} : Write(p, "name", x)
  <2>1. PICK x \in String \cup {TORN} : shm' = [shm EXCEPT ![m].entries[i].name = x]
    BY <1>3 DEF Write
  <2>2. [shm[m].entries[i] EXCEPT !.name = x] \in Entry
    BY <1>1 DEF Entry
  <2> QED
    BY <1>2, <2>1, <2>2
<1>4. CASE \E x \in Values \cup {TORN} : Write(p, "value", x)
  <2>1. PICK x \in Values \cup {TORN} : shm' = [shm EXCEPT ![m].entries[i].value = x]
    BY <1>4 DEF Write
  <2>2. [shm[m].entries[i] EXCEPT !.value = x] \in Entry
    BY <1>1 DEF Entry
  <2> QED
    BY <1>2, <2>1, <2>2
<1>5. CASE \E x \in BOOLEAN : Write(p, "in_use", x)
  <2>1. PICK x \in BOOLEAN : shm' = [shm EXCEPT ![m].entries[i].in_use = x]
    BY <1>5 DEF Write
  <2>2. [shm[m].entries[i] EXCEPT !.in_use = x] \in Entry
    BY <1>1 DEF Entry
  <2> QED
    BY <1>2, <2>1, <2>2
<1> QED
  BY <1>3, <1>4, <1>5

\* strncpy() and the terminator leave a string.
LEMMA CutLemma ==
    ASSUME NEW n \in Names
    PROVE  /\ Cut(n) \in String /\ Cut(n) # TORN
           /\ Cut(n) = n \/ Cut(n).len >= NAME_LEN - 1
  BY DirAssumption DEF Cut, String

\* The writes of an entry touch neither keys nor semaphores.
LEMMA WriteStep ==
    ASSUME IInv, NEW p \in Procs, WriteName(p) \/ WriteValue(p) \/ WriteInUse(p)
    PROVE  IInv'
<1>0. UNCHANGED count /\ UNCHANGED <<shmKey, semKey, sem>>
  BY DEF WriteName, WriteValue, WriteInUse
<1>1. pc(p) \in {"name", "value", "update", "use", "remove"}
  BY DEF WriteName, WriteValue, WriteInUse
<1>2. /\ pr[p].m \in 1 .. Len(shm) /\ pr[p].i \in Slots
      /\ pc(p) # "remove" => pr[p].name \in Names
      /\ pc(p) \in {"value", "update"} => pr[p].value \in Values
  BY <1>1 DEF IInv, Locals, Local
<1>3. /\ shm' \in Seq(Segment) /\ Len(shm') = Len(shm)
  <2>1. CASE WriteName(p)
    BY <1>2, <2>1, CutLemma, WriteLemma DEF IInv, WriteName
  <2>2. CASE WriteValue(p)
    BY <1>2, <2>2, WriteLemma DEF IInv, WriteValue
  <2>3. CASE WriteInUse(p)
    <3>1. \E x \in BOOLEAN : Write(p, "in_use", x)
      BY <2>3 DEF WriteInUse
    <3> QED
      BY <1>2, <3>1, WriteLemma DEF IInv
  <2> QED
    BY <2>1, <2>2, <2>3
<1>4. PICK l \in {"value", "use", "unlock"} : Goto(p, l) /\ (l # "unlock" => pc(p) \in {"name", "value"})
  BY DEF WriteName, WriteValue, WriteInUse, Goto
<1>5. PICK X \in Process : /\ pr' = [pr EXCEPT ![p] = X]
                           /\ X.pc = l
                           /\ Same(X, pr[p], {})
  BY <1>0, <1>4, CountLemma, GotoLemma
<1>6. /\ Local(X, Len(shm'), Len(sem)) /\ X.op = pr[p].op /\ X.s = pr[p].s
      /\ orderly => Current(X, shmKey', semKey)
  BY <1>0, <1>1, <1>3, <1>4, <1>5, CountLemma DEF Local, Current, Same
<1>7. /\ shmKey' \in (1 .. Len(shm')) \cup {NULL} /\ Len(shm') >= Len(shm)
      /\ orderly => \A q \in Procs \ {p} : Current(pr[q], shmKey', semKey)
  BY <1>0, <1>3 DEF IInv, Types, Order
<1>8. Owns(pr[p]) /\ pc(p) # "idle"
  BY <1>1 DEF Owns
<1> QED
  BY <1>0, <1>3, <1>5, <1>6, <1>7, <1>8, CountLemma, MoveStep

\* A killed process leaves what it was writing torn, and the kernel undoes what
\* it took: its semaphore's value grows by its undo count.
LEMMA KillStep ==
    ASSUME IInv, NEW p \in Procs, Kill(p)
    PROVE  IInv'
<1>0. /\ Return(p) /\ orderly' = orderly /\ UNCHANGED <<shmKey, semKey>>
      /\ half' \in BOOLEAN /\ torn' \in BOOLEAN
  BY DEF Kill, IInv, Types
<1>1. shm' \in Seq(Segment) /\ Len(shm') = Len(shm)
  <2>1. CASE UNCHANGED shm
    BY <2>1 DEF IInv, Types
  <2>2. CASE /\ pc(p) \in {"name", "value", "update"}
             /\ Write(p, IF pc(p) = "name" THEN "name" ELSE "value", TORN)
    <3>1. pr[p].m \in 1 .. Len(shm) /\ pr[p].i \in Slots
      BY <2>2 DEF IInv, Locals, Local
    <3>2. Write(p, "name", TORN) \/ Write(p, "value", TORN)
      BY <2>2
    <3> QED
      BY <3>1, <3>2, WriteLemma DEF IInv
  <2> QED
    BY <2>1, <2>2 DEF Kill
<1>2. DOMAIN sem = 1 .. Len(sem) /\ sem \in Seq(Semaphore)
  BY DEF IInv, Types
<1>3. CASE pr[p].undo = 0
  <2>1. sem' = sem
    <3>1. \A i \in DOMAIN sem : sem'[i] = sem[i]
      <4>1. \A r \in Semaphore : [r EXCEPT !.val = @ + 0] = r
        BY DEF Semaphore
      <4>2. \A i \in DOMAIN sem : sem[i] \in Semaphore
        BY <1>2
      <4>3. \A i \in DOMAIN sem : sem'[i] = IF i = pr[p].s /\ sem[i].live
                 THEN [sem[i] EXCEPT !.val = @ + 0] ELSE sem[i]
        BY <1>3 DEF Kill
      <4> QED
        BY <4>1, <4>2, <4>3
    <3> QED
      BY <1>2, <3>1 DEF Kill
  <2>2. CASE Owns(pr[p])
    BY <1>0, <1>1, <2>1, <2>2, OwnerEnds
  <2>3. CASE ~Owns(pr[p])
    <3>1. OneUnit'
      BY <1>0, <2>1, <2>3 DEF IInv, Types, OneUnit, Return, Owns, Idle, Frame
    <3>2. /\ sem' \in Seq(Semaphore) /\ Len(sem') = Len(sem)
          /\ semKey' \in (1 .. Len(sem')) \cup {NULL}
          /\ orderly => \A q \in Procs \ {p} : Current(pr[q], shmKey, semKey')
      BY <1>0, <2>1 DEF IInv, Types, Order
    <3> QED
      BY <1>0, <1>1, <3>1, <3>2, EndStep
  <2> QED
    BY <2>2, <2>3
<1>4. CASE pr[p].undo = 1
  <2>1. /\ Owns(pr[p]) /\ pr[p].s \in 1 .. Len(sem) /\ sem[pr[p].s].val = 0
        /\ sem[pr[p].s] \in Semaphore
    BY <1>4 DEF IInv, Types, Locals, Local, Owns, OneUnit
  <2>2. sem' = sem \/ sem' = [sem EXCEPT ![pr[p].s].val = 1]
    <3>1. CASE sem[pr[p].s].live
      <4>1. \A i \in DOMAIN sem : sem'[i] = [sem EXCEPT ![pr[p].s].val = 1][i]
        BY <1>2, <1>4, <2>1, <3>1 DEF Kill
      <4>2. DOMAIN sem' = DOMAIN sem
        BY DEF Kill
      <4> QED
        BY <1>2, <4>1, <4>2 DEF Kill
    <3>2. CASE ~sem[pr[p].s].live
      BY <1>2, <2>1, <3>2 DEF Kill
    <3> QED
      BY <3>1, <3>2
  <2> QED
    BY <1>0, <1>1, <2>1, <2>2, OwnerEnds
<1>5. pr[p].undo \in 0 .. 1
  BY DEF IInv, Types, Process
<1> QED
  BY <1>3, <1>4, <1>5

\* A command starts under the calling convention.
LEMMA StartStep ==
    ASSUME IInv, NEW p \in Procs, Call(p)
    PROVE  IInv'
<1>1. PICK op \in Ops, n \in Names \cup {NULL}, v \in Values \cup {NULL} :
         /\ Start(p, op, n, v)
         /\ op \in {"get", "set", "delete"} => n \in Names
         /\ op = "set" => v \in Values
  <2>1. Ops = {"init_dir", "rm_dir", "get", "set", "delete"}
    BY DEF Ops
  <2> QED
    BY <2>1, Zenon DEF Call
<1> DEFINE l == CASE op = "init_dir" -> "i_shmget"
                  [] op = "rm_dir"   -> "r_shmget"
                  [] OTHER           -> "attach"
           X == Frame(l, op, n, v)
<1>2. /\ X \in Process /\ X.op = op /\ X.name = n /\ X.value = v /\ X.m = NULL
      /\ X.s = NULL /\ X.undo = 0 /\ X.pc = l
  <2>1. l \in Labels
    OBVIOUS
  <2> HIDE DEF l
  <2> QED
    BY <2>1 DEF Frame, Process
<1>3. /\ pr' = [pr EXCEPT ![p] = X] /\ UNCHANGED <<ipc, orderly, torn, half>> /\ pc(p) = "idle"
      /\ orderly => \A q \in Procs : pc(q) # "idle" =>
                    /\ op # "rm_dir" /\ pr[q].op # "rm_dir"
                    /\ op = "init_dir" => pr[q].op # "init_dir"
  BY <1>1 DEF Start
<1> HIDE DEF X
<1>4. /\ pr' \in [Procs -> Process] /\ pr'[p] = X /\ \A q \in Procs \ {p} : pr'[q] = pr[q]
      /\ shm' = shm /\ sem' = sem /\ shmKey' = shmKey /\ semKey' = semKey
  BY <1>2, <1>3 DEF IInv, Types, ipc
<1>5. Types'
  BY <1>3, <1>4 DEF IInv, Types
<1>6. Local(X, Len(shm), Len(sem)) /\ ~Owns(X) /\ Current(X, shmKey, semKey)
  BY <1>1, <1>2 DEF Local, Owns, Current, Ops
<1>7. Locals' /\ OneUnit'
  BY <1>4, <1>6 DEF IInv, Locals, OneUnit
<1>8. Order'
  BY <1>2, <1>3, <1>4, <1>6 DEF IInv, Order, Alone
<1> QED
  BY <1>5, <1>7, <1>8 DEF IInv

\* The system starts with no object and no call.
LEMMA InitIInv == Init => IInv
<1> SUFFICES ASSUME Init PROVE IInv
  OBVIOUS
<1>1. \A p \in Procs : pr[p] = Idle
  BY DEF Init
<1>2. Types
  <2>1. pr \in [Procs -> Process]
    BY IdleLemma DEF Init
  <2>2. shm \in Seq(Segment) /\ sem \in Seq(Semaphore)
    BY DEF Init
  <2> QED
    BY <2>1, <2>2 DEF Init, Types
<1>3. Locals /\ OneUnit /\ Order
  BY <1>1 DEF Init, Locals, Local, OneUnit, Owns, Order, Alone, Current, Idle, Frame
<1> QED
  BY <1>2, <1>3 DEF IInv

\* IInv is inductive.
LEMMA NextIInv == IInv /\ [Next]_vars => IInv'
<1> SUFFICES ASSUME IInv, [Next]_vars PROVE IInv'
  OBVIOUS
<1>1. CASE UNCHANGED vars
  BY <1>1 DEF vars, IInv, Types, Locals, OneUnit, Order, Alone
<1>2. ASSUME NEW p \in Procs, Step(p) PROVE IInv'
  BY <1>2, InitShmgetStep, InitMemsetStep, InitSemgetStep, InitSetvalStep,
     CleanupGetStep, CleanupShmStep, CleanupSemStep, AttachStep, EnsureStep,
     LockStep, ScanStep, WriteStep, UnlockStep DEF Step
<1> QED
  BY <1>1, <1>2, StartStep, KillStep DEF Next

\* IInv holds for ever.
LEMMA Invariance == Spec => []IInv
  BY InitIInv, NextIInv, PTL DEF Spec

\* IInv's types are those TypeOK states.
LEMMA TypesTypeOK == Types => TypeOK
<1> SUFFICES ASSUME Types PROVE TypeOK
  OBVIOUS
<1>1. \A i \in DOMAIN sem : sem[i] \in Semaphore
  BY DEF Types
<1>2. \A i \in DOMAIN shm : shm[i] \in Segment
  BY DEF Types
<1>3. \A p \in Procs : pr[p] \in Process
  BY DEF Types
<1>4. \A i \in DOMAIN shm : DOMAIN shm[i].entries = Slots
  BY <1>2 DEF Segment
<1> QED
  BY <1>1, <1>3, <1>4 DEF Types, Semaphore, Process, TypeOK

\* For any number of processes, names, slots and objects, any calls and any
\* kills: keys and slots name what exists, and the semaphore stays binary.
THEOREM TypeCorrect == Spec => []TypeOK
<1>1. IInv => TypeOK
  BY TypesTypeOK DEF IInv
<1> QED
  BY <1>1, Invariance, PTL

\* For any number of processes and kills: with rm_dir alone and one init_dir at
\* a time, never two processes are between sem_lock and sem_unlock, although
\* SEM_UNDO gives back what the killed took.
THEOREM MutualExclusion == Spec => []Exclusive
<1>1. ASSUME IInv PROVE Exclusive
  <2>1. SUFFICES ASSUME orderly PROVE Cardinality(Inside) <= 1
    BY DEF Exclusive
  <2>2. \A p, q \in Inside : p = q
    BY <1>1, <2>1 DEF Inside, IInv, OneUnit, Owns, Order, Current
  <2>3. CASE Inside = {}
    BY <2>3, FS_EmptySet
  <2>4. CASE Inside # {}
    <3>1. PICK p : Inside = {p}
      BY <2>2, <2>4
    <3> QED
      BY <3>1, FS_Singleton
  <2> QED
    BY <2>3, <2>4
<1> QED
  BY <1>1, Invariance, PTL
-----------------------------------------------------------------------------
\* The keys go together, except while an rm_dir is between its two removals,
\* and the segment is wiped before there is a semaphore.
KeysFit ==
    /\ shmKey = NULL => semKey = NULL \/ \E q \in Procs : pc(q) = "r_rmsem"
    /\ \A p \in Procs :
         /\ pc(p) \in {"i_memset", "i_semget"} => shmKey # NULL
         /\ pc(p) = "i_memset" => semKey = NULL

\* What EntriesWhole says of the entries e of one segment; t: a value was torn.
SegmentWhole(e, t) ==
    /\ \A i \in Slots : e[i].in_use => /\ e[i].name # TORN
                                       /\ e[i].value # NULL
                                       /\ t \/ e[i].value # TORN
    /\ \A i, j \in Slots :
         e[i].in_use /\ e[j].in_use /\ i # j /\ e[i].name = e[j].name
         => e[i].name.len >= NAME_LEN - 1

\* What a process r that fills a free entry has written so far.
Filling(r, e) ==
    r.pc \in WritePcs =>
        /\ ~e[r.i].in_use
        /\ \A j \in Slots : e[j].in_use => e[j].name # r.name
        /\ r.pc \in {"value", "use"} => e[r.i].name = Cut(r.name)
        /\ r.pc = "use" => e[r.i].value = r.value

Content ==
    /\ \A m \in 1 .. Len(shm) : SegmentWhole(shm[m].entries, torn)
    /\ \A p \in Procs : Filling(pr[p], shm[pr[p].m].entries)

WInv == orderly /\ ~half => KeysFit /\ Content

\* A step of one process changes no other's locals.
LEMMA OthersLemma ==
    ASSUME IInv, NEW p \in Procs, Call(p) \/ Step(p) \/ Kill(p)
    PROVE  (\A q \in Procs \ {p} : pr'[q] = pr[q]) /\ orderly' = orderly
<1>1. pr \in [Procs -> Process]
  BY DEF IInv, Types
<1>2. ASSUME NEW x, pr' = [pr EXCEPT ![p] = x] PROVE \A q \in Procs \ {p} : pr'[q] = pr[q]
  BY <1>1, <1>2
<1>3. CASE Call(p)
  BY <1>2, <1>3 DEF Call, Start
<1>4. CASE Kill(p)
  BY <1>2, <1>4 DEF Kill, Return
<1>5. CASE Step(p)
  BY <1>1, <1>2, <1>5 DEF Step, InitShmget, InitMemset, InitSemget, InitSetval,
     CleanupShmget, CleanupSemget, CleanupShm, CleanupSem, attach_directory,
     ensure_semaphore, Lock, TakeLock, Scan, WriteName, WriteValue, WriteInUse, Unlock,
     Goto, Return, count
<1> QED
  BY <1>3, <1>4, <1>5

\* A step that leaves the keys alone, and neither starts a wipe nor ends the
\* removals, keeps the keys together.
LEMMA KeysFrame ==
    ASSUME IInv, KeysFit, NEW p \in Procs, UNCHANGED <<shmKey, semKey>>,
           \A q \in Procs \ {p} : pr'[q] = pr[q],
           pr'[p].pc # "i_memset", pc(p) # "r_rmsem",
           pr'[p].pc = "i_semget" => shmKey # NULL
    PROVE  KeysFit'
  BY DEF KeysFit

\* Every step but the death of an rm_dir between its removals keeps the keys
\* together.
LEMMA KeysStep ==
    ASSUME IInv, KeysFit, orderly, NEW p \in Procs, Call(p) \/ Step(p) \/ Kill(p),
           ~(Kill(p) /\ pc(p) = "r_rmsem")
    PROVE  KeysFit'
<1>0. (\A q \in Procs \ {p} : pr'[q] = pr[q]) /\ pr \in [Procs -> Process]
  BY OthersLemma DEF IInv, Types
<1>1. ASSUME UNCHANGED <<shmKey, semKey>>, pc(p) # "r_rmsem",
             pr'[p].pc \notin {"i_memset", "i_semget"}
      PROVE  KeysFit'
  BY <1>0, <1>1, KeysFrame
<1>2. CASE Call(p)
  <2>1. PICK op \in {"init_dir", "rm_dir", "get", "delete", "set"} :
           \E n, v : Start(p, op, n, v)
    BY <1>2, Zenon DEF Call
  <2>2. UNCHANGED <<shmKey, semKey>> /\ pc(p) = "idle"
    BY <2>1 DEF Start, ipc
  <2>3. pr'[p].pc \in {"i_shmget", "r_shmget", "attach"}
    BY <1>0, <2>1 DEF Start, Frame
  <2> QED
    BY <1>1, <2>2, <2>3
<1>3. CASE Kill(p)
  BY <1>0, <1>1, <1>3 DEF Kill, Return, Idle, Frame
<1>4. CASE attach_directory(p) \/ ensure_semaphore(p) \/ CleanupShmget(p) \/ CleanupSemget(p)
  BY <1>0, <1>1, <1>4 DEF attach_directory, ensure_semaphore, CleanupShmget,
     CleanupSemget, ipc, Return, Idle, Frame, Process
<1>5. CASE Lock(p) \/ Scan(p) \/ Unlock(p) \/ InitSetval(p)
  BY <1>0, <1>1, <1>5 DEF Lock, TakeLock, Scan, Unlock, InitSetval, ipc, Goto, Return,
     Idle, Frame, Process
<1>6. CASE WriteName(p) \/ WriteValue(p) \/ WriteInUse(p)
  BY <1>0, <1>1, <1>6 DEF WriteName, WriteValue, WriteInUse, Goto, Process
<1>7. CASE InitShmget(p)
  <2>1. CASE UNCHANGED ipc
    <3>1. \/ pr'[p].pc = "idle"
          \/ pr'[p].pc = "i_semget" /\ shmKey # NULL
      BY <1>0, <1>7, <2>1 DEF InitShmget, ipc, Goto, Return, Idle, Frame, Process
    <3> QED
      BY <1>0, <1>7, <2>1, <3>1, KeysFrame DEF InitShmget, ipc
  <2>2. CASE shmKey = NULL /\ shmKey' = Len(shm') /\ UNCHANGED semKey /\ Len(shm') \in Nat
    <3>1. \A q \in Procs \ {p} : pc(q) \notin RmPcs \cup InitPcs
      BY <1>7, AloneLemma DEF InitShmget
    <3>2. semKey = NULL
      BY <1>7, <2>2, <3>1 DEF KeysFit, InitShmget
    <3> QED
      BY <1>0, <2>2, <3>1, <3>2, DirAssumption DEF KeysFit
  <2>3. shm \in Seq(Segment)
    BY DEF IInv, Types
  <2> QED
    BY <1>7, <2>1, <2>2, <2>3 DEF InitShmget
<1>8. CASE InitMemset(p)
  <2>1. /\ shmKey # NULL /\ pr'[p].pc \in {"idle", "i_semget"} /\ pc(p) # "r_rmsem"
        /\ UNCHANGED <<shmKey, semKey>>
    BY <1>0, <1>8 DEF InitMemset, KeysFit, Goto, Return, Idle, Frame, Process
  <2> QED
    BY <1>0, <2>1, KeysFrame
<1>9. CASE InitSemget(p)
  <2>1. CASE UNCHANGED ipc /\ Return(p)
    BY <1>0, <1>1, <1>9, <2>1 DEF InitSemget, ipc, Return, Idle, Frame
  <2>2. CASE /\ UNCHANGED shmKey
             /\ pr' = [pr EXCEPT ![p].s = Len(sem'), ![p].pc = "i_setval"]
    <3>1. \A q \in Procs \ {p} : pc(q) \notin InitPcs
      BY <1>9, AloneLemma DEF InitSemget
    <3>2. pr'[p].pc = "i_setval" /\ shmKey # NULL
      BY <1>0, <1>9, <2>2 DEF Process, KeysFit, InitSemget
    <3> QED
      BY <1>0, <2>2, <3>1, <3>2 DEF KeysFit
  <2> QED
    BY <1>9, <2>1, <2>2 DEF InitSemget
<1>10. CASE CleanupShm(p)
  <2>1. pr'[p].pc = "r_rmsem" /\ \A q \in Procs \ {p} : pc(q) = "idle"
    BY <1>0, <1>10, AloneLemma DEF CleanupShm, Goto, Process
  <2> QED
    BY <1>0, <2>1 DEF KeysFit
<1>11. CASE CleanupSem(p)
  <2>1. pr'[p].pc = "idle" /\ \A q \in Procs \ {p} : pc(q) = "idle"
    BY <1>0, <1>11, AloneLemma DEF CleanupSem, Return, Idle, Frame
  <2>2. semKey' = NULL
    BY <1>11 DEF CleanupSem, IInv, Order, Current
  <2> QED
    BY <1>0, <2>1, <2>2 DEF KeysFit
<1> QED
  BY <1>2, <1>3, <1>4, <1>5, <1>6, <1>7, <1>8, <1>9, <1>10, <1>11 DEF Step

\* Wiped entries are whole.
LEMMA ZerosWhole == ASSUME NEW t PROVE SegmentWhole(Zeros, t)
  BY DEF SegmentWhole, Zeros

\* A step that writes nothing into the entries, and after which its process
\* does not go on writing, keeps the content.
LEMMA ContentFrame ==
    ASSUME IInv, Content, NEW p \in Procs, torn' = torn,
           \A q \in Procs \ {p} : pr'[q] = pr[q],
           shm' \in Seq(Segment), Len(shm') >= Len(shm),
           \A m \in 1 .. Len(shm) : shm'[m].entries = shm[m].entries,
           \A m \in 1 .. Len(shm') : m > Len(shm) => shm'[m].entries = Zeros,
           pr'[p].pc \notin WritePcs
    PROVE  Content'
<1>1. \A q \in Procs \ {p} : pc(q) \in WritePcs => pr[q].m \in 1 .. Len(shm)
  BY DEF IInv, Locals, Local
<1>2. ASSUME NEW q \in Procs PROVE Filling(pr'[q], shm'[pr'[q].m].entries)
  <2>1. CASE pr'[q].pc \notin WritePcs
    BY <2>1 DEF Filling
  <2>2. CASE pr'[q].pc \in WritePcs
    <3>1. q # p /\ pr'[q] = pr[q] /\ shm'[pr[q].m].entries = shm[pr[q].m].entries
      BY <1>1, <2>2
    <3> QED
      BY <3>1 DEF Content
  <2> QED
    BY <2>1, <2>2
<1>3. \A m \in 1 .. Len(shm') : SegmentWhole(shm'[m].entries, torn)
  <2>1. SUFFICES ASSUME NEW m \in 1 .. Len(shm') PROVE SegmentWhole(shm'[m].entries, torn)
    OBVIOUS
  <2>2. CASE m \in 1 .. Len(shm)
    BY <2>2 DEF Content
  <2>3. CASE m > Len(shm)
    BY <2>3, ZerosWhole
  <2>4. Len(shm) \in Nat /\ Len(shm') \in Nat
    BY DEF IInv, Types
  <2> QED
    BY <2>1, <2>2, <2>3, <2>4
<1> QED
  BY <1>2, <1>3 DEF Content

\* At most one process is inside, when the calling convention is kept.
LEMMA OneInside ==
    ASSUME IInv, orderly, NEW p \in Procs, NEW q \in Procs,
           pc(p) \in InsidePcs, pc(q) \in InsidePcs
    PROVE  p = q
  BY DEF IInv, OneUnit, Owns, Order, Current

\* A step of the process inside: only its own segment changes, and that stays
\* whole.
LEMMA ContentWrite ==
    ASSUME IInv, orderly, Content, NEW p \in Procs, pc(p) \in InsidePcs,
           \A q \in Procs \ {p} : pr'[q] = pr[q],
           NEW e, \A m \in 1 .. Len(shm) : SegmentWhole(shm[m].entries, torn'),
           shm' = [shm EXCEPT ![pr[p].m].entries = e],
           pr'[p].m = pr[p].m \/ pr'[p].pc \notin WritePcs,
           SegmentWhole(e, torn'), Filling(pr'[p], e)
    PROVE  Content'
<1>1. pr[p].m \in 1 .. Len(shm) /\ shm \in Seq(Segment) /\ shm[pr[p].m] \in Segment
  BY DEF IInv, Types, Locals, Local
<1>2. /\ Len(shm') = Len(shm) /\ shm'[pr[p].m].entries = e
      /\ \A m \in 1 .. Len(shm) : m # pr[p].m => shm'[m] = shm[m]
  BY <1>1 DEF Segment
<1>3. \A q \in Procs \ {p} : pc(q) \notin WritePcs
  BY OneInside
<1>4. \A q \in Procs : Filling(pr[q], shm[pr[q].m].entries)'
  <2>1. CASE pr'[p].m = pr[p].m
    BY <1>2, <1>3, <2>1 DEF Filling
  <2>2. CASE pr'[p].pc \notin WritePcs
    BY <1>3, <2>2 DEF Filling
  <2> QED
    BY <2>1, <2>2
<1>5. \A m \in 1 .. Len(shm') : SegmentWhole(shm'[m].entries, torn')
  BY <1>2
<1> QED
  BY <1>4, <1>5 DEF Content

\* The steps that write no entry.
LEMMA ContentKept ==
    ASSUME IInv, Content, NEW p \in Procs, torn' = torn, UNCHANGED shm,
           \A q \in Procs \ {p} : pr'[q] = pr[q], pr'[p].pc \notin WritePcs
    PROVE  Content'
<1>1. /\ shm' = shm /\ shm \in Seq(Segment) /\ Len(shm) \in Nat
  BY DEF IInv, Types
<1>2. /\ shm' \in Seq(Segment) /\ Len(shm') >= Len(shm)
      /\ \A m \in 1 .. Len(shm) : shm'[m].entries = shm[m].entries
      /\ \A m \in 1 .. Len(shm') : m > Len(shm) => shm'[m].entries = Zeros
  BY <1>1
<1> QED
  BY <1>2, ContentFrame

\* The scan leaves a free entry to fill, with no entry of that name in use.
LEMMA ContentScan ==
    ASSUME IInv, Content, NEW p \in Procs, Scan(p)
    PROVE  Content'
<1>0. /\ \A q \in Procs \ {p} : pr'[q] = pr[q]
      /\ pr \in [Procs -> Process] /\ UNCHANGED <<shm, torn>> /\ pc(p) = "scan"
  BY OthersLemma DEF IInv, Types, Step, Scan, ipc, count
<1>1. CASE pr'[p].pc \notin WritePcs
  BY <1>0, <1>1, ContentKept
<1>2. CASE /\ Hits(p) = {} /\ FreeSlots(p) # {}
           /\ SetI(p, First(FreeSlots(p)), "name")
  <2>1. First(FreeSlots(p)) \in FreeSlots(p)
    BY <1>2, FirstLemma DEF FreeSlots
  <2>2. /\ pr'[p].i = First(FreeSlots(p)) /\ pr'[p].pc = "name"
        /\ pr'[p].m = pr[p].m /\ pr'[p].name = pr[p].name
    BY <1>0, <1>2 DEF SetI, Process
  <2>3. Filling(pr'[p], shm[pr[p].m].entries)
    BY <1>2, <2>1, <2>2 DEF Filling, FreeSlots, Hits, Entries
  <2> QED
    BY <1>0, <2>2, <2>3 DEF Content
<1>3. \/ pr'[p].pc \notin WritePcs
      \/ Hits(p) = {} /\ FreeSlots(p) # {} /\ SetI(p, First(FreeSlots(p)), "name")
  BY <1>0 DEF Scan, SetI, Goto, Process
<1> QED
  BY <1>1, <1>2, <1>3

\* The writes of an entry, in the order name, value, in_use.
LEMMA ContentWrites ==
    ASSUME IInv, orderly, Content, NEW p \in Procs,
           WriteName(p) \/ WriteValue(p) \/ WriteInUse(p)
    PROVE  Content'
<1> DEFINE e == shm[pr[p].m].entries
           i == pr[p].i
<1>0. /\ \A q \in Procs \ {p} : pr'[q] = pr[q]
      /\ pr \in [Procs -> Process] /\ torn' = torn /\ torn \in BOOLEAN
      /\ pc(p) \in {"name", "value", "update", "use", "remove"}
  BY OthersLemma DEF IInv, Types, Step, WriteName, WriteValue, WriteInUse, count
<1>1. /\ pr[p].m \in 1 .. Len(shm) /\ i \in Slots
      /\ pc(p) # "remove" => pr[p].name \in Names /\ pr[p].value \in Values
  BY <1>0 DEF IInv, Locals, Local
<1>2. shm[pr[p].m] \in Segment /\ e \in [Slots -> Entry]
  <2>1. shm[pr[p].m] \in Segment
    BY <1>1 DEF IInv, Types
  <2> QED
    BY <2>1 DEF Segment
<1>3. SegmentWhole(e, torn) /\ Filling(pr[p], e)
  BY <1>1 DEF Content
<1>4. /\ pr'[p].m = pr[p].m /\ pr'[p].i = i /\ pr'[p].name = pr[p].name
      /\ pr'[p].value = pr[p].value
      /\ pr'[p].pc = CASE pc(p) = "name" -> "value" [] pc(p) = "value" -> "use"
                       [] OTHER -> "unlock"
  BY <1>0 DEF WriteName, WriteValue, WriteInUse, Goto, Process
<1>5. ASSUME NEW x \in Entry, shm' = [shm EXCEPT ![pr[p].m].entries[i] = x],
             SegmentWhole([e EXCEPT ![i] = x], torn),
             Filling(pr'[p], [e EXCEPT ![i] = x])
      PROVE  Content'
  <2> DEFINE f == [e EXCEPT ![i] = x]
  <2>1. shm' = [shm EXCEPT ![pr[p].m].entries = f]
    BY <1>5
  <2>2. /\ SegmentWhole(f, torn')
        /\ \A m \in 1 .. Len(shm) : SegmentWhole(shm[m].entries, torn')
    BY <1>0, <1>5 DEF Content
  <2>3. Filling(pr'[p], f) /\ pr'[p].m = pr[p].m /\ pc(p) \in InsidePcs
    BY <1>0, <1>4, <1>5
  <2> HIDE DEF f
  <2> QED
    BY <1>0, <2>1, <2>2, <2>3, ContentWrite
<1>6. CASE WriteName(p)
  <2> DEFINE x == [e[i] EXCEPT !.name = Cut(pr[p].name)]
  <2>1. /\ x \in Entry /\ x.name = Cut(pr[p].name) /\ x.in_use = e[i].in_use
    BY <1>1, <1>2, <1>6, CutLemma DEF Entry, WriteName
  <2>2. shm' = [shm EXCEPT ![pr[p].m].entries[i] = x]
    BY <1>6 DEF WriteName, Write
  <2> HIDE DEF x
  <2>3. ~e[i].in_use /\ \A j \in Slots : e[j].in_use => e[j].name # pr[p].name
    BY <1>3, <1>6 DEF Filling, WriteName
  <2>4. SegmentWhole([e EXCEPT ![i] = x], torn)
    BY <1>1, <1>2, <1>3, <2>1, <2>3 DEF SegmentWhole
  <2>5. Filling(pr'[p], [e EXCEPT ![i] = x])
    BY <1>1, <1>2, <1>4, <1>6, <2>1, <2>3 DEF Filling, WriteName
  <2> QED
    BY <1>5, <2>1, <2>2, <2>4, <2>5
<1>7. CASE WriteValue(p)
  <2> DEFINE x == [e[i] EXCEPT !.value = pr[p].value]
  <2>1. /\ x \in Entry /\ x.value = pr[p].value /\ x.in_use = e[i].in_use
        /\ x.name = e[i].name
    BY <1>1, <1>2, <1>7 DEF Entry, WriteValue
  <2>2. shm' = [shm EXCEPT ![pr[p].m].entries[i] = x]
    BY <1>7 DEF WriteValue, Write
  <2>3. x.value # NULL /\ x.value # TORN
    BY <1>1, <1>7, <2>1, DirAssumption DEF WriteValue
  <2> HIDE DEF x
  <2>4. SegmentWhole([e EXCEPT ![i] = x], torn)
    BY <1>1, <1>2, <1>3, <2>1, <2>3 DEF SegmentWhole
  <2>5. Filling(pr'[p], [e EXCEPT ![i] = x])
    <3>1. CASE pc(p) = "value"
      BY <1>1, <1>2, <1>3, <1>4, <2>1, <3>1 DEF Filling
    <3>2. CASE pc(p) = "update"
      BY <1>4, <3>2 DEF Filling
    <3> QED
      BY <1>7, <3>1, <3>2 DEF WriteValue
  <2> QED
    BY <1>5, <2>1, <2>2, <2>4, <2>5
<1>8. CASE WriteInUse(p)
  <2> DEFINE x == [e[i] EXCEPT !.in_use = (pc(p) = "use")]
  <2>1. /\ x \in Entry /\ x.value = e[i].value /\ x.name = e[i].name
        /\ x.in_use = (pc(p) = "use")
    BY <1>1, <1>2 DEF Entry
  <2>2. shm' = [shm EXCEPT ![pr[p].m].entries[i] = x]
    BY <1>8 DEF WriteInUse, Write
  <2> HIDE DEF x
  <2>3. SegmentWhole([e EXCEPT ![i] = x], torn)
    <3>1. CASE pc(p) = "use"
      <4>1. /\ x.name = Cut(pr[p].name) /\ x.value = pr[p].value
            /\ \A j \in Slots : e[j].in_use => e[j].name # pr[p].name
        BY <1>3, <2>1, <3>1 DEF Filling
      <4>2. /\ x.name # TORN /\ x.value # NULL /\ x.value # TORN
            /\ x.name = pr[p].name \/ x.name.len >= NAME_LEN - 1
        BY <1>1, <3>1, <4>1, CutLemma, DirAssumption
      <4> QED
        BY <1>1, <1>2, <1>3, <4>1, <4>2 DEF SegmentWhole
    <3>2. CASE pc(p) # "use"
      BY <1>1, <1>2, <1>3, <2>1, <3>2 DEF SegmentWhole
    <3> QED
      BY <3>1, <3>2
  <2>4. Filling(pr'[p], [e EXCEPT ![i] = x])
    BY <1>4, <1>8 DEF Filling, WriteInUse
  <2> QED
    BY <1>5, <2>1, <2>2, <2>3, <2>4
<1> QED
  BY <1>6, <1>7, <1>8

\* A kill tears at most the string that was being written, which is in use only
\* when it is the value of an update.
LEMMA ContentKill ==
    ASSUME IInv, orderly, Content, NEW p \in Procs, Kill(p)
    PROVE  Content'
<1> DEFINE e == shm[pr[p].m].entries
           i == pr[p].i
<1>0. /\ \A q \in Procs \ {p} : pr'[q] = pr[q]
      /\ pr \in [Procs -> Process] /\ torn \in BOOLEAN
      /\ pr'[p].pc = "idle"
  BY OthersLemma DEF IInv, Types, Kill, Return, Idle, Frame
<1>1. CASE UNCHANGED <<shm, torn>>
  BY <1>0, <1>1, ContentKept
<1>2. CASE /\ pc(p) \in {"name", "value", "update"}
           /\ Write(p, IF pc(p) = "name" THEN "name" ELSE "value", TORN)
           /\ torn' = (torn \/ pc(p) = "update")
  <2>1. pr[p].m \in 1 .. Len(shm) /\ i \in Slots
    BY <1>2 DEF IInv, Locals, Local
  <2>2. shm[pr[p].m] \in Segment /\ e \in [Slots -> Entry]
    <3>1. shm[pr[p].m] \in Segment
      BY <2>1 DEF IInv, Types
    <3> QED
      BY <3>1 DEF Segment
  <2>3. SegmentWhole(e, torn) /\ Filling(pr[p], e)
    BY <2>1 DEF Content
  <2>4. torn' \in BOOLEAN /\ (torn => torn') /\ (pc(p) = "update" => torn')
    BY <1>0, <1>2
  <2>5. PICK x \in Entry : /\ shm' = [shm EXCEPT ![pr[p].m].entries[i] = x]
                           /\ x.in_use = e[i].in_use
                           /\ pc(p) # "name" => x.name = e[i].name
                           /\ pc(p) = "update" => x.value = TORN
    <3>1. CASE pc(p) = "name"
      <4> DEFINE x == [e[i] EXCEPT !.name = TORN]
      <4>1. x \in Entry /\ x.in_use = e[i].in_use
        BY <2>1, <2>2 DEF Entry
      <4> QED
        BY <1>2, <3>1, <4>1 DEF Write
    <3>2. CASE pc(p) # "name"
      <4> DEFINE x == [e[i] EXCEPT !.value = TORN]
      <4>1. x \in Entry /\ x.in_use = e[i].in_use /\ x.name = e[i].name /\ x.value = TORN
        BY <2>1, <2>2 DEF Entry
      <4> QED
        BY <1>2, <3>2, <4>1 DEF Write
    <3> QED
      BY <3>1, <3>2
  <2>6. SegmentWhole([e EXCEPT ![i] = x], torn')
    <3>1. CASE pc(p) = "update"
      BY <2>1, <2>2, <2>3, <2>4, <2>5, <3>1, DirAssumption DEF SegmentWhole
    <3>2. CASE pc(p) # "update"
      <4>1. ~e[i].in_use
        BY <1>2, <2>3, <3>2 DEF Filling
      <4> QED
        BY <2>1, <2>2, <2>3, <2>4, <2>5, <4>1 DEF SegmentWhole
    <3> QED
      BY <3>1, <3>2
  <2> DEFINE f == [e EXCEPT ![i] = x]
  <2>7. Filling(pr'[p], f) /\ pc(p) \in InsidePcs /\ pr'[p].pc \notin WritePcs
    BY <1>0, <1>2 DEF Filling
  <2>8. shm' = [shm EXCEPT ![pr[p].m].entries = f] /\ SegmentWhole(f, torn')
    BY <2>5, <2>6
  <2>9. \A m \in 1 .. Len(shm) : SegmentWhole(shm[m].entries, torn')
    BY <2>4 DEF Content, SegmentWhole
  <2> HIDE DEF f
  <2> QED
    BY <1>0, <2>7, <2>8, <2>9, ContentWrite
<1> QED
  BY <1>1, <1>2 DEF Kill

\* init_dir wipes the segment it has just made: nobody can be inside it yet,
\* since there is no semaphore.
LEMMA ContentMemset ==
    ASSUME IInv, orderly, KeysFit, Content, NEW p \in Procs, InitMemset(p)
    PROVE  Content'
<1>0. /\ \A q \in Procs \ {p} : pr'[q] = pr[q]
      /\ pr \in [Procs -> Process] /\ torn' = torn /\ pc(p) = "i_memset" /\ semKey = NULL
  BY OthersLemma DEF IInv, Types, Step, InitMemset, KeysFit, count
<1>1. pr'[p].pc \in {"i_semget", "idle"}
  BY <1>0 DEF InitMemset, Goto, Return, Idle, Frame, Process
<1>2. CASE UNCHANGED shm
  BY <1>0, <1>1, <1>2, ContentKept
<1>3. CASE shm' = [shm EXCEPT ![pr[p].m].entries = Zeros]
  <2>1. pr[p].m \in 1 .. Len(shm) /\ shm \in Seq(Segment) /\ shm[pr[p].m] \in Segment
    BY <1>0 DEF IInv, Types, Locals, Local
  <2>2. /\ Len(shm') = Len(shm) /\ shm'[pr[p].m].entries = Zeros
        /\ \A m \in 1 .. Len(shm) : m # pr[p].m => shm'[m] = shm[m]
    BY <1>3, <2>1 DEF Segment
  <2>3. \A q \in Procs : pr'[q].pc \notin WritePcs
    <3>1. \A q \in Procs : pc(q) \in WritePcs => pr[q].s = semKey /\ pr[q].s \in 1 .. Len(sem)
      BY DEF IInv, Order, Current, Locals, Local
    <3>2. \A q \in Procs : pc(q) \notin WritePcs
      BY <1>0, <3>1, DirAssumption
    <3> QED
      BY <1>0, <1>1, <3>2
  <2>4. \A m \in 1 .. Len(shm') : SegmentWhole(shm'[m].entries, torn)
    BY <2>2, ZerosWhole DEF Content
  <2> QED
    BY <1>0, <2>3, <2>4 DEF Content, Filling
<1> QED
  BY <1>2, <1>3 DEF InitMemset

\* A new segment is empty.
LEMMA ContentShmget ==
    ASSUME IInv, Content, NEW p \in Procs, InitShmget(p)
    PROVE  Content'
<1>0. /\ \A q \in Procs \ {p} : pr'[q] = pr[q]
      /\ pr \in [Procs -> Process] /\ torn' = torn
  BY OthersLemma DEF IInv, Types, Step, InitShmget, count
<1>1. pr'[p].pc \notin WritePcs
  BY <1>0 DEF InitShmget, Goto, Return, Idle, Frame, Process
<1>2. CASE UNCHANGED shm
  BY <1>0, <1>1, <1>2, ContentKept
<1>3. CASE shm' = Append(shm, [live |-> TRUE, entries |-> Zeros])
  <2>1. /\ shm' \in Seq(Segment) /\ Len(shm') = Len(shm) + 1 /\ Len(shm) \in Nat
        /\ \A i \in 1 .. Len(shm) : shm'[i] = shm[i]
        /\ shm'[Len(shm) + 1] = [live |-> TRUE, entries |-> Zeros]
    BY <1>3, ZerosLemma, AppendProperties DEF IInv, Types
  <2>2. /\ \A m \in 1 .. Len(shm) : shm'[m].entries = shm[m].entries
        /\ \A m \in 1 .. Len(shm') : m > Len(shm) => shm'[m].entries = Zeros
        /\ Len(shm') >= Len(shm)
    BY <2>1
  <2> QED
    BY <1>0, <1>1, <2>1, <2>2, ContentFrame
<1> QED
  BY <1>2, <1>3 DEF InitShmget, ipc

\* Removing a segment leaves its entries.
LEMMA ContentCleanupShm ==
    ASSUME IInv, Content, NEW p \in Procs, CleanupShm(p)
    PROVE  Content'
<1>0. /\ \A q \in Procs \ {p} : pr'[q] = pr[q]
      /\ pr \in [Procs -> Process] /\ torn' = torn /\ pc(p) = "r_rmshm"
  BY OthersLemma DEF IInv, Types, Step, CleanupShm, count
<1>1. pr'[p].pc \notin WritePcs
  BY <1>0 DEF CleanupShm, Goto, Process
<1>2. CASE UNCHANGED shm
  BY <1>0, <1>1, <1>2, ContentKept
<1>3. CASE pr[p].m # NULL /\ shm' = [shm EXCEPT ![pr[p].m].live = FALSE]
  <2>1. pr[p].m \in 1 .. Len(shm) /\ shm \in Seq(Segment) /\ shm[pr[p].m] \in Segment
    BY <1>0, <1>3 DEF IInv, Types, Locals, Local
  <2>2. [shm[pr[p].m] EXCEPT !.live = FALSE] \in Segment
    BY <2>1 DEF Segment
  <2>3. shm' \in Seq(Segment) /\ Len(shm') = Len(shm) /\ Len(shm) \in Nat
    BY <1>3, <2>1, <2>2, SegmentLemma DEF IInv
  <2>4. \A m \in 1 .. Len(shm) : shm'[m].entries = shm[m].entries
    BY <1>3, <2>1 DEF Segment
  <2>5. Len(shm') >= Len(shm) /\ \A m \in 1 .. Len(shm') : m > Len(shm) => shm'[m].entries = Zeros
    BY <2>3
  <2> QED
    BY <1>0, <1>1, <2>3, <2>4, <2>5, ContentFrame
<1> QED
  BY <1>2, <1>3 DEF CleanupShm

\* Every step keeps the entries whole.
LEMMA ContentStep ==
    ASSUME IInv, orderly, KeysFit, Content, NEW p \in Procs,
           Call(p) \/ Step(p) \/ Kill(p)
    PROVE  Content'
<1>0. (\A q \in Procs \ {p} : pr'[q] = pr[q]) /\ pr \in [Procs -> Process]
  BY OthersLemma DEF IInv, Types
<1>1. ASSUME UNCHANGED <<shm, torn>>, pr'[p].pc \notin WritePcs PROVE Content'
  BY <1>0, <1>1, ContentKept
<1>2. CASE Call(p)
  <2>1. PICK op \in {"init_dir", "rm_dir", "get", "delete", "set"} :
           \E n, v : Start(p, op, n, v)
    BY <1>2, Zenon DEF Call
  <2>2. pr'[p].pc \in {"i_shmget", "r_shmget", "attach"}
    BY <1>0, <2>1 DEF Start, Frame
  <2> QED
    BY <1>1, <2>1, <2>2 DEF Start, ipc
<1>3. CASE attach_directory(p) \/ ensure_semaphore(p) \/ CleanupShmget(p) \/ CleanupSemget(p)
  <2>1. UNCHANGED <<shm, torn>>
    BY <1>3 DEF attach_directory, ensure_semaphore, CleanupShmget, CleanupSemget, ipc, count
  <2>2. pr'[p].pc \notin WritePcs
    BY <1>0, <1>3 DEF attach_directory, ensure_semaphore, CleanupShmget,
       CleanupSemget, Return, Idle, Frame, Process
  <2> QED
    BY <1>1, <2>1, <2>2
<1>4. CASE Lock(p) \/ Unlock(p) \/ InitSetval(p)
  <2>1. UNCHANGED <<shm, torn>>
    BY <1>4 DEF Lock, Unlock, InitSetval, count
  <2>2. pr'[p].pc \notin WritePcs
    BY <1>0, <1>4 DEF Lock, TakeLock, Unlock, InitSetval, Return, Idle, Frame, Process
  <2> QED
    BY <1>1, <2>1, <2>2
<1>5. CASE InitSemget(p) \/ CleanupSem(p)
  <2>1. UNCHANGED <<shm, torn>>
    BY <1>5 DEF InitSemget, CleanupSem, ipc, count
  <2>2. pr'[p].pc \notin WritePcs
    BY <1>0, <1>5 DEF InitSemget, CleanupSem, Return, Idle, Frame, Process
  <2> QED
    BY <1>1, <2>1, <2>2
<1> QED
  BY <1>2, <1>3, <1>4, <1>5, ContentScan, ContentWrites, ContentKill, ContentMemset,
     ContentShmget, ContentCleanupShm DEF Step

\* WInv is inductive relative to IInv.
LEMMA NextWInv == IInv /\ WInv /\ [Next]_vars => WInv'
<1> SUFFICES ASSUME IInv, WInv, [Next]_vars, orderly', ~half' PROVE KeysFit' /\ Content'
  BY DEF WInv
<1>1. CASE UNCHANGED vars
  BY <1>1 DEF vars, WInv, KeysFit, Content
<1>2. ASSUME NEW p \in Procs, Call(p) \/ Step(p) \/ Kill(p)
      PROVE  KeysFit' /\ Content'
  <2>1. orderly
    BY <1>2, OthersLemma
  <2>2. ~half /\ ~(Kill(p) /\ pc(p) = "r_rmsem")
    <3>1. CASE Kill(p)
      <4>1. half' = (half \/ pc(p) = "r_rmsem")
        BY <3>1 DEF Kill
      <4> QED
        BY <4>1, Zenon
    <3>2. CASE Call(p) /\ ~Kill(p)
      <4>1. half' = half
        BY <3>2 DEF Call, Start
      <4> QED
        BY <3>2, <4>1, Zenon
    <3>3. CASE Step(p) /\ ~Kill(p)
      <4>1. half' = half
        BY <3>3 DEF Step, InitShmget, InitMemset, InitSemget, InitSetval, CleanupShmget,
           CleanupSemget, CleanupShm, CleanupSem, attach_directory, ensure_semaphore,
           Lock, Scan, WriteName, WriteValue, WriteInUse, Unlock, count
      <4> QED
        BY <3>3, <4>1, Zenon
    <3> QED
      BY <1>2, <3>1, <3>2, <3>3
  <2> QED
    BY <1>2, <2>1, <2>2, KeysStep, ContentStep DEF WInv
<1> QED
  BY <1>1, <1>2 DEF Next

\* There is no segment at first.
LEMMA InitWInv == Init => WInv
  BY DEF Init, WInv, KeysFit, Content, Filling, Idle, Frame

\* For any number of processes, names, slots and kills: an entry in use has a
\* whole name and a value, torn only if an update was killed, and a name that
\* was not cut is in use once.
THEOREM EntriesStayWhole == Spec => []EntriesWhole
<1>1. IInv /\ WInv => EntriesWhole
  BY DEF IInv, Types, WInv, Content, SegmentWhole, EntriesWhole, InUse
<1>2. Spec => [](IInv /\ WInv)
  BY InitIInv, NextIInv, InitWInv, NextWInv, PTL DEF Spec
<1> QED
  BY <1>1, <1>2, PTL
=============================================================================
