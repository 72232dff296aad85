----------------------------- MODULE DirService -----------------------------
(***************************************************************************)
(* chapter_48/dir_service: a directory of name-value pairs in a System V   *)
(* shared memory segment, guarded by a System V semaphore whose operations *)
(* carry SEM_UNDO.  Each of the commands set, get, delete, init_dir and    *)
(* rm_dir is a process that makes one call and may be killed at any step.  *)
(***************************************************************************)
EXTENDS Integers, Sequences, FiniteSets

CONSTANTS Procs, NULL,
          Names, Values,  \* strings: [id, len], the same id having the same
                          \* characters as far as both go
          NAME_LEN, MAX_ENTRIES,
          TORN,           \* a string that was being written when its writer died
          MaxIds,         \* the system's limit on objects of each kind
          MaxCalls, MaxKills   \* bounds: calls made and processes killed

ASSUME DirAssumption == /\ NAME_LEN \in Nat \ {0} /\ MAX_ENTRIES \in Nat \ {0}
                        /\ MaxIds \in Nat /\ MaxCalls \in Nat /\ MaxKills \in Nat
                        /\ Names \subseteq [id : Nat, len : Nat]
                        /\ TORN \notin Values \cup [id : Nat, len : Nat]
                        /\ NULL \notin Values \cup Nat \cup {TORN}

VARIABLES
    orderly,  \* rm_dir runs alone, and one init_dir at a time
    shmKey, semKey,   \* the objects the keys name, NULL if none
    shm,      \* the segments made so far: [live, entries]
    sem,      \* the semaphores made so far: [live, val]
    pr,       \* the processes and their locals
    calls, kills,     \* calls and kills so far
    dead,     \* history: an init_dir was killed between semget() and SETVAL
    torn,     \* history: a dir_set() was killed while it updated a value
    half      \* history: an rm_dir was killed between its two removals

vars == <<orderly, shmKey, semKey, shm, sem, pr, calls, kills, dead, torn, half>>
ipc  == <<shmKey, semKey, shm, sem>>
count == <<orderly, calls, kills, dead, torn, half>>

Slots == 1 .. MAX_ENTRIES

\* The locals of a call that starts at l.
Frame(l, op, n, v) == [pc |-> l, op |-> op, name |-> n, value |-> v,
                       m |-> NULL, s |-> NULL, i |-> NULL, undo |-> 0]
Idle == Frame("idle", NULL, NULL, NULL)

\* memset() of the segment, and what a fresh segment holds.
Zeros == [i \in Slots |-> [name |-> NULL, value |-> NULL, in_use |-> FALSE]]

Init == /\ orderly \in BOOLEAN
        /\ shmKey = NULL /\ semKey = NULL
        /\ shm = <<>> /\ sem = <<>>
        /\ pr = [p \in Procs |-> Idle]
        /\ calls = 0 /\ kills = 0
        /\ dead = FALSE /\ torn = FALSE /\ half = FALSE

pc(p) == pr[p].pc
Goto(p, l) == pr' = [pr EXCEPT ![p].pc = l]
Return(p)  == pr' = [pr EXCEPT ![p] = Idle]

\* A command starts.
Start(p, op, n, v) ==
    /\ pc(p) = "idle" /\ calls < MaxCalls
    /\ orderly => \A q \in Procs : pc(q) # "idle" =>
                    /\ op # "rm_dir" /\ pr[q].op # "rm_dir"
                    /\ op = "init_dir" => pr[q].op # "init_dir"
    /\ LET l == CASE op = "init_dir" -> "i_shmget"
                  [] op = "rm_dir"   -> "r_shmget"
                  [] OTHER           -> "attach"
       IN  pr' = [pr EXCEPT ![p] = Frame(l, op, n, v)]
    /\ calls' = calls + 1
    /\ UNCHANGED <<ipc, orderly, kills, dead, torn, half>>
-----------------------------------------------------------------------------
(* dir_init()                                                              *)

InitShmget(p) ==
    /\ pc(p) = "i_shmget"
    /\ \/ shmKey # NULL /\ Goto(p, "i_semget") /\ UNCHANGED ipc   \* EEXIST
       \/ /\ shmKey = NULL /\ Len(shm) < MaxIds
          /\ shm' = Append(shm, [live |-> TRUE, entries |-> Zeros])
          /\ shmKey' = Len(shm')
          /\ pr' = [pr EXCEPT ![p].m = Len(shm'), ![p].pc = "i_memset"]
          /\ UNCHANGED <<semKey, sem>>
       \/ shmKey = NULL /\ Len(shm) = MaxIds /\ Return(p) /\ UNCHANGED ipc
    /\ UNCHANGED count

\* shmat(), which fails on a segment removed meanwhile, and memset().
InitMemset(p) ==
    /\ pc(p) = "i_memset"
    /\ IF shm[pr[p].m].live
       THEN shm' = [shm EXCEPT ![pr[p].m].entries = Zeros] /\ Goto(p, "i_semget")
       ELSE Return(p) /\ UNCHANGED shm
    /\ UNCHANGED <<shmKey, semKey, sem, count>>

\* A semaphore that exists gets its initial value again.
InitSemget_resets(p) ==
    /\ pc(p) = "i_semget"
    /\ \/ /\ semKey # NULL
          /\ pr' = [pr EXCEPT ![p].s = semKey, ![p].pc = "i_setval"]
          /\ UNCHANGED ipc
       \/ /\ semKey = NULL /\ Len(sem) < MaxIds
          /\ sem' = Append(sem, [live |-> TRUE, val |-> 0])
          /\ semKey' = Len(sem')
          /\ pr' = [pr EXCEPT ![p].s = Len(sem'), ![p].pc = "i_setval"]
          /\ UNCHANGED <<shmKey, shm>>
       \/ semKey = NULL /\ Len(sem) = MaxIds /\ Return(p) /\ UNCHANGED ipc
    /\ UNCHANGED count

\* A semaphore that exists is left as it is.
InitSemget(p) ==
    /\ pc(p) = "i_semget"
    /\ \/ semKey # NULL /\ Return(p) /\ UNCHANGED ipc             \* EEXIST
       \/ /\ semKey = NULL /\ Len(sem) < MaxIds
          /\ sem' = Append(sem, [live |-> TRUE, val |-> 0])
          /\ semKey' = Len(sem')
          /\ pr' = [pr EXCEPT ![p].s = Len(sem'), ![p].pc = "i_setval"]
          /\ UNCHANGED <<shmKey, shm>>
       \/ semKey = NULL /\ Len(sem) = MaxIds /\ Return(p) /\ UNCHANGED ipc
    /\ UNCHANGED count

InitSetval(p) ==
    /\ pc(p) = "i_setval"
    /\ IF sem[pr[p].s].live THEN sem' = [sem EXCEPT ![pr[p].s].val = 1]
                            ELSE UNCHANGED sem
    /\ Return(p)
    /\ UNCHANGED <<shmKey, semKey, shm, count>>
-----------------------------------------------------------------------------
(* dir_cleanup(): both identifiers first, then the segment, then the       *)
(* semaphore; failures are not looked at.                                  *)

CleanupShmget(p) == /\ pc(p) = "r_shmget"
                    /\ pr' = [pr EXCEPT ![p].m = shmKey, ![p].pc = "r_semget"]
                    /\ UNCHANGED <<ipc, count>>

CleanupSemget(p) == /\ pc(p) = "r_semget"
                    /\ pr' = [pr EXCEPT ![p].s = semKey, ![p].pc = "r_rmshm"]
                    /\ UNCHANGED <<ipc, count>>

CleanupShm(p) ==
    /\ pc(p) = "r_rmshm"
    /\ IF pr[p].m = NULL THEN UNCHANGED <<shm, shmKey>>
       ELSE /\ shm' = [shm EXCEPT ![pr[p].m].live = FALSE]
            /\ shmKey' = IF shmKey = pr[p].m THEN NULL ELSE shmKey
    /\ Goto(p, "r_rmsem")
    /\ UNCHANGED <<semKey, sem, count>>

CleanupSem(p) ==
    /\ pc(p) = "r_rmsem"
    /\ IF pr[p].s = NULL THEN UNCHANGED <<sem, semKey>>
       ELSE /\ sem' = [sem EXCEPT ![pr[p].s].live = FALSE]
            /\ semKey' = IF semKey = pr[p].s THEN NULL ELSE semKey
    /\ Return(p)
    /\ UNCHANGED <<shmKey, shm, count>>
-----------------------------------------------------------------------------
(* dir_set(), dir_get(), dir_delete()                                      *)

attach_directory(p) ==
    /\ pc(p) = "attach"
    /\ IF shmKey = NULL THEN Return(p)
       ELSE pr' = [pr EXCEPT ![p].m = shmKey, ![p].pc = "semget"]
    /\ UNCHANGED <<ipc, count>>

ensure_semaphore(p) ==
    /\ pc(p) = "semget"
    /\ IF semKey = NULL THEN Return(p)
       ELSE pr' = [pr EXCEPT ![p].s = semKey, ![p].pc = "lock"]
    /\ UNCHANGED <<ipc, count>>

\* The lock waits for the value but does not take it.
TakeLock_shared(p) == pr' = [pr EXCEPT ![p].pc = "scan"] /\ UNCHANGED sem

\* The lock without SEM_UNDO.
TakeLock_no_undo(p) ==
    /\ sem' = [sem EXCEPT ![pr[p].s].val = @ - 1]
    /\ pr' = [pr EXCEPT ![p].pc = "scan"]

\* The lock, and the kernel's note to give it back if the process dies.
TakeLock(p) ==
    /\ sem' = [sem EXCEPT ![pr[p].s].val = @ - 1]
    /\ pr' = [pr EXCEPT ![p].pc = "scan", ![p].undo = 1]

\* semop(sem_lock): waits for the value, fails when the semaphore is removed.
Lock(p) ==
    /\ pc(p) = "lock"
    /\ \/ /\ sem[pr[p].s].live /\ sem[pr[p].s].val > 0
          /\ TakeLock(p)
       \/ ~sem[pr[p].s].live /\ Return(p) /\ UNCHANGED sem
    /\ UNCHANGED <<shmKey, semKey, shm, count>>

\* strncpy() of NAME_LEN - 1 characters and a terminator.
Cut(n) == IF n.len < NAME_LEN THEN n ELSE [n EXCEPT !.len = NAME_LEN - 1]

Entries(p) == shm[pr[p].m].entries

First(S) == CHOOSE i \in S : \A j \in S : i <= j

\* The unused slot search does not look at in_use.
FreeSlots_any(p) == Slots

FreeSlots(p) == {i \in Slots : ~Entries(p)[i].in_use}

\* strncmp() of the stored name, which is cut, with the name asked for.
Hits(p) == {i \in Slots : Entries(p)[i].in_use /\ Entries(p)[i].name = pr[p].name}

\* The two loops, up to the first write.
Scan(p) ==
    /\ pc(p) = "scan"
    /\ \/ /\ Hits(p) # {}
          /\ pr' = [pr EXCEPT ![p].i = First(Hits(p)),
                       ![p].pc = CASE pr[p].op = "set"    -> "update"
                                   [] pr[p].op = "delete" -> "remove"
                                   [] OTHER               -> "unlock"]
       \/ /\ Hits(p) = {} /\ pr[p].op = "set" /\ FreeSlots(p) # {}
          /\ pr' = [pr EXCEPT ![p].i = First(FreeSlots(p)), ![p].pc = "name"]
       \/ /\ Hits(p) = {} /\ (pr[p].op # "set" \/ FreeSlots(p) = {})
          /\ Goto(p, "unlock")
    /\ UNCHANGED <<ipc, count>>

Write(p, f, x) == shm' = [shm EXCEPT ![pr[p].m].entries[pr[p].i][f] = x]

WriteName(p) ==
    /\ pc(p) = "name" /\ Write(p, "name", Cut(pr[p].name)) /\ Goto(p, "value")
    /\ UNCHANGED <<shmKey, semKey, sem, count>>

\* A new value, before the entry is in use, and the value of one that is.
WriteValue(p) ==
    /\ pc(p) \in {"value", "update"}
    /\ Write(p, "value", pr[p].value)
    /\ pr' = [pr EXCEPT ![p].pc = IF @ = "value" THEN "use" ELSE "unlock"]
    /\ UNCHANGED <<shmKey, semKey, sem, count>>

WriteInUse(p) ==
    /\ pc(p) \in {"use", "remove"}
    /\ Write(p, "in_use", pc(p) = "use") /\ Goto(p, "unlock")
    /\ UNCHANGED <<shmKey, semKey, sem, count>>

\* semop(sem_unlock), whose failure is not looked at, and shmdt().
Unlock(p) ==
    /\ pc(p) = "unlock"
    /\ IF sem[pr[p].s].live THEN sem' = [sem EXCEPT ![pr[p].s].val = @ + 1]
                            ELSE UNCHANGED sem
    /\ Return(p)
    /\ UNCHANGED <<shmKey, semKey, shm, count>>

\* The process is killed: SEM_UNDO gives back what it took, and a string it was
\* writing stays as it is.
Kill(p) ==
    /\ pc(p) # "idle" /\ kills < MaxKills
    /\ sem' = [i \in DOMAIN sem |->
                 IF i = pr[p].s /\ sem[i].live
                 THEN [sem[i] EXCEPT !.val = @ + pr[p].undo] ELSE sem[i]]
    /\ \/ UNCHANGED <<shm, torn>>
       \/ /\ pc(p) \in {"name", "value", "update"}
          /\ Write(p, IF pc(p) = "name" THEN "name" ELSE "value", TORN)
          /\ torn' = (torn \/ pc(p) = "update")
    /\ Return(p)
    /\ kills' = kills + 1
    /\ dead' = (dead \/ pc(p) = "i_setval")
    /\ half' = (half \/ pc(p) = "r_rmsem")
    /\ UNCHANGED <<shmKey, semKey, orderly, calls>>

Step(p) == \/ InitShmget(p) \/ InitMemset(p) \/ InitSemget(p) \/ InitSetval(p)
           \/ CleanupShmget(p) \/ CleanupSemget(p) \/ CleanupShm(p)
           \/ CleanupSem(p) \/ attach_directory(p) \/ ensure_semaphore(p)
           \/ Lock(p) \/ Scan(p) \/ WriteName(p) \/ WriteValue(p)
           \/ WriteInUse(p) \/ Unlock(p)

Call(p) == \/ Start(p, "init_dir", NULL, NULL) \/ Start(p, "rm_dir", NULL, NULL)
           \/ \E n \in Names : \/ Start(p, "get", n, NULL)
                               \/ Start(p, "delete", n, NULL)
                               \/ \E v \in Values : Start(p, "set", n, v)

Next == \E p \in Procs : Call(p) \/ Step(p) \/ Kill(p)

\* A process that can run does.
Spec == Init /\ [][Next]_vars /\ \A p \in Procs : WF_vars(Step(p))
-----------------------------------------------------------------------------
\* Keys and slots name what exists, and the semaphore is binary: no order of
\* locking, unlocking, initialising and dying takes it out of 0 and 1.
TypeOK ==
    /\ shmKey \in (1 .. Len(shm)) \cup {NULL}
    /\ semKey \in (1 .. Len(sem)) \cup {NULL}
    /\ \A i \in DOMAIN sem : sem[i].val \in 0 .. 1
    /\ \A i \in DOMAIN shm : DOMAIN shm[i].entries = Slots
    /\ \A p \in Procs : pr[p].i \in Slots \cup {NULL}

Inside == {p \in Procs : pc(p) \in {"scan", "name", "value", "update", "use",
                                    "remove", "unlock"}}

\* One process at a time works on the directory, although init_dir can race
\* the others and any of them can die anywhere, an rm_dir too, as long as
\* rm_dir runs alone, and one init_dir at a time (dir_service.h: "Must be
\* called once").
Exclusive == orderly => Cardinality(Inside) <= 1

InUse(m) == {i \in Slots : shm[m].entries[i].in_use}

\* An entry in use is whole (in_use is written last, so that a writer killed
\* half way leaves nothing visible; only an update may be cut short), and a
\* name that was not cut is in use once.
EntriesWhole == orderly /\ ~half => \A m \in DOMAIN shm :
    /\ \A i \in InUse(m) : /\ shm[m].entries[i].name # TORN
                           /\ shm[m].entries[i].value # NULL
                           /\ ~torn => shm[m].entries[i].value # TORN
    /\ \A i, j \in InUse(m) :
         /\ i # j /\ shm[m].entries[i].name = shm[m].entries[j].name
         => shm[m].entries[i].name.len >= NAME_LEN - 1

\* Every command ends, although lock holders are killed, unless an init_dir
\* died between creating the semaphore and giving it its value.
CommandsEnd == \A p \in Procs : pc(p) # "idle" ~> pc(p) = "idle" \/ dead
=============================================================================
