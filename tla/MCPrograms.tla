----------------------------- MODULE MCPrograms -----------------------------
(***************************************************************************)
(* The single programs: transfers and locks, the allocator, the tools that *)
(* carry bytes, the programs that wait for signals, the programs around    *)
(* pipes and the directory watch.  A behaviour runs the programs of one of *)
(* the modules: no two of them share anything, so the others stay idle.    *)
(***************************************************************************)
EXTENDS Transfer, LockFile, NpipeSem, FileLocks, Malloc, TextTools, Wakeups, Pipes, Watch

MCTransfers == AllTransfers \cup {<<>>}
MCLockCalls == {<<>>,
                <<LockCall(<<1, 2>>, -1, FALSE), LockCall(<<1, 2>>, 2, FALSE)>>,
                <<LockCall(<<1, 2>>, -1, FALSE), LockCall(<<2, 1>>, 1, FALSE)>>,
                <<LockCall(<<1>>, -1, TRUE), LockCall(<<1, 2>>, -1, TRUE)>>,
                <<LockCall(<<1, 2>>, 0, FALSE), LockCall(<<2>>, 1, TRUE)>>}
MCFlScenarios == {<<>>, 1 :> flock_inheritance(2), 1 :> flock_deadlock(2),
                  1 :> mandatory_deadlock_test(2, 3),
                  1 :> t_flock("SH", FALSE) @@ 2 :> t_flock("EX", FALSE) @@ 3 :> t_flock("SH", TRUE),
                  1 :> lock_acquirer @@ 2 :> lock_tester,
                  1 :> i_fcntl_locking @@ 2 :> i_fcntl_locking}
MCCommands == {SetLk("EX", {0}, TRUE), SetLk("EX", {1}, TRUE), SetLk("SH", {0, 1}, FALSE),
               SetLk("UN", {0, 1}, FALSE)}

Texts(S, k) == UNION {[1 .. i -> S] : i \in 0 .. k}
MCJobs ==
    {<<>>}
    \cup {readLine(d, n) : d \in Texts({"a", NL}, 4), n \in 2 .. 3}
    \cup {readLineBuf(d, n) : d \in Texts({"a", NL}, 5), n \in 3 .. 4}
    \cup {tail(d, n, 2) : d \in Texts({"a", NL}, 5), n \in 1 .. 2}
    \cup {naive_tail(d, n) : d \in Texts({"a", NL}, 4), n \in 1 .. 2}
    \cup {us_sendfile(d, n, o) : d \in {<<>>, <<"a", "b">>, <<"a", "b", "c", "d">>}, n \in 0 .. 5,
                                 o \in {AtFilePos, 0, 1}}
    \cup {readn(<<"a", "b", "c">>, n) : n \in {1, 4}}
    \cup {script_ts(d) : d \in Texts({"a", "n", NL, "\r", "\\"}, 4)}
MCWaiters == {<<>>, self_pipe(TRUE), self_pipe(FALSE), select_self_pipe(TRUE),
              select_self_pipe(FALSE), mq_notify_sig, mq_notify_sig_mod, mq_notify_sig_mod2,
              fork_sig_sync, fork_sig_sync_mod, fork_sem_sync}
MCPipePrograms == {<<>>, popen(<<"w", "r">>), popen(<<"w", "f">>),
                   uppercase(<<"a", "1", "b", "a">>), msgq_select, one_time}

MCPlaces == "d" :> Root @@ "f" :> "d" @@ "g" :> Out @@ "e" :> Absent

VARIABLE scene   \* the module whose programs run

hvars == <<xvars, lfvars, npvars, flvars>>                          \* transfers and locks
pvars == <<mallocvars, textvars, wakevars, pipevars, watchvars>>    \* the others

ProgramsInit ==
    /\ scene \in {"transfer", "lockfile", "npipe", "filelocks",
                  "malloc", "text", "wakeups", "pipes", "watch"}
    /\ XfrInit   /\ (scene = "transfer")  = (xprog # <<>>)
    /\ LfInit    /\ (scene = "lockfile")  = (lfcall # <<>>)
    /\ FlInit    /\ (scene = "filelocks") = (flrun # <<>>)
    /\ TextInit  /\ (scene = "text")      = (job # <<>>)
    /\ WakeInit  /\ (scene = "wakeups")   = (wk # <<>>)
    /\ PipesInit /\ (scene = "pipes")     = (pp # <<>>)
    /\ NpInit /\ MallocInit /\ WatchInit

HandoverNext ==
    /\ UNCHANGED pvars
    /\ \/ scene = "transfer"  /\ XfrNext /\ UNCHANGED <<lfvars, npvars, flvars>>
       \/ scene = "lockfile"  /\ LfNext  /\ UNCHANGED <<xvars, npvars, flvars>>
       \/ scene = "npipe"     /\ NpNext  /\ UNCHANGED <<xvars, lfvars, flvars>>
       \/ scene = "filelocks" /\ FlNext  /\ UNCHANGED <<xvars, lfvars, npvars>>

OtherNext ==
    /\ UNCHANGED hvars
    /\ \/ scene = "malloc"  /\ MallocNext /\ UNCHANGED <<textvars, wakevars, pipevars, watchvars>>
       \/ scene = "text"    /\ TextNext   /\ UNCHANGED <<mallocvars, wakevars, pipevars, watchvars>>
       \/ scene = "wakeups" /\ WakeNext   /\ UNCHANGED <<mallocvars, textvars, pipevars, watchvars>>
       \/ scene = "pipes"   /\ PipesNext  /\ UNCHANGED <<mallocvars, textvars, wakevars, watchvars>>
       \/ scene = "watch"   /\ WatchNext  /\ UNCHANGED <<mallocvars, textvars, wakevars, pipevars>>

ProgramsNext == UNCHANGED scene /\ (HandoverNext \/ OtherNext)

ProgramsSpec == /\ ProgramsInit /\ [][ProgramsNext]_<<scene, hvars, pvars>>
                /\ XfrFairness /\ LfFairness /\ NpFairness /\ FlFairness
                /\ WakeFairness /\ PipesFairness

\* The types of the variables of the nine modules.
ProgramsTypeOK == /\ XfrTypeOK /\ LfTypeOK /\ NpTypeOK /\ FlTypeOK
                  /\ MallocTypeOK /\ TextTypeOK /\ WakeTypeOK /\ PipesTypeOK /\ WatchTypeOK

\* No lock is held by two, none is left behind, none outlives or dies before
\* its last descriptor: lock files, FIFO semaphores, flock().
LocksSafe == LockFilesSafe /\ NpExclusive /\ ExpectationsMet

\* Nobody waits for a turn or a lock for ever, but for the cases each module names.
HandoverEnds == TransferEnds /\ (\A p \in Lockers : LockEnds(p)) /\ NpEnds /\ LockProgramsEnd

\* No signal, notification or created file is missed, no byte lost, no function
\* run twice, but for the cases each module names.
ProgramsSafe == WakeupsSafe /\ PipesSafe /\ WatchSafe

\* Nobody waits for ever, but for the cases each module names.
ProgramsEnd == WakeupsEnd /\ PipesEnd
=============================================================================
