------------------------------ MODULE LockFile ------------------------------
(***************************************************************************)
(* simple_lockfile.c (chapter 55): a command that creates one or several   *)
(* lock files with O_EXCL, retries, removes files older than a timeout,    *)
(* and removes what it created when it fails or is interrupted.  A command *)
(* that succeeds leaves its files behind for the script that called it,    *)
(* which removes them when it is done.                                     *)
(***************************************************************************)
EXTENDS Integers, Sequences

CONSTANTS LockFiles, Lockers,
          LockCalls      \* functions from Lockers to calls, or <<>>: nobody runs

VARIABLES
    lfcall,    \* the calls, one of LockCalls
    lockf,     \* lock file -> the locker that created it, 0: no such file
    lfold,     \* the files whose modification time is before the timeout
    lf,        \* locker -> its state
    forced,    \* the files ever removed by force, or twice, by main and handler
    missed     \* the files a handler did not find in the list

lfvars == <<lfcall, lockf, lfold, lf, forced, missed>>

\* main()'s arguments: the files in order, -r retries, and whether -l is given.
LockCall(files, retries, timeout) == [files |-> files, retries |-> retries, timeout |-> timeout]

\* A dead locker's file, from before everybody starts.
Dead == -1

LfInit == /\ lfcall \in LockCalls
          /\ lockf \in [LockFiles -> IF lfcall = <<>> THEN {0} ELSE {0, Dead}]
          /\ lfold = {f \in LockFiles : lockf[f] = Dead}
          /\ lf = [p \in Lockers |-> [pc |-> "off", i |-> 1, attempts |-> 0,
                                      created |-> <<>>, undo |-> 1]]
          /\ forced = {} /\ missed = {}

LfAt(p, pc) == lfcall # <<>> /\ lf[p].pc = pc
LfTo(p, pc) == lf' = [lf EXCEPT ![p].pc = pc]
Retries(p)  == lfcall[p].retries
TheFile(p)  == lfcall[p].files[lf[p].i]
Unlink(f)   == lockf' = [lockf EXCEPT ![f] = 0] /\ lfold' = lfold \ {f}
Listed(p)   == {lf[p].created[k] : k \in 1 .. Len(lf[p].created)}

StartLocking(p) == /\ LfAt(p, "off")
                   /\ LfTo(p, "try")
                   /\ UNCHANGED <<lfcall, lockf, lfold, forced, missed>>

\* The while condition, then open(O_CREAT | O_EXCL).  Any other error ends the
\* command.
try_create_lockfile(p) ==
    /\ LfAt(p, "try")
    /\ \/ /\ lf[p].i > Len(lfcall[p].files) /\ LfTo(p, "free")
          /\ UNCHANGED <<lockf, lfold>>
       \/ /\ lf[p].i <= Len(lfcall[p].files)
          /\ \/ LfTo(p, "fail") /\ UNCHANGED <<lockf, lfold>>
             \/ /\ Retries(p) = -1 \/ lf[p].attempts < Retries(p)
                /\ IF lockf[TheFile(p)] = 0
                   THEN /\ lockf' = [lockf EXCEPT ![TheFile(p)] = p]
                        /\ LfTo(p, "add") /\ UNCHANGED lfold
                   ELSE /\ LfTo(p, IF lfcall[p].timeout THEN "stale" ELSE "count")
                        /\ UNCHANGED <<lockf, lfold>>
    /\ UNCHANGED <<lfcall, forced, missed>>

add_created_file(p) ==
    /\ LfAt(p, "add")
    /\ lf' = [lf EXCEPT ![p].created = Append(@, TheFile(p)), ![p].i = @ + 1,
                        ![p].attempts = 0, ![p].pc = "try"]
    /\ UNCHANGED <<lfcall, lockf, lfold, forced, missed>>

is_stale_lockfile(p) ==
    /\ LfAt(p, "stale")
    /\ LfTo(p, IF TheFile(p) \in lfold THEN "force" ELSE "count")
    /\ UNCHANGED <<lfcall, lockf, lfold, forced, missed>>

\* unlink() of whatever has the name by now, or a permission error.
ForceLock(p) ==
    /\ LfAt(p, "force")
    /\ \/ Unlink(TheFile(p)) /\ forced' = forced \cup {TheFile(p)} /\ LfTo(p, "try")
       \/ LfTo(p, "fail") /\ UNCHANGED <<lockf, lfold, forced>>
    /\ UNCHANGED <<lfcall, missed>>

\* attempts is not counted for -r -1, where nothing reads it.
GiveUpOrSleep(p) ==
    /\ LfAt(p, "count")
    /\ IF Retries(p) = -1 THEN LfTo(p, "try")
       ELSE lf' = [lf EXCEPT ![p].attempts = @ + 1,
                             ![p].pc = IF lf[p].attempts + 1 >= Retries(p) THEN "fail" ELSE "try"]
    /\ UNCHANGED <<lfcall, lockf, lfold, forced, missed>>

\* Mutant: the first file is forgotten when a command fails.
RemoveCreated_ButFirst(p) ==
    /\ LfAt(p, "fail")
    /\ IF lf[p].undo + 1 <= Len(lf[p].created)
       THEN Unlink(lf[p].created[lf[p].undo + 1]) /\ lf' = [lf EXCEPT ![p].undo = @ + 1]
       ELSE LfTo(p, "failed") /\ UNCHANGED <<lockf, lfold>>
    /\ UNCHANGED <<lfcall, forced, missed>>

\* A command that failed removes its files one by one.
RemoveCreated(p) ==
    /\ LfAt(p, "fail")
    /\ IF lf[p].undo <= Len(lf[p].created)
       THEN Unlink(lf[p].created[lf[p].undo]) /\ lf' = [lf EXCEPT ![p].undo = @ + 1]
       ELSE LfTo(p, "failed") /\ UNCHANGED <<lockf, lfold>>
    /\ UNCHANGED <<lfcall, forced, missed>>

\* The list is freed; main() returns.
Return(p) == /\ LfAt(p, "free")
             /\ LfTo(p, "held")
             /\ UNCHANGED <<lfcall, lockf, lfold, forced, missed>>

\* SIGINT or SIGTERM at any step of the command.  While a failing command is at
\* its own unlink() calls the handler makes them again.  After the list was
\* freed the handler finds the names or garbage in it.
cleanup_and_exit(p) ==
    /\ lfcall # <<>>
    /\ lf[p].pc \in {"try", "add", "stale", "force", "count", "fail", "free"}
    /\ \E names \in IF LfAt(p, "free") THEN {{}, Listed(p)} ELSE {Listed(p)} :
         /\ lockf' = [f \in LockFiles |-> IF f \in names THEN 0 ELSE lockf[f]]
         /\ lfold' = lfold \ names
         /\ missed' = missed \cup (Listed(p) \ names)
                              \cup (IF LfAt(p, "add") THEN {TheFile(p)} ELSE {})
    /\ forced' = forced \cup {lf[p].created[k] : k \in 1 .. lf[p].undo - 1}
    /\ LfTo(p, "failed")
    /\ UNCHANGED lfcall

\* The script that called a successful command removes the files.
RemoveLocks(p) ==
    /\ LfAt(p, "held")
    /\ lockf' = [f \in LockFiles |-> IF f \in Listed(p) THEN 0 ELSE lockf[f]]
    /\ lfold' = lfold \ Listed(p)
    /\ LfTo(p, "done")
    /\ UNCHANGED <<lfcall, forced, missed>>

\* A file grows older than the timeout.
FileAges(f) == /\ lfcall # <<>> /\ lockf[f] # 0 /\ f \notin lfold
               /\ lfold' = lfold \cup {f}
               /\ UNCHANGED <<lfcall, lockf, lf, forced, missed>>

LfStep(p) == \/ try_create_lockfile(p) \/ add_created_file(p) \/ is_stale_lockfile(p)
             \/ ForceLock(p) \/ GiveUpOrSleep(p) \/ RemoveCreated(p) \/ Return(p)
             \/ RemoveLocks(p)

LfNext == \/ \E p \in Lockers : StartLocking(p) \/ LfStep(p) \/ cleanup_and_exit(p)
          \/ \E f \in LockFiles : FileAges(f)

LfFairness == \A p \in Lockers : WF_lfvars(LfStep(p))
-----------------------------------------------------------------------------
LfTypeOK ==
    /\ lockf \in [LockFiles -> Lockers \cup {0, Dead}]
    /\ lfold \subseteq {f \in LockFiles : lockf[f] # 0}
    /\ lfcall # <<>> => \A p \in Lockers :
         /\ lf[p].i \in 1 .. Len(lfcall[p].files) + 1
         /\ lf[p].created = SubSeq(lfcall[p].files, 1, lf[p].i - 1)

Holds(p, f) == \/ lf[p].pc \notin {"fail", "failed", "done"} /\ f \in Listed(p)
               \/ lf[p].pc = "add" /\ f = TheFile(p)

\* A lock that nobody forced or removed twice belongs to one command at a time and its file is
\* there for as long; a command that failed, whatever other commands did
\* meanwhile, leaves none of its files behind, but for those a signal caught
\* before add_created_file() or after the list was freed.
LockFilesSafe ==
    /\ \A p \in Lockers, f \in LockFiles \ forced : Holds(p, f) => lockf[f] = p
    /\ \A f \in LockFiles : lockf[f] \in Lockers =>
         \/ f \in missed
         \/ lf[lockf[f]].pc \notin {"failed", "done"}

\* Who retries a bounded number of times and forces nothing; and calls that
\* name their files in a common order, with no file of a dead command around.
Bounded(p) == Retries(p) >= 0 /\ ~lfcall[p].timeout
Ordered == /\ \A f \in LockFiles : lockf[f] # Dead
           /\ \A p \in Lockers : \A i, j \in 1 .. Len(lfcall[p].files) :
                i < j => lfcall[p].files[i] < lfcall[p].files[j]

\* Such a command ends, with its locks or without: nobody waits for ever for a
\* lock whose owner is gone, or in a circle (the retry loop, lines 147-198).
LockEnds(p) ==
    (lfcall # <<>> /\ lf[p].pc # "off" /\ (Ordered \/ Bounded(p)))
        ~> (lf[p].pc \in {"done", "failed"} \/ missed # {})
=============================================================================
