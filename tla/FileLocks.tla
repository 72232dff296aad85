----------------------------- MODULE FileLocks -----------------------------
(***************************************************************************)
(* The programs of chapter 55 that use flock() and fcntl() locks, as the   *)
(* sequences of system calls they make.  A flock() lock belongs to an open *)
(* file description, which dup() and fork() share and open() makes anew;   *)
(* an fcntl() lock belongs to a process.  The kernel breaks a circle of    *)
(* fcntl() waiters with EDEADLK, and leaves a circle of flock() waiters.   *)
(***************************************************************************)
EXTENDS Integers, Sequences, FiniteSets, Functions, TLC

CONSTANTS FlProcs,        \* processes
          FlScenarios,    \* what runs together: process -> its calls, or <<>>
          Bytes,          \* the bytes of the file that fcntl() locks
          Commands,       \* what is typed into i_fcntl_locking
          MaxCommands     \* bound: commands typed into i_fcntl_locking

VARIABLES
    flrun,     \* the scenario
    code,      \* process -> the calls it has still to make
    fds,       \* process -> its descriptors: a function to open file descriptions
    ofd,       \* open file description -> [file, lock]
    rlock,     \* process -> [Bytes -> lock]
    waiter,    \* the processes blocked in a lock call
    surprise,  \* a call did not give what its program expects
    ncommands

flvars == <<flrun, code, fds, ofd, rlock, waiter, surprise, ncommands>>
-----------------------------------------------------------------------------
(* The calls.                                                              *)

Open(fd, file)       == [op |-> "open", fd |-> fd, file |-> file]
Dup(fd, new)         == [op |-> "dup", fd |-> fd, new |-> new]
Close(fd)            == [op |-> "close", fd |-> fd]
Flock(fd, kind)      == [op |-> "flock", fd |-> fd, kind |-> kind, nb |-> FALSE, expect |-> TRUE]
FlockNB(fd, kind, e) == [op |-> "flock", fd |-> fd, kind |-> kind, nb |-> TRUE, expect |-> e]
Fork(p, calls)       == [op |-> "fork", child |-> p, calls |-> calls]
Wait                 == [op |-> "wait"]
SetLk(kind, bytes, block) ==
    [op |-> "fcntl", kind |-> kind, bytes |-> bytes, block |-> block]
\* write() to a file with mandatory locking waits like a lock request.
Write(bytes)         == [op |-> "write", kind |-> "EX", bytes |-> bytes, block |-> TRUE]

(* The programs.                                                           *)

t_flock(kind, nb) == <<Open(1, "f"), IF nb THEN FlockNB(1, kind, TRUE) ELSE Flock(1, kind),
                       Flock(1, "UN")>>

deadlock_test(first, second) == <<Open(1, first), Open(2, second), Flock(1, "EX"),
                                  Flock(2, "EX"), Flock(1, "UN"), Flock(2, "UN"),
                                  Close(1), Close(2)>>
flock_deadlock(child) == <<Fork(child, deadlock_test("g", "f"))>>
                           \o deadlock_test("f", "g") \o <<Wait>>

do_test(lock, write) == <<Open(1, "f"), SetLk("EX", {lock}, TRUE), Write({write}), Close(1)>>
mandatory_deadlock_test(p2, p3) == <<Fork(p2, do_test(1, 0)), Fork(p3, do_test(2, 1))>>
                                     \o do_test(0, 2) \o <<Wait>>

flock_inheritance(child) ==
    <<Open(1, "f"), Flock(1, "EX"), Dup(1, 2), Flock(2, "UN"), Close(1), Close(2),
      Open(1, "f"), Open(2, "f"), Flock(1, "EX"), FlockNB(2, "EX", FALSE), Close(1), Close(2),
      Open(1, "f"), Flock(1, "EX"), Fork(child, <<Flock(1, "UN")>>), Wait, Close(1),
      Open(1, "f"), Dup(1, 2), Flock(1, "EX"), Close(1),
      Fork(child, <<Open(3, "f"), FlockNB(3, "EX", FALSE)>>), Wait, Close(2),
      Fork(child, <<Open(3, "f"), FlockNB(3, "EX", TRUE)>>), Wait>>

\* The acquirer keeps its locks: it never returns from its last sleep().
lock_acquirer == <<Open(1, "f"), SetLk("EX", {0}, FALSE), SetLk("EX", {2}, FALSE),
                   [op |-> "sleep"]>>
\* A tester that got the lock gives it back before it tries again.
lock_tester   == <<Open(1, "f"), SetLk("EX", {2}, FALSE), SetLk("UN", {2}, FALSE),
                   SetLk("EX", {2}, FALSE), SetLk("UN", {2}, FALSE), Close(1)>>

\* The commands of i_fcntl_locking: one is typed, carried out, and the next read.
i_fcntl_locking == <<[op |-> "command"]>>
-----------------------------------------------------------------------------
FlInit == /\ flrun \in FlScenarios
          /\ code = [p \in FlProcs |-> IF p \in DOMAIN flrun THEN flrun[p] ELSE <<>>]
          /\ fds = [p \in FlProcs |-> <<>>] /\ ofd = <<>>
          /\ rlock = [p \in FlProcs |-> [b \in Bytes |-> "UN"]]
          /\ waiter = {} /\ surprise = FALSE /\ ncommands = 0

Makes(p, op) == code[p] # <<>> /\ Head(code[p]).op = op
This(p)     == Head(code[p])
Advance(p)  == code' = [code EXCEPT ![p] = Tail(@)]

Conflict(a, b) == a # "UN" /\ b # "UN" /\ (a = "EX" \/ b = "EX")

\* The open file descriptions that some descriptor still refers to.
Referred(d) == UNION {Range(d[p]) : p \in FlProcs}
SetFds(d, o) == fds' = d /\ ofd' = Restrict(o, Referred(d))

FlOpen(p) ==
    /\ Makes(p, "open") /\ Advance(p)
    /\ LET new == CHOOSE n \in 1 .. 9 : n \notin DOMAIN ofd
       IN SetFds([fds EXCEPT ![p] = (This(p).fd :> new) @@ @],
                 (new :> [file |-> This(p).file, lock |-> "UN"]) @@ ofd)
    /\ UNCHANGED <<flrun, rlock, waiter, surprise, ncommands>>

FlDup(p) == /\ Makes(p, "dup") /\ Advance(p)
            /\ SetFds([fds EXCEPT ![p] = (This(p).new :> @[This(p).fd]) @@ @], ofd)
            /\ UNCHANGED <<flrun, rlock, waiter, surprise, ncommands>>

\* close() of any descriptor of the file also frees the process's fcntl() locks.
FlClose(p) == /\ Makes(p, "close") /\ Advance(p)
              /\ SetFds([fds EXCEPT ![p] = Restrict(@, DOMAIN @ \ {This(p).fd})], ofd)
              /\ rlock' = [rlock EXCEPT ![p] = [b \in Bytes |-> "UN"]]
              /\ UNCHANGED <<flrun, waiter, surprise, ncommands>>

\* Whom a flock() of an open file description waits for.
FlockHeld(o, kind) == \E x \in DOMAIN ofd \ {o} :
                         ofd[x].file = ofd[o].file /\ Conflict(kind, ofd[x].lock)

flock(p) ==
    /\ Makes(p, "flock")
    /\ LET c == This(p)  o == fds[p][c.fd]  busy == FlockHeld(o, c.kind)
       IN \/ /\ ~busy /\ Advance(p) /\ waiter' = waiter \ {p}
             /\ ofd' = [ofd EXCEPT ![o].lock = c.kind]
             /\ surprise' = (surprise \/ ~c.expect)
          \/ /\ busy /\ c.nb /\ Advance(p)
             /\ surprise' = (surprise \/ c.expect) /\ UNCHANGED <<ofd, waiter>>
          \/ /\ busy /\ ~c.nb /\ p \notin waiter /\ waiter' = waiter \cup {p}
             /\ UNCHANGED <<code, ofd, surprise>>
    /\ UNCHANGED <<flrun, fds, rlock, ncommands>>

\* Whom an fcntl() request waits for, and whom they wait for in turn.
RequestHeld(p) == {q \in FlProcs \ {p} : \E b \in This(p).bytes : Conflict(This(p).kind, rlock[q][b])}
WaitsFor(p)    == IF p \in waiter /\ code[p] # <<>> /\ This(p).op \in {"fcntl", "write"}
                  THEN RequestHeld(p) ELSE {}
Chain(S)       == S \cup UNION {WaitsFor(q) : q \in S}
Circle(p)      == p \in Chain(Chain(RequestHeld(p)))

fcntl(p) ==
    /\ Makes(p, "fcntl") \/ Makes(p, "write")
    /\ LET c == This(p)  busy == RequestHeld(p) # {}
       IN \/ /\ ~busy /\ Advance(p) /\ waiter' = waiter \ {p}
             /\ rlock' = IF c.op = "write" THEN rlock
                         ELSE [rlock EXCEPT ![p] = [b \in Bytes |->
                                 IF b \in c.bytes THEN c.kind ELSE @[b]]]
          \/ /\ busy /\ (~c.block \/ (p \notin waiter /\ Circle(p)))
             /\ Advance(p) /\ UNCHANGED <<rlock, waiter>>
          \/ /\ busy /\ c.block /\ p \notin waiter /\ ~Circle(p)
             /\ waiter' = waiter \cup {p} /\ UNCHANGED <<code, rlock>>
    /\ UNCHANGED <<flrun, fds, ofd, surprise, ncommands>>

FlFork(p) == /\ Makes(p, "fork")
             /\ code' = [code EXCEPT ![p] = Tail(@), ![This(p).child] = This(p).calls]
             /\ SetFds([fds EXCEPT ![This(p).child] = fds[p]], ofd)
             /\ UNCHANGED <<flrun, rlock, waiter, surprise, ncommands>>

\* A process that has made its last call exits: its locks go.
FlExit(p) == /\ code[p] = <<>> /\ (fds[p] # <<>> \/ rlock[p] # [b \in Bytes |-> "UN"])
             /\ SetFds([fds EXCEPT ![p] = <<>>], ofd)
             /\ rlock' = [rlock EXCEPT ![p] = [b \in Bytes |-> "UN"]]
             /\ UNCHANGED <<flrun, code, waiter, surprise, ncommands>>

\* The others of a scenario with fork() are children.
FlWait(p) == /\ Makes(p, "wait") /\ Advance(p)
             /\ \A q \in FlProcs \ DOMAIN flrun : code[q] = <<>> /\ fds[q] = <<>>
             /\ UNCHANGED <<flrun, fds, ofd, rlock, waiter, surprise, ncommands>>

\* GETLK changes nothing and is left out; the end of the input exits.
ReadCommand(p) ==
    /\ Makes(p, "command")
    /\ \/ /\ ncommands < MaxCommands /\ ncommands' = ncommands + 1
          /\ \E c \in Commands : code' = [code EXCEPT ![p] = <<c>> \o @]
       \/ Advance(p) /\ UNCHANGED ncommands
    /\ UNCHANGED <<flrun, fds, ofd, rlock, waiter, surprise>>

FlStep(p) == \/ FlOpen(p) \/ FlDup(p) \/ FlClose(p) \/ flock(p) \/ fcntl(p) \/ FlFork(p)
             \/ FlExit(p) \/ FlWait(p) \/ ReadCommand(p)

FlNext == \E p \in FlProcs : FlStep(p)

FlFairness == \A p \in FlProcs : WF_flvars(FlStep(p))
-----------------------------------------------------------------------------
FlTypeOK == /\ \A p \in FlProcs : Range(fds[p]) \subseteq DOMAIN ofd
            /\ rlock \in [FlProcs -> [Bytes -> {"UN", "SH", "EX"}]]
            /\ waiter \subseteq {p \in FlProcs : code[p] # <<>>}

\* Two flock() callers, each waiting for what the other one holds.
FlockCircle == \E p, q \in waiter : p # q /\ \A x \in {p, q} : Makes(x, "flock")
Sleeps(p)   == Makes(p, "sleep")

\* Every locking program ends, in any interleaving with the others of its
\* scenario: but for lock_acquirer, which sleeps, whom it locks out, and the
\* two processes of flock_deadlock when they meet.
LockProgramsEnd ==
    flrun # <<>> ~> (FlockCircle \/ \A p \in FlProcs : code[p] = <<>> \/ Sleeps(p))

\* What flock_inheritance prints as SUCCESS is what it finds: no interleaving of
\* it with its children makes a lock outlive its last descriptor or die before.
ExpectationsMet == DOMAIN flrun = {1} => ~surprise
=============================================================================
