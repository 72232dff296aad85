------------------------------ MODULE NpipeSem ------------------------------
(***************************************************************************)
(* npipe_sem.c (chapter 47): a binary semaphore that is a token in a FIFO, *)
(* and npipe_sem_test.c, which forks children that reserve and release it. *)
(* A FIFO has a name, that unlink() takes from it, and bytes, that are     *)
(* lost when the last descriptor of it is closed.                          *)
(***************************************************************************)
EXTENDS Integers, FiniteSets

CONSTANTS NpTests,      \* runs of npipe_sem_test, {} for none
          N_PROCS,      \* children of each
          MaxNpKills    \* bound: children killed

VARIABLES
    nppath,    \* the FIFO that has the name, 0 for none
    token,     \* FIFO -> bytes in it
    np,        \* test -> [pc, fd, kids]: fd is sem.internal_fd
    kid,       \* test, child -> [pc, fd]
    overlap,   \* a test was started while another one, or its children, ran
    npkills

npvars == <<nppath, token, np, kid, overlap, npkills>>

Kids  == NpTests \X (1 .. N_PROCS)
Fifos == 1 .. Cardinality(NpTests)

NpInit == /\ nppath = 0 /\ token = [f \in Fifos |-> 0]
          /\ np = [t \in NpTests |-> [pc |-> "off", fd |-> 0, kids |-> 0]]
          /\ kid = [c \in Kids |-> [pc |-> "none", fd |-> 0]]
          /\ overlap = FALSE /\ npkills = 0

Alive(c) == kid[c].pc \notin {"none", "exit"}

\* Who can write to a FIFO: internal_fd is open for both in the test and, after
\* fork(), in its children.
CanWrite(m, k, f) == \E t \in NpTests :
    /\ m[t].fd = f
    /\ \/ m[t].pc \notin {"off", "end"}
       \/ \E i \in 1 .. N_PROCS : k[<<t, i>>].pc \notin {"none", "exit"}
IsOpen(m, k, f) == \/ CanWrite(m, k, f)
                   \/ \E c \in Kids : k[c].fd = f /\ k[c].pc \notin {"none", "exit"}

\* What is left in the FIFOs when processes are m and k.
Kept(tk, m, k) == [f \in Fifos |-> IF IsOpen(m, k, f) THEN tk[f] ELSE 0]

NpMoves(m, k, tk) == np' = m /\ kid' = k /\ token' = Kept(tk, m, k)
NpAt(t, pc)       == np[t].pc = pc
KidTo(c, pc)      == [kid EXCEPT ![c].pc = pc]

StartTest(t) ==
    /\ NpAt(t, "off")
    /\ overlap' = (overlap \/ (\E u \in NpTests : np[u].pc \notin {"off", "end"})
                           \/ (\E c \in Kids : Alive(c)))
    /\ np' = [np EXCEPT ![t].pc = "mkfifo"]
    /\ UNCHANGED <<nppath, token, kid, npkills>>

\* mkfifo(), or the FIFO that is there already; then open(O_RDWR), and a token,
\* "if write fails because token already present, it's OK": it never fails.
sem_init(t) ==
    /\ \/ /\ NpAt(t, "mkfifo")
          /\ nppath' = IF nppath # 0 THEN nppath
                       ELSE CHOOSE f \in Fifos : ~IsOpen(np, kid, f)
          /\ np' = [np EXCEPT ![t].pc = "open"]
          /\ UNCHANGED <<token, kid>>
       \/ /\ NpAt(t, "open")
          /\ np' = [np EXCEPT ![t] = [@ EXCEPT !.fd = nppath,
                                     !.pc = IF nppath = 0 THEN "end" ELSE "token"]]
          /\ UNCHANGED <<nppath, token, kid>>
       \/ /\ NpAt(t, "token")
          /\ NpMoves([np EXCEPT ![t].pc = "fork"], kid, [token EXCEPT ![np[t].fd] = @ + 1])
          /\ UNCHANGED nppath
    /\ UNCHANGED <<overlap, npkills>>

ForkKid(t) ==
    /\ NpAt(t, "fork")
    /\ IF np[t].kids < N_PROCS
       THEN /\ np' = [np EXCEPT ![t].kids = @ + 1]
            /\ kid' = KidTo(<<t, np[t].kids + 1>>, "open")
       ELSE np' = [np EXCEPT ![t].pc = "wait"] /\ UNCHANGED kid
    /\ UNCHANGED <<nppath, token, overlap, npkills>>

\* open(O_RDONLY) waits for a writer; without a name the child exits.
OpenForReserve(c) ==
    /\ kid[c].pc = "open"
    /\ IF nppath = 0 THEN NpMoves(np, KidTo(c, "exit"), token)
       ELSE /\ CanWrite(np, kid, nppath)
            /\ kid' = [kid EXCEPT ![c] = [pc |-> "read", fd |-> nppath]]
            /\ UNCHANGED <<np, token>>
    /\ UNCHANGED <<nppath, overlap, npkills>>

\* The token; or the end of the file, when nobody can write to it any more.
sem_reserve(c) ==
    /\ kid[c].pc = "read"
    /\ \/ /\ token[kid[c].fd] > 0
          /\ NpMoves(np, [kid EXCEPT ![c] = [pc |-> "inside", fd |-> 0]],
                     [token EXCEPT ![kid[c].fd] = @ - 1])
       \/ /\ token[kid[c].fd] = 0 /\ ~CanWrite(np, kid, kid[c].fd)
          /\ NpMoves(np, [kid EXCEPT ![c] = [pc |-> "exit", fd |-> 0]], token)
    /\ UNCHANGED <<nppath, overlap, npkills>>

\* The non-blocking call, for a child that leaves when it gets no token.
sem_try_reserve(c) ==
    /\ kid[c].pc = "open"
    /\ IF nppath # 0 /\ token[nppath] > 0
       THEN NpMoves(np, KidTo(c, "inside"), [token EXCEPT ![nppath] = @ - 1])
       ELSE NpMoves(np, KidTo(c, "exit"), token)
    /\ UNCHANGED <<nppath, overlap, npkills>>

\* open(O_WRONLY) waits for a reader, and every opener reads; then the token.
sem_release(c) ==
    /\ kid[c].pc = "inside"
    /\ IF nppath = 0 THEN NpMoves(np, KidTo(c, "exit"), token)
       ELSE /\ IsOpen(np, kid, nppath)
            /\ NpMoves(np, KidTo(c, "exit"), [token EXCEPT ![nppath] = @ + 1])
    /\ UNCHANGED <<nppath, overlap, npkills>>

\* wait() for every child, sem_destroy() and unlink().
sem_destroy(t) ==
    /\ \/ /\ NpAt(t, "wait") /\ \A i \in 1 .. N_PROCS : kid[<<t, i>>].pc = "exit"
          /\ NpMoves([np EXCEPT ![t].pc = "unlink", ![t].fd = 0], kid, token)
          /\ UNCHANGED nppath
       \/ /\ NpAt(t, "unlink") /\ np' = [np EXCEPT ![t].pc = "end"]
          /\ nppath' = 0 /\ UNCHANGED <<token, kid>>
    /\ UNCHANGED <<overlap, npkills>>

\* A child is killed, or the test, alone or with its children.
KillNp ==
    /\ npkills < MaxNpKills /\ npkills' = npkills + 1
    /\ \/ \E c \in Kids : Alive(c) /\ NpMoves(np, KidTo(c, "exit"), token)
       \/ \E t \in NpTests :
            /\ np[t].pc \notin {"off", "end"}
            /\ \E with \in BOOLEAN :
                 NpMoves([np EXCEPT ![t].pc = "end"],
                         [c \in Kids |-> IF with /\ c[1] = t THEN [pc |-> "exit", fd |-> 0]
                                                             ELSE kid[c]],
                         token)
    /\ UNCHANGED <<nppath, overlap>>

NpTestStep(t) == sem_init(t) \/ ForkKid(t) \/ sem_destroy(t)
NpKidStep(c)  == OpenForReserve(c) \/ sem_reserve(c) \/ sem_release(c)

NpNext == \/ \E t \in NpTests : StartTest(t) \/ NpTestStep(t)
          \/ \E c \in Kids : NpKidStep(c) \/ sem_try_reserve(c)
          \/ KillNp

NpFairness == /\ \A t \in NpTests : WF_npvars(NpTestStep(t))
              /\ \A c \in Kids : WF_npvars(NpKidStep(c))
-----------------------------------------------------------------------------
NpTypeOK == /\ nppath \in Fifos \cup {0}
            /\ token \in [Fifos -> 0 .. Cardinality(NpTests)]
            /\ \A t \in NpTests : np[t].fd \in Fifos \cup {0} /\ np[t].kids \in 0 .. N_PROCS

\* As long as one test runs at a time, one child at most is inside, whatever
\* an earlier test, killed at any step, left in the FIFO of that name
\* (npipe_sem.c lines 20-34).
NpExclusive == ~overlap => Cardinality({c \in Kids : kid[c].pc = "inside"}) <= 1

\* And then the test ends, if nobody is killed: no child waits for a token that
\* was lost with the FIFO's last descriptor.
NpEnds == \A t \in NpTests :
             (np[t].pc # "off") ~> (np[t].pc = "end" \/ npkills > 0 \/ overlap)
=============================================================================
