---------------------------- MODULE SeqnumServer ----------------------------
(***************************************************************************)
(* The servers that hand out ranges of sequence numbers and their clients: *)
(* over FIFOs (chapters 44 and 52), System V and POSIX message queues (46, *)
(* 52), UNIX domain and Internet stream sockets (57, 59).  They share one  *)
(* loop, read a request, answer, advance the number, and differ in how an  *)
(* answer travels, in what is kept in a file, and in what happens to a     *)
(* client that is gone.  prog says which pair of programs runs.            *)
(***************************************************************************)
EXTENDS Integers, Sequences, FiniteSets

CONSTANTS Programs,    \* the pairs of programs to choose from
          Clients,     \* pids of clients; a pid can be used again
          Lens,        \* lengths asked for; 0 stands for a bad request line
          NULL,
          QCAP,        \* messages a queue holds
          NOFILE,      \* descriptors left for save_seq()
          MAX_RETRIES,
          MaxReq, MaxDown, MaxDeaths   \* bounds: requests, ends of a server,
                                       \* clients that die

ASSUME SeqAssumption == /\ QCAP \in Nat \ {0} /\ NOFILE \in Nat
                        /\ MAX_RETRIES \in Nat /\ Lens \subseteq Nat
                        /\ MaxReq \in Nat /\ MaxDown \in Nat /\ MaxDeaths \in Nat
                        /\ NULL \notin Nat
                        /\ NULL \notin [pid : Clients, id : Nat, len : Nat \cup {NULL}]

VARIABLES
    prog,      \* the programs, one of Programs
    sv,        \* the server: [pc, seq, req, fds, tries]
    exists,    \* the well-known name or key exists
    file,      \* the sequence file: a number, or NULL when empty
    reqq,      \* requests on their way: [pid, id, len], len NULL until written
    cl,        \* clients: [pc, id, len]
    name,      \* clients' reply FIFOs or queues that exist
    inbox,     \* answers on their way to each pid
    eof,       \* the writer of the pid's FIFO or socket came and went
    printed,   \* history: the ranges clients printed
    reqs, downs, deaths,   \* counters for the bounds
    lapse,     \* history: a server ended with a number given and not saved
    reused,    \* history: a pid was used again before its old request was over
    gaveUp     \* history: the requests the server gave up on, the client alive

vars == <<prog, sv, exists, file, reqq, cl, name, inbox, eof, printed, reqs,
          downs, deaths, lapse, reused, gaveUp>>
history == <<printed, lapse, reused, gaveUp>>
bounds  == <<reqs, downs, deaths>>

\* What a pair of programs does of the steps below.
Pair(via, persist, handled, retry, early) ==
    [via |-> via,          \* "fifo", "svmsg", "pmq", "us" or "is"
     persist |-> persist,  \* the number is kept in seqfile
     handled |-> handled,  \* SIGINT and SIGTERM remove the server's FIFO
     retry |-> retry,      \* the client's FIFO is opened with O_NONBLOCK
     early |-> early]      \* the client opens its FIFO before it asks

fifo_seqnum_server        == Pair("fifo", FALSE, FALSE, FALSE, FALSE)
fifo_seqnum_server_mod    == Pair("fifo", TRUE,  FALSE, FALSE, FALSE)
fifo_seqnum_server_mod2   == Pair("fifo", TRUE,  TRUE,  FALSE, FALSE)
fifo_seqnum_server_mod3   == Pair("fifo", TRUE,  TRUE,  TRUE,  FALSE)
fifo_seqnum_client_mod    == Pair("fifo", TRUE,  TRUE,  TRUE,  TRUE)
msg_seqnum_server         == Pair("svmsg", FALSE, FALSE, FALSE, FALSE)
pmq_seqnum_server         == Pair("pmq", FALSE, FALSE, FALSE, FALSE)
us_seqnum_server          == Pair("us", FALSE, FALSE, FALSE, FALSE)
is_seqnum_sv              == Pair("is", FALSE, FALSE, FALSE, FALSE)
is_seqnum_sv_mod          == is_seqnum_sv    \* another buffer for the line
is_seqnum_sv_mod2         == is_seqnum_sv    \* and inetListen()

\* There are no others.
AllPrograms == {fifo_seqnum_server, fifo_seqnum_server_mod, fifo_seqnum_server_mod2,
                fifo_seqnum_server_mod3, fifo_seqnum_client_mod, msg_seqnum_server,
                pmq_seqnum_server, us_seqnum_server, is_seqnum_sv, is_seqnum_sv_mod,
                is_seqnum_sv_mod2}

ASSUME ProgramsAssumption == Programs \subseteq AllPrograms

Down == [pc |-> "down", seq |-> 0, req |-> NULL, fds |-> 0, tries |-> 0]
Gone == [pc |-> "none", id |-> 0, len |-> NULL]

Init == /\ prog \in Programs
        /\ sv = Down /\ exists = FALSE /\ file = NULL
        /\ reqq = <<>>
        /\ cl = [c \in Clients |-> Gone]
        /\ name = {}
        /\ inbox = [c \in Clients |-> <<>>]
        /\ eof = {}
        /\ printed = {} /\ reqs = 0 /\ downs = 0 /\ deaths = 0
        /\ lapse = FALSE /\ reused = FALSE /\ gaveUp = {}

Fifo == prog.via = "fifo"
Sock == prog.via \in {"us", "is"}

Waiting == {"sent", "opening"}

\* Messages in the one queue that msg_seqnum uses for both directions.
Queued == Len(reqq) + Cardinality(UNION {{c} \X (1 .. Len(inbox[c])) : c \in Clients})

\* Mutant: the one queue is taken for two.
Room_Two == IF prog.via \in {"svmsg", "pmq"} THEN exists /\ Len(reqq) < QCAP
                                              ELSE sv.pc # "down"

\* A request can be written: somebody reads the FIFO or listens, the queue
\* has room.
Room == CASE prog.via = "svmsg" -> exists /\ Queued < QCAP
          [] prog.via = "pmq"   -> exists /\ Len(reqq) < QCAP
          [] OTHER              -> sv.pc # "down"
-----------------------------------------------------------------------------
(* The clients.                                                            *)

\* A pid that still has a request, or an answer, from its former owner.
Leftover(c) == \/ inbox[c] # <<>>
               \/ \E i \in 1 .. Len(reqq) : reqq[i].pid = c
               \/ sv.req # NULL /\ sv.req.pid = c

\* mkfifo() or mq_open(O_CREAT) of the client's own FIFO or queue.  Sockets and
\* the System V queue need none.
ClientStart(c, n) ==
    /\ cl[c].pc = "none" /\ reqs < MaxReq
    /\ n > 0 \/ prog.via = "is"                               \* GN_GT_0
    /\ cl' = [cl EXCEPT ![c] = [pc |-> "start", id |-> reqs + 1, len |-> n]]
    /\ name' = IF prog.via \in {"fifo", "pmq"} THEN name \cup {c} ELSE name
    /\ eof' = eof \ {c}
    /\ reqs' = reqs + 1
    /\ reused' = (reused \/ Leftover(c))
    /\ UNCHANGED <<prog, sv, exists, file, reqq, inbox, printed, downs, deaths,
                   lapse, gaveUp>>

\* The server's FIFO loses its content when nobody has it open any more; clients
\* hold it until they exit.
Held(c) == reqq' = IF /\ Fifo /\ sv.pc = "down"
                      /\ \A d \in Clients \ {c} : cl[d].pc \notin Waiting
                   THEN <<>> ELSE reqq

\* The end of a client: atexit() removes its name, and what nobody has open
\* any more goes; messages in a System V queue stay.
Leave(c) == /\ cl' = [cl EXCEPT ![c] = Gone]
            /\ name' = name \ {c}
            /\ inbox' = IF prog.via = "svmsg" THEN inbox ELSE [inbox EXCEPT ![c] = <<>>]
            /\ Held(c)

\* connect(): the server accepts connections in their order.
ClientConnect(c) ==
    /\ Sock /\ cl[c].pc = "start" /\ sv.pc # "down"
    /\ reqq' = Append(reqq, [pid |-> c, id |-> cl[c].id, len |-> NULL])
    /\ cl' = [cl EXCEPT ![c].pc = "conn"]
    /\ UNCHANGED <<prog, sv, exists, file, name, inbox, eof, history, bounds>>

\* The request is written whole.
ClientSend(c) ==
    /\ \/ /\ Sock /\ cl[c].pc = "conn"
          /\ reqq' = [i \in 1 .. Len(reqq) |->
                        IF reqq[i].id = cl[c].id THEN [reqq[i] EXCEPT !.len = cl[c].len]
                                                 ELSE reqq[i]]
          /\ sv' = IF sv.req # NULL /\ sv.req.id = cl[c].id
                   THEN [sv EXCEPT !.req.len = cl[c].len] ELSE sv
       \/ /\ ~Sock /\ cl[c].pc = "start" /\ Room
          /\ reqq' = Append(reqq, [pid |-> c, id |-> cl[c].id, len |-> cl[c].len])
          /\ UNCHANGED sv
    /\ cl' = [cl EXCEPT ![c].pc = "sent"]
    /\ UNCHANGED <<prog, exists, file, name, inbox, eof, history, bounds>>

\* connect(), open(), msgget() or mq_open() fails when the server is not there:
\* the client exits.  A FIFO that a former server left makes open() wait.
ClientRefused(c) ==
    /\ cl[c].pc = "start"
    /\ IF Sock THEN sv.pc = "down" ELSE ~exists
    /\ Leave(c)
    /\ UNCHANGED <<prog, sv, exists, file, eof, history, bounds>>

\* fifo_seqnum_client opens its FIFO for reading only now, and open() waits for
\* the server to open it too.
ClientOpen(c) ==
    /\ Fifo /\ ~prog.early /\ cl[c].pc = "sent"
    /\ cl' = [cl EXCEPT ![c].pc = "opening"]
    /\ UNCHANGED <<prog, sv, exists, file, reqq, name, inbox, eof, history, bounds>>

CanRead(c) == cl[c].pc = IF Fifo /\ ~prog.early THEN "opening" ELSE "sent"

\* The answer is read and printed, and the client exits.
ClientReceive(c) ==
    /\ CanRead(c) /\ inbox[c] # <<>>
    /\ printed' = printed \cup {[id |-> cl[c].id, start |-> Head(inbox[c]),
                                 len |-> cl[c].len]}
    /\ cl' = [cl EXCEPT ![c] = Gone] /\ name' = name \ {c}
    /\ inbox' = [inbox EXCEPT ![c] = IF prog.via = "svmsg" THEN Tail(@) ELSE <<>>]
    /\ Held(c)
    /\ UNCHANGED <<prog, sv, exists, file, eof, lapse, reused, gaveUp, bounds>>

\* End of file instead: "Can't read response from server".
ClientEof(c) ==
    /\ CanRead(c) \/ (Sock /\ cl[c].pc = "conn")
    /\ inbox[c] = <<>> /\ c \in eof
    /\ Leave(c)
    /\ UNCHANGED <<prog, sv, exists, file, eof, history, bounds>>

\* A client is killed: its name stays behind, and what is in a queue.
ClientDies(c) ==
    /\ cl[c].pc # "none" /\ deaths < MaxDeaths
    /\ cl' = [cl EXCEPT ![c] = Gone]
    /\ inbox' = IF Fifo \/ Sock THEN [inbox EXCEPT ![c] = <<>>] ELSE inbox
    /\ Held(c)
    /\ deaths' = deaths + 1
    /\ UNCHANGED <<prog, sv, exists, file, name, eof, history, reqs, downs>>

\* bad_client: makes its FIFO, asks and exits without ever opening it.
bad_client(c) ==
    /\ Fifo /\ cl[c].pc = "none" /\ reqs < MaxReq /\ deaths < MaxDeaths
    /\ sv.pc # "down"
    /\ name' = name \cup {c}
    /\ reqq' = Append(reqq, [pid |-> c, id |-> reqs + 1, len |-> 1])
    /\ reqs' = reqs + 1 /\ deaths' = deaths + 1
    /\ reused' = (reused \/ Leftover(c))
    /\ UNCHANGED <<prog, sv, exists, file, cl, inbox, eof, printed, downs,
                   lapse, gaveUp>>
-----------------------------------------------------------------------------
(* The servers.                                                            *)

\* An empty or missing file counts as 0.
read_seq == IF prog.persist /\ file # NULL THEN file ELSE 0

\* A System V queue is made with IPC_EXCL and never removed, so that its server
\* starts once.
ServerStart ==
    /\ sv.pc = "down"
    /\ prog.via = "svmsg" => ~exists
    /\ sv' = [Down EXCEPT !.pc = "read", !.seq = read_seq]
    /\ exists' = TRUE
    /\ UNCHANGED <<prog, file, reqq, cl, name, inbox, eof, history, bounds>>

\* read(), msgrcv(), mq_receive() or accept().
ServerRead ==
    /\ sv.pc = "read" /\ reqq # <<>>
    /\ sv' = [sv EXCEPT !.req = Head(reqq), !.tries = 0,
                 !.pc = CASE prog.via \in {"fifo", "pmq"} -> "open"
                          [] prog.via = "svmsg"           -> "send"
                          [] OTHER                        -> "line"]
    /\ reqq' = Tail(reqq)
    /\ UNCHANGED <<prog, exists, file, cl, name, inbox, eof, history, bounds>>

Alive == cl[sv.req.pid].id = sv.req.id /\ cl[sv.req.pid].pc # "none"

\* The request of the accepted connection, or its end, comes; a bad one is
\* skipped and the connection closed.
ServerLine ==
    /\ sv.pc = "line" /\ (sv.req.len # NULL \/ ~Alive)
    /\ IF sv.req.len \in {NULL, 0}
       THEN /\ sv' = [sv EXCEPT !.pc = "read", !.req = NULL]
            /\ eof' = IF Alive THEN eof \cup {sv.req.pid} ELSE eof
       ELSE sv' = [sv EXCEPT !.pc = "send"] /\ UNCHANGED eof
    /\ UNCHANGED <<prog, exists, file, reqq, cl, name, inbox, history, bounds>>

\* Mutant: no client opens its FIFO before it asks.
HasReader_Late(c) == cl[c].pc = "opening"

\* Somebody has the pid's FIFO open for reading.
HasReader(c) == cl[c].pc \in IF prog.early THEN {"start", "sent"} ELSE {"opening"}

Skip == sv' = [sv EXCEPT !.pc = "read", !.req = NULL]

\* open() of the client's FIFO or mq_open() of its queue: a name that is gone
\* ends the request, a FIFO nobody reads makes open() wait.
ServerOpen ==
    /\ sv.pc = "open"
    /\ \/ sv.req.pid \notin name /\ Skip /\ UNCHANGED gaveUp
       \/ /\ sv.req.pid \in name /\ (Fifo => HasReader(sv.req.pid))
          /\ sv' = [sv EXCEPT !.pc = "send"] /\ UNCHANGED gaveUp
       \/ /\ Fifo /\ prog.retry /\ sv.req.pid \in name /\ ~HasReader(sv.req.pid)
          /\ IF sv.tries < MAX_RETRIES                          \* ENXIO
             THEN sv' = [sv EXCEPT !.tries = @ + 1] /\ UNCHANGED gaveUp
             ELSE /\ Skip
                  /\ gaveUp' = IF Alive THEN gaveUp \cup {sv.req.id} ELSE gaveUp
    /\ UNCHANGED <<prog, exists, file, reqq, cl, name, inbox, eof, printed,
                   lapse, reused, bounds>>

\* Where the answer goes is gone by now.
Broken == \/ Fifo /\ ~HasReader(sv.req.pid)
          \/ Sock /\ ~Alive
          \/ prog.via = "pmq" /\ sv.req.pid \notin name

\* The server ends: sockets are closed, and a FIFO is emptied when nobody has
\* it open or it is removed.
End(removed) ==
    /\ sv' = Down
    /\ downs' = downs + 1
    /\ exists' = IF removed THEN FALSE ELSE exists
    /\ reqq' = IF \/ Sock
                  \/ Fifo /\ (removed \/ \A c \in Clients : cl[c].pc \notin Waiting)
               THEN <<>> ELSE reqq
    /\ eof' = eof \cup {c \in Clients :
                 \/ Sock /\ cl[c].pc \in {"conn", "sent"}
                 \/ /\ Fifo /\ ~prog.early /\ sv.pc = "send"
                    /\ sv.req.pid = c /\ cl[c].pc = "opening"}
    /\ lapse' = \/ lapse
                \/ prog.persist /\ sv.pc \in {"update", "trunc", "write"}
                \/ ~prog.persist /\ prog.via # "svmsg"

\* The answer.  A write() that fails is reported and the number advanced all
\* the same; us_seqnum_server is killed by SIGPIPE.
ServerSend ==
    /\ sv.pc = "send"
    /\ \/ /\ ~Broken
          /\ prog.via = "svmsg" => Queued < QCAP
          /\ prog.via = "pmq" => Len(inbox[sv.req.pid]) < QCAP
          /\ inbox' = [inbox EXCEPT ![sv.req.pid] = Append(@, sv.seq)]
          /\ sv' = [sv EXCEPT !.pc = "update"]
          /\ UNCHANGED <<exists, reqq, eof, downs, lapse>>
       \/ /\ Broken /\ prog.via # "us"
          /\ sv' = [sv EXCEPT !.pc = "update"]
          /\ UNCHANGED <<exists, reqq, eof, inbox, downs, lapse>>
       \/ Broken /\ prog.via = "us" /\ End(FALSE) /\ UNCHANGED inbox
    /\ UNCHANGED <<prog, file, cl, name, printed, reused, gaveUp, reqs, deaths>>

\* Mutant: one number for every request.
ServerUpdate_One ==
    /\ sv.pc = "update"
    /\ sv' = [sv EXCEPT !.seq = @ + 1, !.req = NULL,
                        !.pc = IF prog.persist THEN "trunc" ELSE "read"]
    /\ UNCHANGED <<prog, exists, file, reqq, cl, name, inbox, eof, history, bounds>>

\* The number advances even where the answer could not be written.
ServerUpdate ==
    /\ sv.pc = "update"
    /\ sv' = [sv EXCEPT !.seq = @ + sv.req.len, !.req = NULL,
                        !.pc = IF prog.persist THEN "trunc" ELSE "read"]
    /\ UNCHANGED <<prog, exists, file, reqq, cl, name, inbox, eof, history, bounds>>

\* save_seq(): open(O_TRUNC), then write().  The descriptor is not closed; when
\* there is none left the server exits.
SaveOpen ==
    /\ sv.pc = "trunc"
    /\ \/ /\ sv.fds < NOFILE
          /\ file' = NULL
          /\ sv' = [sv EXCEPT !.pc = "write", !.fds = @ + 1]
          /\ UNCHANGED <<exists, reqq, eof, downs, lapse>>
       \/ sv.fds = NOFILE /\ End(FALSE) /\ UNCHANGED file
    /\ UNCHANGED <<prog, cl, name, inbox, printed, reused, gaveUp, reqs, deaths>>

SaveWrite ==
    /\ sv.pc = "write"
    /\ file' = sv.seq
    /\ sv' = [sv EXCEPT !.pc = "read"]
    /\ UNCHANGED <<prog, exists, reqq, cl, name, inbox, eof, history, bounds>>

\* SIGKILL, SIGQUIT, a signal that has no handler, or a call that fails.
ServerKilled ==
    /\ sv.pc # "down" /\ downs < MaxDown
    /\ End(FALSE)
    /\ UNCHANGED <<prog, file, cl, name, inbox, printed, reused, gaveUp, reqs, deaths>>

\* SIGINT and SIGTERM where they are handled, at any point of the loop.
handler ==
    /\ sv.pc # "down" /\ prog.handled /\ downs < MaxDown
    /\ End(TRUE)
    /\ UNCHANGED <<prog, file, cl, name, inbox, printed, reused, gaveUp, reqs, deaths>>

ServerStep == \/ ServerRead \/ ServerLine \/ ServerOpen \/ ServerSend
              \/ ServerUpdate \/ SaveOpen \/ SaveWrite

ClientStep(c) == \/ ClientConnect(c) \/ ClientSend(c) \/ ClientRefused(c)
                 \/ ClientOpen(c) \/ ClientReceive(c) \/ ClientEof(c)

Next == \/ ServerStart \/ ServerStep \/ ServerKilled \/ handler
        \/ \E c \in Clients : \/ \E n \in Lens : ClientStart(c, n)
                              \/ ClientStep(c) \/ ClientDies(c) \/ bad_client(c)

\* Processes that can run do; nobody need start a server.
Fairness == /\ WF_vars(ServerStep)
            /\ \A c \in Clients : WF_vars(ClientStep(c))

Spec == Init /\ [][Next]_vars /\ Fairness
-----------------------------------------------------------------------------
\* Counters are numbers, the server is at a step of its program, it does not
\* save more often than it has descriptors, and queues keep to their size.
TypeOK ==
    /\ sv.pc \in {"down", "read", "line", "open", "send", "update", "trunc", "write"}
    /\ sv.seq \in Nat /\ sv.fds \in 0 .. NOFILE /\ sv.tries \in 0 .. MAX_RETRIES
    /\ file \in Nat \cup {NULL}
    /\ name \subseteq Clients /\ eof \subseteq Clients
    /\ prog.via = "svmsg" => Queued <= QCAP

\* The numbers that a client printed are its own.
Numbers(r) == r.start .. r.start + r.len - 1
Disjoint == \A r, q \in printed : r # q => Numbers(r) \cap Numbers(q) = {}

\* The numbers clients print are unique (fifo_seqnum_server.c line 16): over
\* every transport, whatever clients die, are given up on or lose their answer,
\* and, with the sequence file, over any number of servers.  It takes that no
\* server ended between an answer and the saved number, and that no client got
\* a pid whose former request or answer was still on its way.
UniqueNumbers == ~lapse /\ ~reused => Disjoint

\* The server waits in open() for a client that is gone.
Blocked == /\ Fifo /\ ~prog.retry /\ sv.pc = "open"
           /\ sv.req.pid \in name /\ ~Alive

\* The one queue of msg_seqnum is full and nobody can take a message from it:
\* the server is to put an answer in, or there are only answers to the dead.
Clogged == /\ prog.via = "svmsg" /\ Queued = QCAP
           /\ sv.pc = "send" \/ reqq = <<>>
           /\ \A c \in Clients : inbox[c] # <<>> => ~CanRead(c)

\* Every client ends, answered or not, as long as no server ended: unless the
\* server waits in open() for a dead client (all FIFO servers but the last),
\* gave up on it because it had not opened its FIFO yet (which
\* fifo_seqnum_client_mod never meets), or the queue used both ways is clogged.
ClientsEnd == \A c \in Clients : cl[c].pc # "none" ~>
    \/ cl[c].pc = "none" \/ downs > 0
    \/ Blocked \/ Clogged
    \/ ~prog.early /\ cl[c].id \in gaveUp
=============================================================================
