----------------------------- MODULE FileServer -----------------------------
(***************************************************************************)
(* The file servers over message queues and their clients: System V queues *)
(* (chapter 46, with the modifications a to e and the two modified         *)
(* clients) and POSIX queues (chapter 52).  A client makes a queue of its  *)
(* own and sends a request with it to the server's queue; the server forks *)
(* a child for it, and the child sends the file in data messages and an    *)
(* end message.  Files are numbers of data messages.                       *)
(***************************************************************************)
EXTENDS Integers, Sequences, FiniteSets

CONSTANTS Programs,     \* the pairs of programs to choose from
          Clients,      \* pids of clients; a pid can be used again
          Sizes,        \* files, in data messages; NULL cannot be opened
          NULL,
          QCAP,         \* messages a queue holds
          MaxReq, MaxServers,   \* bounds: requests, servers started
          MaxHarm       \* bound: signals, lost alarms, failed calls

ASSUME FileAssumption == /\ QCAP \in Nat \ {0} /\ NULL \notin Nat
                         /\ Sizes \subseteq Nat \cup {NULL}
                         /\ NULL \notin [id : Nat, pid : Clients, q : Nat, file : Nat \cup {NULL}]
                         /\ MaxReq \in Nat /\ MaxServers \in Nat /\ MaxHarm \in Nat

VARIABLES
    prog,     \* the programs, one of Programs
    sv,       \* the server: [pc, q, req]
    key,      \* where clients look for the server's queue: its id, NULL when
              \* there is none, 0 when the key file is empty
    sq,       \* the servers' queues that exist: id -> requests
    qname,    \* POSIX: the queue behind each pid's name, or NULL
    box,      \* the clients' queues that exist: id -> messages
    cl,       \* clients: [pc, id, file, q, g, got, slow]
    ch,       \* children by request: [pc, q, pid, file, n, g, slow]
    reqs, servers, harm,   \* counters for the bounds
    done,     \* history: what clients reported as received
    badRead,  \* history: requests whose file could not be read to its end
    stale,    \* history: requests of a pid with something left from another
    inherited \* history: a child took SIGTERM or SIGINT

vars == <<prog, sv, key, sq, qname, box, cl, ch, reqs, servers, harm, done,
          badRead, stale, inherited>>
world   == <<prog, servers, badRead>>
history == <<done, stale, inherited>>

\* What a pair of programs does of the steps below.
Pair(via, keyfile, handled, timeout, impatient) ==
    [via |-> via,              \* "svmsg" or "pmq"
     keyfile |-> keyfile,      \* the server's queue is private, its id in a file
     handled |-> handled,      \* SIGINT and SIGTERM are handled
     timeout |-> timeout,      \* children send with a timeout
     impatient |-> impatient]  \* the client sends and receives with a timeout

svmsg_file_server        == Pair("svmsg", FALSE, FALSE, FALSE, FALSE)
svmsg_file_server_mod_a  == Pair("svmsg", TRUE, FALSE, FALSE, FALSE)
svmsg_file_server_mod_b  == svmsg_file_server_mod_a     \* logs
svmsg_file_server_mod_c  == svmsg_file_server_mod_b     \* is a daemon
svmsg_file_server_mod_d  == Pair("svmsg", TRUE, TRUE, FALSE, FALSE)
svmsg_file_server_mod_e  == Pair("svmsg", TRUE, TRUE, TRUE, FALSE)
svmsg_file_client_mod_5  == Pair("svmsg", TRUE, TRUE, TRUE, TRUE)
pmq_file_server          == Pair("pmq", FALSE, FALSE, FALSE, FALSE)

\* There are no others.
AllPrograms == {svmsg_file_server, svmsg_file_server_mod_a, svmsg_file_server_mod_b,
                svmsg_file_server_mod_c, svmsg_file_server_mod_d,
                svmsg_file_server_mod_e, svmsg_file_client_mod_5, pmq_file_server}

ASSUME ProgramsAssumption == Programs \subseteq AllPrograms

Pmq == prog.via = "pmq"

Down  == [pc |-> "down", q |-> 0, req |-> NULL]
Gone  == [pc |-> "none", id |-> 0, file |-> NULL, q |-> 0, g |-> 0, got |-> <<>>,
          slow |-> FALSE]
Ended == [pc |-> "none", q |-> 0, pid |-> NULL, file |-> NULL, n |-> 0, g |-> 0,
          slow |-> FALSE]

Init == /\ prog \in Programs
        /\ sv = Down /\ key = NULL /\ sq = <<>>
        /\ qname = [c \in Clients |-> NULL] /\ box = <<>>
        /\ cl = [c \in Clients |-> Gone]
        /\ ch = [i \in 1 .. MaxReq |-> Ended]
        /\ reqs = 0 /\ servers = 0 /\ harm = 0
        /\ done = {} /\ badRead = {} /\ stale = {} /\ inherited = FALSE

\* Mutant: one message too many.
Fits_One_More(queue) == Len(queue) <= QCAP

\* A queue has room for one more message.
Fits(queue) == Len(queue) < QCAP

\* A queue is made, empty, or removed.
With(f, q)    == [x \in DOMAIN f \cup {q} |-> IF x = q THEN <<>> ELSE f[x]]
Without(f, q) == [x \in DOMAIN f \ {q} |-> f[x]]

\* Something goes wrong that nobody asked for.
Harm == harm < MaxHarm /\ harm' = harm + 1
-----------------------------------------------------------------------------
(* The clients.                                                            *)

\* A message, a request or a child of another client with this pid.
Leftover(c) == \/ qname[c] # NULL
               \/ \E g \in DOMAIN sq : \E i \in 1 .. Len(sq[g]) : sq[g][i].pid = c
               \/ sv.req # NULL /\ sv.req.pid = c
               \/ \E i \in 1 .. MaxReq : ch[i].pc # "none" /\ ch[i].pid = c

\* msgget(SERVER_KEY), the number in the key file, or mq_open(SERVER_MQ); then
\* the client's own queue.  A private queue is new; a POSIX queue of the name
\* may be there from another client.
ClientOpen(c, f) ==
    /\ cl[c].pc = "none" /\ reqs < MaxReq
    /\ key \notin {NULL, 0}
    /\ reqs' = reqs + 1
    /\ LET old == Pmq /\ qname[c] # NULL
           q   == IF old THEN qname[c] ELSE reqs'
       IN  /\ cl' = [cl EXCEPT ![c] = [Gone EXCEPT !.pc = "send", !.id = reqs',
                                          !.file = f, !.q = q, !.g = key]]
           /\ box' = IF old THEN box ELSE With(box, q)
           /\ qname' = IF Pmq THEN [qname EXCEPT ![c] = q] ELSE qname
    /\ stale' = IF Pmq /\ Leftover(c) THEN stale \cup {reqs'} ELSE stale
    /\ UNCHANGED <<world, sv, key, sq, ch, harm, done, inherited>>

\* removeQueue() at exit.  A POSIX queue loses its name, and lives on as long as
\* a child has it open.
removeQueue(c) ==
    /\ qname' = IF Pmq THEN [qname EXCEPT ![c] = NULL] ELSE qname
    /\ box' = IF Pmq /\ \E i \in 1 .. MaxReq : ch[i].pc = "send" /\ ch[i].q = cl[c].q
              THEN box ELSE Without(box, cl[c].q)
Exit(c) == cl' = [cl EXCEPT ![c] = Gone] /\ removeQueue(c)

\* The request.  msgsnd() fails when the queue was removed; mq_send() puts the
\* message into a queue that has no name any more.
ClientSend(c) ==
    /\ cl[c].pc = "send"
    /\ LET g == cl[c].g IN
       \/ /\ g \in DOMAIN sq /\ Fits(sq[g])
          /\ sq' = [sq EXCEPT ![g] = Append(@, [id |-> cl[c].id, pid |-> c,
                                                q |-> cl[c].q, file |-> cl[c].file])]
          /\ cl' = [cl EXCEPT ![c].pc = "recv", ![c].slow = FALSE]
          /\ UNCHANGED <<qname, box>>
       \/ /\ g \notin DOMAIN sq /\ Pmq
          /\ cl' = [cl EXCEPT ![c].pc = "recv"]
          /\ UNCHANGED <<sq, qname, box>>
       \/ g \notin DOMAIN sq /\ ~Pmq /\ Exit(c) /\ UNCHANGED sq
    /\ UNCHANGED <<world, sv, key, ch, reqs, harm, history>>

\* One message.  A failure that comes first ends the client, after data any
\* message that is not data ends the file.
ClientReceive(c) ==
    /\ cl[c].pc = "recv" /\ cl[c].q \in DOMAIN box /\ box[cl[c].q] # <<>>
    /\ LET m == Head(box[cl[c].q]) IN
       \/ /\ m.type = "DATA"
          /\ cl' = [cl EXCEPT ![c].got = Append(@, [id |-> m.id, n |-> m.n]),
                              ![c].slow = FALSE]
          /\ box' = [box EXCEPT ![cl[c].q] = Tail(@)]
          /\ UNCHANGED <<qname, done>>
       \/ m.type = "FAILURE" /\ cl[c].got = <<>> /\ Exit(c) /\ UNCHANGED done
       \/ /\ m.type = "END" \/ (m.type = "FAILURE" /\ cl[c].got # <<>>)
          /\ done' = done \cup {[id |-> cl[c].id, file |-> cl[c].file, got |-> cl[c].got]}
          /\ Exit(c)
    /\ UNCHANGED <<world, sv, key, sq, ch, reqs, harm, stale, inherited>>

\* msgrcv() fails when a child removed the queue.
ClientReceiveFails(c) ==
    /\ cl[c].pc = "recv" /\ cl[c].q \notin DOMAIN box
    /\ Exit(c)
    /\ UNCHANGED <<world, sv, key, sq, ch, reqs, harm, history>>

\* Mutant: no timeout where the client waits for an answer.
ClientTimeout_Send(c) ==
    /\ prog.impatient /\ ~cl[c].slow
    /\ cl[c].pc = "send" /\ cl[c].g \in DOMAIN sq /\ ~Fits(sq[cl[c].g])
    /\ Exit(c)
    /\ UNCHANGED <<world, sv, key, sq, ch, reqs, harm, history>>

\* The alarm of svmsg_file_client_mod_5 interrupts a call that waits.
ClientTimeout(c) ==
    /\ prog.impatient /\ ~cl[c].slow
    /\ \/ cl[c].pc = "send" /\ cl[c].g \in DOMAIN sq /\ ~Fits(sq[cl[c].g])
       \/ cl[c].pc = "recv" /\ cl[c].q \in DOMAIN box /\ box[cl[c].q] = <<>>
    /\ Exit(c)
    /\ UNCHANGED <<world, sv, key, sq, ch, reqs, harm, history>>

\* The alarm comes after alarm() and before the call waits: it is lost.
ClientSlow(c) ==
    /\ prog.impatient /\ cl[c].pc # "none" /\ ~cl[c].slow
    /\ Harm
    /\ cl' = [cl EXCEPT ![c].slow = TRUE]
    /\ UNCHANGED <<world, sv, key, sq, qname, box, ch, reqs, history>>

\* A client is killed: its queue stays.
ClientDies(c) ==
    /\ cl[c].pc # "none"
    /\ Harm
    /\ cl' = [cl EXCEPT ![c] = Gone]
    /\ UNCHANGED <<world, sv, key, sq, qname, box, ch, reqs, history>>

\* A client that asks and never reads; its queue stays.
svmsg_bad_file_client(c, f) ==
    /\ prog.keyfile /\ cl[c].pc = "none" /\ reqs < MaxReq
    /\ key \in DOMAIN sq /\ Fits(sq[key])
    /\ Harm
    /\ reqs' = reqs + 1
    /\ box' = With(box, reqs')
    /\ sq' = [sq EXCEPT ![key] = Append(@, [id |-> reqs', pid |-> c, q |-> reqs',
                                            file |-> f])]
    /\ UNCHANGED <<world, sv, key, qname, cl, ch, history>>
-----------------------------------------------------------------------------
(* The server.                                                             *)

\* msgget() with IPC_EXCL fails while there is a queue, mq_open() takes it, and
\* with a key file each server makes a queue of its own.
ServerStart ==
    /\ sv.pc = "down" /\ servers < MaxServers
    /\ servers' = servers + 1
    /\ \/ /\ ~prog.keyfile /\ key = NULL
          /\ sq' = With(sq, servers') /\ key' = servers'
          /\ sv' = [Down EXCEPT !.pc = "loop", !.q = servers']
       \/ /\ Pmq /\ key # NULL
          /\ sv' = [Down EXCEPT !.pc = "loop", !.q = key]
          /\ UNCHANGED <<sq, key>>
       \/ /\ prog.keyfile
          /\ sq' = With(sq, servers') /\ UNCHANGED key
          /\ sv' = [Down EXCEPT !.pc = "trunc", !.q = servers']
    /\ UNCHANGED <<prog, qname, box, cl, ch, reqs, harm, badRead, history>>

\* open(KEY_FILE) with O_TRUNC, then write().
KeyOpen ==
    /\ sv.pc = "trunc"
    /\ key' = 0 /\ sv' = [sv EXCEPT !.pc = "write"]
    /\ UNCHANGED <<world, sq, qname, box, cl, ch, reqs, harm, history>>

\* Mutant: the number never reaches the file.
KeyWrite_Lost ==
    /\ sv.pc = "write"
    /\ sv' = [sv EXCEPT !.pc = "loop"]
    /\ UNCHANGED <<world, key, sq, qname, box, cl, ch, reqs, harm, history>>

KeyWrite ==
    /\ sv.pc = "write"
    /\ key' = sv.q /\ sv' = [sv EXCEPT !.pc = "loop"]
    /\ UNCHANGED <<world, sq, qname, box, cl, ch, reqs, harm, history>>

\* The end of main(), and termHandler(): the queue and the key are removed.
removeServerQueue(g) == sq' = Without(sq, g) /\ key' = NULL
ServerExit == removeServerQueue(sv.q) /\ sv' = Down

\* msgrcv(); it is called again when a child's end interrupted it, and ends the
\* server when the queue is gone.
ServerReceive ==
    /\ sv.pc = "loop"
    /\ \/ /\ sv.q \in DOMAIN sq /\ sq[sv.q] # <<>>
          /\ sv' = [sv EXCEPT !.pc = "fork", !.req = Head(sq[sv.q])]
          /\ sq' = [sq EXCEPT ![sv.q] = Tail(@)]
          /\ UNCHANGED key
       \/ sv.q \notin DOMAIN sq /\ ServerExit
    /\ UNCHANGED <<world, qname, box, cl, ch, reqs, harm, history>>

ServerFork ==
    /\ sv.pc = "fork"
    /\ ch' = [ch EXCEPT ![sv.req.id] =
                [Ended EXCEPT !.pc = "open", !.q = sv.req.q, !.pid = sv.req.pid,
                              !.file = sv.req.file, !.g = sv.q]]
    /\ sv' = [sv EXCEPT !.pc = "loop", !.req = NULL]
    /\ UNCHANGED <<world, key, sq, qname, box, cl, reqs, harm, history>>

ServerForkFails ==
    /\ sv.pc = "fork" /\ Harm
    /\ ServerExit
    /\ UNCHANGED <<world, qname, box, cl, ch, reqs, history>>

termHandler ==
    /\ prog.handled /\ sv.pc \in {"loop", "fork"} /\ Harm
    /\ ServerExit
    /\ UNCHANGED <<world, qname, box, cl, ch, reqs, history>>

\* A signal without a handler: queues and key file stay.
ServerKilled ==
    /\ sv.pc # "down" /\ Harm
    /\ sv' = Down
    /\ UNCHANGED <<world, key, sq, qname, box, cl, ch, reqs, history>>
-----------------------------------------------------------------------------
(* The children.                                                           *)

End(i) == ch' = [ch EXCEPT ![i] = Ended]

\* The file, and for POSIX queues the client's queue, is opened.
ChildOpen(i) ==
    /\ ch[i].pc = "open"
    /\ IF Pmq
       THEN IF qname[ch[i].pid] = NULL THEN End(i)
            ELSE ch' = [ch EXCEPT ![i].pc = "send", ![i].q = qname[ch[i].pid]]
       ELSE ch' = [ch EXCEPT ![i].pc = "send"]
    /\ UNCHANGED <<world, sv, key, sq, qname, box, cl, reqs, harm, history>>

\* Mutant: the last block is taken for the end of the file.
Message_Early(i) == [type |-> CASE ch[i].file = NULL          -> "FAILURE"
                                [] ch[i].n + 1 >= ch[i].file  -> "END"
                                [] OTHER                      -> "DATA",
                     id |-> i, n |-> ch[i].n + 1]

\* What the child sends next.
Message(i) == [type |-> CASE ch[i].file = NULL      -> "FAILURE"
                          [] ch[i].n = ch[i].file   -> "END"
                          [] OTHER                  -> "DATA",
               id |-> i, n |-> ch[i].n + 1]

\* msgsnd() or mq_send(); an error ends the child, in every server, without an
\* end message that could arrive.
serveRequest(i) ==
    /\ ch[i].pc = "send"
    /\ \/ /\ ch[i].q \in DOMAIN box /\ Fits(box[ch[i].q])
          /\ box' = [box EXCEPT ![ch[i].q] = Append(@, Message(i))]
          /\ IF Message(i).type = "DATA"
             THEN ch' = [ch EXCEPT ![i].n = @ + 1, ![i].slow = FALSE]
             ELSE End(i)
       \/ ch[i].q \notin DOMAIN box /\ End(i) /\ UNCHANGED box
    /\ UNCHANGED <<world, sv, key, sq, qname, cl, reqs, harm, history>>

\* Mutant: the client's queue is left alone.
safeMsgsnd_Stay(i) ==
    /\ prog.timeout /\ ch[i].pc = "send" /\ ~ch[i].slow
    /\ ch[i].q \in DOMAIN box /\ ~Fits(box[ch[i].q])
    /\ UNCHANGED ch
    /\ UNCHANGED <<world, sv, key, sq, qname, box, cl, reqs, harm, history>>

\* The timeout of mod_e: the client is taken for dead and its queue removed.
safeMsgsnd(i) ==
    /\ prog.timeout /\ ch[i].pc = "send" /\ ~ch[i].slow
    /\ ch[i].q \in DOMAIN box /\ ~Fits(box[ch[i].q])
    /\ box' = Without(box, ch[i].q)
    /\ End(i)
    /\ UNCHANGED <<world, sv, key, sq, qname, cl, reqs, harm, history>>

\* The alarm comes before msgsnd() waits, and is lost.
ChildSlow(i) ==
    /\ prog.timeout /\ ch[i].pc = "send" /\ ~ch[i].slow /\ Harm
    /\ ch' = [ch EXCEPT ![i].slow = TRUE]
    /\ UNCHANGED <<world, sv, key, sq, qname, box, cl, reqs, history>>

\* read() fails, which the child takes for the end of the file.
ReadFails(i) ==
    /\ ch[i].pc = "send" /\ ch[i].file # NULL /\ ch[i].n < ch[i].file /\ Harm
    /\ ch' = [ch EXCEPT ![i].file = ch[i].n]
    /\ badRead' = badRead \cup {i}
    /\ UNCHANGED <<prog, servers, sv, key, sq, qname, box, cl, reqs, history>>

\* A signal for the child.  It has termHandler() from its parent.
ChildSignal(i) ==
    /\ ch[i].pc # "none" /\ Harm
    /\ End(i)
    /\ IF prog.handled THEN removeServerQueue(ch[i].g) /\ inherited' = TRUE
                       ELSE UNCHANGED <<sq, key, inherited>>
    /\ UNCHANGED <<world, sv, qname, box, cl, reqs, done, stale>>

ServerStep == KeyOpen \/ KeyWrite \/ ServerReceive \/ ServerFork
ChildStep(i) == ChildOpen(i) \/ serveRequest(i) \/ safeMsgsnd(i)
ClientStep(c) == \/ ClientSend(c) \/ ClientReceive(c) \/ ClientReceiveFails(c)
                 \/ ClientTimeout(c)

Next == \/ ServerStart \/ ServerStep \/ ServerForkFails \/ termHandler \/ ServerKilled
        \/ \E i \in 1 .. MaxReq : \/ ChildStep(i) \/ ChildSlow(i) \/ ReadFails(i)
                                  \/ ChildSignal(i)
        \/ \E c \in Clients : \/ \E f \in Sizes : \/ ClientOpen(c, f)
                                                  \/ svmsg_bad_file_client(c, f)
                              \/ ClientStep(c) \/ ClientSlow(c) \/ ClientDies(c)

\* Processes that can go on do, and an alarm that is set fires.
Fairness == /\ WF_vars(ServerStep)
            /\ \A i \in 1 .. MaxReq : WF_vars(ChildStep(i))
            /\ \A c \in Clients : WF_vars(ClientStep(c))

Spec == Init /\ [][Next]_vars /\ Fairness
-----------------------------------------------------------------------------
\* The server, clients and children are at steps of their programs and queues
\* hold no more than they can.
TypeOK ==
    /\ sv.pc \in {"down", "trunc", "write", "loop", "fork"}
    /\ key \in Nat \cup {NULL}
    /\ \A c \in Clients : cl[c].pc \in {"none", "send", "recv"}
    /\ \A i \in 1 .. MaxReq : ch[i].pc \in {"none", "open", "send"} /\ ch[i].n \in Nat
    /\ \A g \in DOMAIN sq : Len(sq[g]) <= QCAP
    /\ \A q \in DOMAIN box : Len(box[q]) <= QCAP

\* A client that reports a file as received (printf() at the end of its main())
\* has received all of it, in order and nothing else, whatever server, children
\* and clients were killed, timed out or restarted meanwhile; it takes that the
\* child could read the file and, with POSIX queues, that no other client of the
\* same pid left anything behind.
WholeFile == \A d \in done : d.id \notin badRead \cup stale =>
    /\ d.file # NULL
    /\ d.got = [n \in 1 .. d.file |-> [id |-> d.id, n |-> n]]

\* Every client ends, with svmsg_file_client_mod_5 whatever happens to the
\* server (unless its alarm is lost), with the others if no harm is done.
RequestsEnd == \A c \in Clients : cl[c].pc # "none" ~>
    \/ cl[c].pc = "none"
    \/ IF prog.impatient THEN cl[c].slow ELSE harm > 0

\* Every child ends, in mod_e whatever its client does (unless the alarm is
\* lost), in the other servers if no harm is done.
ChildrenEnd == \A i \in 1 .. MaxReq : ch[i].pc # "none" ~>
    \/ ch[i].pc = "none"
    \/ IF prog.timeout THEN ch[i].slow ELSE harm > 0

\* Clients find the running server's queue, and nothing else, where they look
\* for it, over kills and restarts; unless a child took a signal, whose handler
\* removes the queue and the key file of whatever server there is.
KeyNamesServer == sv.pc \in {"loop", "fork"} /\ ~inherited =>
    key = sv.q /\ sv.q \in DOMAIN sq
=============================================================================
