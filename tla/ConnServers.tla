---------------------------- MODULE ConnServers ----------------------------
(***************************************************************************)
(* Servers of client connections (chapters 57, 59, 60, 61, 63): a process  *)
(* per client, with or without a limit on their number; one client after   *)
(* the other; or all of them in one poll() loop.  They echo what a client  *)
(* sends, print it, or run it as a shell command.  A client sends, says it *)
(* is done by shutdown(), and reads until the server closes.               *)
(***************************************************************************)
EXTENDS Integers, Sequences, FiniteSets

CONSTANTS ConnClients, ServerPrograms,
          LIMIT,         \* connections is_echo_sv_mod serves at once
          MAX_CLIENTS,   \* connections echo_server polls
          COMMAND_MAX,   \* chunks that fill is_shell_sv's command buffer
          MaxChunks,     \* bound, for each client: the chunks it sends
          Senders,       \* bound: the clients that send a datagram
          Mortals        \* bound: the clients that may die

ASSUME ConnAssumption == LIMIT \in Nat \ {0} /\ MAX_CLIENTS \in Nat /\ MaxChunks \in [ConnClients -> Nat]
                        /\ COMMAND_MAX \in Nat \ {0}

VARIABLES
    prog,     \* the server's program, or <<>>
    lis,      \* the server: [pc, sem, cur, chld]: chld, SIGCHLD is pending
    conn,     \* client -> [pc, up, sent, cmd, down, got, fin, eof, rst]
    child,    \* client -> the process that serves it: "none", "serve", "zombie"
    pfd,      \* the poll() array from its third element: [c, ready]
    round,    \* where the poll() loop is: in poll(), at the listening sockets, or at an index
    ready0,   \* what poll() said of the two listening sockets: [new, udp]
    dgram,    \* client -> its datagram: "none", "out", "back", "got", "lost"
    printed   \* what us_xfr_sv wrote to standard output

connvars == <<prog, lis, conn, child, pfd, round, ready0, dgram, printed>>

\* How a program serves: a process per client, a loop or poll(), or datagrams
\* only; what it does with the data; how many it serves at once (0: no limit).
Serves(how, does, limit) == [how |-> how, does |-> does, limit |-> limit]

is_echo_sv      == Serves("fork", "echo", 0)
is_echo_sv_mod  == Serves("fork", "echo", LIMIT)
is_echo_sv_mod2 == Serves("fork", "echo", 0)
is_shell_sv     == Serves("fork", "shell", 0)
us_xfr_sv       == Serves("loop", "print", 0)
us_xfr_sv_mod   == Serves("loop", "print", 0)
us_abs_xfr_sv   == Serves("loop", "print", 0)
echo_server     == Serves("poll", "echo", MAX_CLIENTS)
id_echo_sv      == Serves("dgram", "echo", 0)

Runs(how) == prog # <<>> /\ prog.how = how

\* The poll() loop before it comes to the element i of the array.
Polling     == -2
AtNew       == -1
AtDatagrams == 0

NoConn == [pc |-> "off", up |-> <<>>, sent |-> 0, cmd |-> <<>>, down |-> <<>>,
           got |-> <<>>, fin |-> FALSE, eof |-> FALSE, rst |-> FALSE]

ConnInit ==
    /\ prog \in ServerPrograms
    /\ lis = [pc |-> "off", sem |-> LIMIT, cur |-> 0, chld |-> FALSE]
    /\ conn = [c \in ConnClients |-> NoConn]
    /\ child = [c \in ConnClients |-> "none"]
    /\ pfd = <<>> /\ round = Polling /\ ready0 = [new |-> FALSE, udp |-> FALSE]
    /\ dgram = [c \in ConnClients |-> "none"] /\ printed = <<>>

\* The echo servers fork twice and go on as the grandchild, if they can.
becomeDaemon ==
    /\ lis.pc = "off" /\ prog # <<>> /\ prog.does = "echo"
    /\ \E next \in {"bind", "exit"} : lis' = [lis EXCEPT !.pc = next]
    /\ UNCHANGED <<prog, conn, child, pfd, round, ready0, dgram, printed>>

\* inetListen() or inetBind(): the first address that can be bound, if any.
inetPassiveSocket ==
    /\ lis.pc = "bind" \/ (lis.pc = "off" /\ prog # <<>> /\ prog.does = "shell")
    /\ \E usable \in {<<FALSE>>, <<FALSE, TRUE>>} :
         lis' = [lis EXCEPT !.pc = IF \E i \in DOMAIN usable : usable[i] THEN "up" ELSE "exit"]
    /\ UNCHANGED <<prog, conn, child, pfd, round, ready0, dgram, printed>>

\* unixListen(): the socket file of an earlier server is removed first.
unixPassiveSocket ==
    /\ Runs("loop") /\ lis.pc = "off"
    /\ \E next \in {"up", "exit"} : lis' = [lis EXCEPT !.pc = next]
    /\ UNCHANGED <<prog, conn, child, pfd, round, ready0, dgram, printed>>
-----------------------------------------------------------------------------
(* The clients.                                                            *)

Listening == lis.pc \notin {"off", "bind", "exit", "killed"}

inetConnect(c) ==
    /\ Runs("fork") \/ Runs("poll")
    /\ Listening /\ conn[c].pc = "off"
    /\ conn' = [conn EXCEPT ![c].pc = "queued"]
    /\ UNCHANGED <<prog, lis, child, pfd, round, ready0, dgram, printed>>

unixConnect(c) ==
    /\ Runs("loop") /\ Listening /\ conn[c].pc = "off"
    /\ conn' = [conn EXCEPT ![c].pc = "queued"]
    /\ UNCHANGED <<prog, lis, child, pfd, round, ready0, dgram, printed>>

\* is_echo_cl, us_xfr_cl, is_shell_cl: standard input to the socket, then
\* shutdown(SHUT_WR) or close().
ClientSend(c) ==
    /\ conn[c].pc \in {"queued", "open"} /\ ~conn[c].fin /\ conn[c].sent < MaxChunks[c]
    /\ conn' = [conn EXCEPT ![c].sent = @ + 1, ![c].up = Append(@, <<c, conn[c].sent + 1>>)]
    /\ UNCHANGED <<prog, lis, child, pfd, round, ready0, dgram, printed>>

ClientShutdown(c) ==
    /\ conn[c].pc \in {"queued", "open"} /\ ~conn[c].fin
    /\ conn' = [conn EXCEPT ![c].fin = TRUE]
    /\ UNCHANGED <<prog, lis, child, pfd, round, ready0, dgram, printed>>

\* The client dies: the server's read() finds its data, an end or an error.
ClientDies(c) ==
    /\ c \in Mortals /\ conn[c].pc \in {"queued", "open"} /\ ~conn[c].rst
    /\ conn' = [conn EXCEPT ![c].rst = TRUE, ![c].fin = TRUE]
    /\ UNCHANGED <<prog, lis, child, pfd, round, ready0, dgram, printed>>

\* The socket to standard output, until the server closes; us_xfr_cl is done.
is_echo_cl(c) ==
    /\ ~Runs("loop") /\ ~conn[c].rst /\ conn[c].pc \in {"open", "closed"}
    /\ \/ /\ conn[c].down # <<>>
          /\ conn' = [conn EXCEPT ![c].got = Append(@, Head(conn[c].down)), ![c].down = Tail(@)]
       \/ /\ conn[c].down = <<>> /\ conn[c].eof
          /\ conn' = [conn EXCEPT ![c].pc = "ended"]
    /\ UNCHANGED <<prog, lis, child, pfd, round, ready0, dgram, printed>>
-----------------------------------------------------------------------------
(* A process per client.                                                   *)

Forks  == Runs("fork")
Active == {c \in ConnClients : child[c] # "none"}

\* sem_wait() before accept().
WaitForPermit ==
    /\ Forks /\ lis.pc = "up"
    /\ prog.limit > 0 => lis.sem > 0
    /\ lis' = [lis EXCEPT !.pc = "accept", !.sem = IF prog.limit > 0 THEN @ - 1 ELSE @]
    /\ UNCHANGED <<prog, conn, child, pfd, round, ready0, dgram, printed>>

\* accept() and fork(); when fork() fails the client is given up, when accept()
\* does the server exits and leaves its children alone.
AcceptAndFork ==
    /\ Forks /\ lis.pc = "accept"
    /\ \/ /\ lis' = [lis EXCEPT !.pc = "exit", !.sem = IF prog.limit > 0 THEN @ + 1 ELSE @]
          /\ UNCHANGED <<conn, child>>
       \/ \E c \in ConnClients :
         /\ conn[c].pc = "queued"
         /\ \/ /\ conn' = [conn EXCEPT ![c].pc = "open"]
               /\ child' = [child EXCEPT ![c] = "serve"]
               /\ lis' = [lis EXCEPT !.pc = "up"]
            \/ /\ conn' = [conn EXCEPT ![c].pc = "closed", ![c].eof = TRUE]
               /\ lis' = [lis EXCEPT !.pc = "up", !.sem = IF prog.limit > 0 THEN @ + 1 ELSE @]
               /\ UNCHANGED child
    /\ UNCHANGED <<prog, pfd, round, ready0, dgram, printed>>

\* The answer to a command that fills the buffer.
TooLong == <<<<0, 0>>>>

Exits(c) == /\ child' = [child EXCEPT ![c] = "zombie"]
            /\ lis' = [lis EXCEPT !.chld = TRUE]

\* read() and write() of a chunk; the process exits at the end of the input and
\* when either fails.
handleRequest(c) ==
    /\ child[c] = "serve" /\ prog.does = "echo"
    /\ \/ /\ conn[c].up # <<>>
          /\ conn' = [conn EXCEPT ![c].up = Tail(@), ![c].down = Append(@, Head(conn[c].up))]
          /\ UNCHANGED <<lis, child>>
       \/ /\ conn[c].rst \/ (conn[c].fin /\ conn[c].up = <<>>)
          /\ conn' = [conn EXCEPT ![c].pc = "closed", ![c].eof = TRUE] /\ Exits(c)
    /\ UNCHANGED <<prog, pfd, round, ready0, dgram, printed>>

\* is_shell_sv: the whole input is the command; its output is the client's.
HandleCommand(c) ==
    /\ child[c] = "serve" /\ prog.does = "shell"
    /\ \/ /\ conn[c].up # <<>> /\ Len(conn[c].cmd) + 1 < COMMAND_MAX
          /\ conn' = [conn EXCEPT ![c].up = Tail(@), ![c].cmd = Append(@, Head(conn[c].up))]
          /\ UNCHANGED <<lis, child>>
       \/ /\ conn[c].up # <<>> /\ Len(conn[c].cmd) + 1 >= COMMAND_MAX
          /\ conn' = [conn EXCEPT ![c].up = Tail(@), ![c].down = <<TooLong>>,
                                  ![c].pc = "closed", ![c].eof = TRUE] /\ Exits(c)
       \/ /\ conn[c].up = <<>> /\ conn[c].fin
          /\ conn' = [conn EXCEPT ![c].down = <<conn[c].cmd>>,
                                  ![c].pc = "closed", ![c].eof = TRUE] /\ Exits(c)
       \/ /\ conn[c].rst
          /\ conn' = [conn EXCEPT ![c].pc = "closed", ![c].eof = TRUE] /\ Exits(c)
    /\ UNCHANGED <<prog, pfd, round, ready0, dgram, printed>>

\* The SIGCHLD handler: every dead child is reaped and gives its permit back.
grimReaper ==
    /\ Forks /\ lis.chld
    /\ LET dead == {c \in ConnClients : child[c] = "zombie"}
       IN /\ child' = [c \in ConnClients |-> IF c \in dead THEN "none" ELSE child[c]]
          /\ lis' = [lis EXCEPT !.chld = FALSE,
                       !.sem = IF prog.limit > 0 THEN @ + Cardinality(dead) ELSE @]
    /\ UNCHANGED <<prog, conn, pfd, round, ready0, dgram, printed>>
-----------------------------------------------------------------------------
(* One client after the other.                                             *)

AcceptNext ==
    /\ Runs("loop") /\ lis.pc = "up"
    /\ \/ lis' = [lis EXCEPT !.pc = "exit"] /\ UNCHANGED conn
       \/ \E c \in ConnClients : /\ conn[c].pc = "queued"
                                 /\ conn' = [conn EXCEPT ![c].pc = "open"]
                                 /\ lis' = [lis EXCEPT !.pc = "serve", !.cur = c]
    /\ UNCHANGED <<prog, child, pfd, round, ready0, dgram, printed>>

PrintData ==
    /\ Runs("loop") /\ lis.pc = "serve"
    /\ IF conn[lis.cur].up # <<>>
       THEN /\ printed' = Append(printed, Head(conn[lis.cur].up))
            /\ conn' = [conn EXCEPT ![lis.cur].up = Tail(@)] /\ UNCHANGED lis
       ELSE /\ conn[lis.cur].fin
            /\ conn' = [conn EXCEPT ![lis.cur].pc = "ended", ![lis.cur].eof = TRUE]
            /\ lis' = [lis EXCEPT !.pc = "up"] /\ UNCHANGED printed
    /\ UNCHANGED <<prog, child, pfd, round, ready0, dgram>>
-----------------------------------------------------------------------------
(* poll().                                                                 *)

Polls       == Runs("poll") /\ lis.pc = "up"
Readable(c) == conn[c].up # <<>> \/ conn[c].fin
Waiting     == {c \in ConnClients : conn[c].pc = "queued"}
Datagrams   == {c \in ConnClients : dgram[c] = "out"}

Poll ==
    /\ Polls /\ round = Polling
    /\ Waiting # {} \/ Datagrams # {} \/ \E i \in DOMAIN pfd : pfd[i].c # 0 /\ i <= lis.cur /\ Readable(pfd[i].c)
    /\ pfd' = [i \in DOMAIN pfd |-> IF i <= lis.cur THEN [pfd[i] EXCEPT !.ready = Readable(pfd[i].c)]
                                                    ELSE pfd[i]]
    /\ ready0' = [new |-> Waiting # {}, udp |-> Datagrams # {}]
    /\ round' = AtNew
    /\ UNCHANGED <<prog, lis, conn, child, dgram, printed>>

\* A new client takes the next element of the array, whose revents is what an
\* earlier client, or nobody, left in it: poll() has not seen this one.
PollNew ==
    /\ Polls /\ round = AtNew /\ round' = AtDatagrams
    /\ IF ~ready0.new THEN UNCHANGED <<lis, conn, pfd>>
       ELSE \E c \in Waiting :
              IF lis.cur < prog.limit
              THEN /\ conn' = [conn EXCEPT ![c].pc = "open"]
                   /\ lis' = [lis EXCEPT !.cur = @ + 1]
                   /\ IF lis.cur + 1 \in DOMAIN pfd
                      THEN pfd' = [pfd EXCEPT ![lis.cur + 1].c = c]
                      ELSE \E garbage \in BOOLEAN : pfd' = Append(pfd, [c |-> c, ready |-> garbage])
              ELSE /\ conn' = [conn EXCEPT ![c].pc = "closed", ![c].eof = TRUE]
                   /\ UNCHANGED <<lis, pfd>>
    /\ UNCHANGED <<prog, child, ready0, dgram, printed>>

PollDatagram ==
    /\ Polls /\ round = AtDatagrams /\ round' = 1
    /\ IF ~ready0.udp THEN UNCHANGED dgram
       ELSE \E c \in Datagrams : dgram' = [dgram EXCEPT ![c] = "back"]
    /\ UNCHANGED <<prog, lis, conn, child, pfd, ready0, printed>>

\* Mutant: the last element moves into the gap and the loop goes on behind it,
\* with the gap's old revents.
DropClient_Slot(i) ==
    /\ conn' = [conn EXCEPT ![pfd[i].c].pc = "closed", ![pfd[i].c].eof = TRUE]
    /\ lis' = [lis EXCEPT !.cur = @ - 1]
    /\ pfd' = [pfd EXCEPT ![lis.cur] = pfd[i]]

\* The last element moves into the gap; i-- has the loop look at it.
DropClient(i) ==
    /\ conn' = [conn EXCEPT ![pfd[i].c].pc = "closed", ![pfd[i].c].eof = TRUE]
    /\ lis' = [lis EXCEPT !.cur = @ - 1]
    /\ pfd' = [pfd EXCEPT ![i] = pfd[lis.cur]]

\* The element's client has data, or has gone; read() of a client of which
\* neither is true blocks.  write() to a client that died fails, or SIGPIPE,
\* which the server leaves at its default, ends the server.
PollClient ==
    /\ Polls /\ round > 0
    /\ IF round > lis.cur THEN round' = Polling /\ UNCHANGED <<lis, conn, pfd>>
       ELSE IF ~pfd[round].ready THEN round' = round + 1 /\ UNCHANGED <<lis, conn, pfd>>
       ELSE LET c == pfd[round].c
            IN \/ /\ conn[c].up # <<>> /\ round' = round + 1
                  /\ conn' = [conn EXCEPT ![c].up = Tail(@), ![c].down = Append(@, Head(conn[c].up))]
                  /\ UNCHANGED <<lis, pfd>>
               \/ /\ conn[c].rst \/ (conn[c].up = <<>> /\ conn[c].fin)
                  /\ DropClient(round) /\ UNCHANGED round
               \/ /\ conn[c].rst /\ conn[c].up # <<>>
                  /\ lis' = [lis EXCEPT !.pc = "killed"] /\ UNCHANGED <<conn, pfd, round>>
    /\ UNCHANGED <<prog, child, ready0, dgram, printed>>
-----------------------------------------------------------------------------
(* Datagrams.                                                              *)

id_echo_cl(c) ==
    /\ (Runs("dgram") \/ Runs("poll")) /\ lis.pc = "up"
    /\ \/ c \in Senders /\ dgram[c] = "none" /\ dgram' = [dgram EXCEPT ![c] = "out"]
       \/ dgram[c] = "back" /\ dgram' = [dgram EXCEPT ![c] = "got"]
    /\ UNCHANGED <<prog, lis, conn, child, pfd, round, ready0, printed>>

\* The network drops a datagram, before the server or after.
LoseDatagram(c) ==
    /\ dgram[c] \in {"out", "back"} /\ round = Polling
    /\ dgram' = [dgram EXCEPT ![c] = "lost"]
    /\ UNCHANGED <<prog, lis, conn, child, pfd, round, ready0, printed>>

EchoDatagram ==
    /\ Runs("dgram") /\ lis.pc = "up"
    /\ \E c \in Datagrams : dgram' = [dgram EXCEPT ![c] = "back"]
    /\ UNCHANGED <<prog, lis, conn, child, pfd, round, ready0, printed>>

ServerTurn == \/ WaitForPermit \/ AcceptAndFork \/ grimReaper \/ AcceptNext \/ PrintData
              \/ Poll \/ PollNew \/ PollDatagram \/ PollClient \/ EchoDatagram

ConnNext == \/ becomeDaemon \/ inetPassiveSocket \/ unixPassiveSocket \/ ServerTurn
            \/ \E c \in ConnClients : \/ inetConnect(c) \/ unixConnect(c) \/ ClientSend(c) \/ ClientShutdown(c) \/ ClientDies(c)
                 \/ is_echo_cl(c) \/ handleRequest(c) \/ HandleCommand(c) \/ id_echo_cl(c) \/ LoseDatagram(c)

\* Processes run, and a client that waits in the queue is accepted in the end.
\* Nobody need send, shut down or connect.
ConnFairness == /\ WF_connvars(WaitForPermit \/ AcceptNext \/ PrintData \/ EchoDatagram)
                /\ WF_connvars(AcceptAndFork) /\ WF_connvars(grimReaper)
                /\ WF_connvars(Poll \/ PollNew \/ PollDatagram \/ PollClient)
                /\ \A c \in ConnClients : /\ WF_connvars(handleRequest(c) \/ HandleCommand(c)) /\ WF_connvars(is_echo_cl(c))
                                          /\ WF_connvars(dgram[c] = "back" /\ id_echo_cl(c))
-----------------------------------------------------------------------------
ConnTypeOK == /\ lis.sem \in 0 .. LIMIT /\ lis.cur \in 0 .. Cardinality(ConnClients)
              /\ \A c \in ConnClients : conn[c].sent \in 0 .. MaxChunks[c]

\* is_echo_sv_mod: every permit is with a child, alive or not yet reaped, with
\* accept(), or in the semaphore, however many SIGCHLD signals were merged.
\* A client of any server gets back its own data, in order and once; the
\* printing servers print one client's data after the other's; the poll() array
\* holds every open connection once.
ServersSafe ==
    /\ Runs("fork") /\ prog.limit > 0
         => lis.sem + Cardinality(Active) + (IF lis.pc = "accept" THEN 1 ELSE 0) = LIMIT
    /\ \A c \in ConnClients :
         LET got == conn[c].got \o conn[c].down  sent(n) == [i \in 1 .. n |-> <<c, i>>]
         IN \/ got = <<>>
            \/ prog.does = "echo"  /\ got = sent(Len(got))
            \/ prog.does = "shell" /\ got \in {<<TooLong>>, <<sent(conn[c].sent)>>}
    /\ \A i, j \in DOMAIN printed : i < j =>
         /\ printed[i][1] = printed[j][1] => printed[i][2] < printed[j][2]
         /\ printed[i][1] # printed[j][1] => \A k \in j .. Len(printed) : printed[k][1] # printed[i][1]
    /\ Runs("poll") =>
         {pfd[i].c : i \in 1 .. lis.cur} = {c \in ConnClients : conn[c].pc = "open"}

\* The poll() loop is in a read() that waits for its client.
PollBlocked == \E i \in 1 .. lis.cur : round = i /\ pfd[i].ready /\ ~Readable(pfd[i].c)
\* Somebody else keeps the server to himself.
Crowded(c)  == \E d \in ConnClients \ {c} : conn[d].pc = "open" /\ ~conn[d].fin

\* Whoever accepts, forks or polls has gone.
Gone        == lis.pc \in {"exit", "killed"}
\* What a client is owed: its chunks back, its command's output, or nothing.
Answers(c)  == CASE Runs("loop") -> 0
                 [] prog.does = "shell" -> 1
                 [] OTHER -> conn[c].sent

\* A client that has shut down gets all its answers and the end of the file,
\* unless the server gives it up unread (fork() failed, or too many clients);
\* a client with nothing to say holds the only permit or the loop; the server
\* waits in read() for a client that poll() has not spoken of (echo_server.c
\* lines 74-78, 110-111); or accept() or another client's death ended it.  Every
\* child is reaped, however many SIGCHLD signals were merged.
ClientsServed == \A c \in ConnClients :
    /\ child[c] = "zombie" ~> child[c] = "none" \/ Gone
    /\ conn[c].fin ~>
         \/ conn[c].pc = "ended" /\ Len(conn[c].got) = Answers(c)
         \/ conn[c].pc = "ended" /\ conn[c].got = <<>> /\ Len(conn[c].up) = conn[c].sent
         \/ conn[c].rst \/ Gone \/ PollBlocked
         \/ (Runs("loop") \/ prog = is_echo_sv_mod) /\ Crowded(c)
=============================================================================
