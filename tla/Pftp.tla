-------------------------------- MODULE Pftp --------------------------------
(***************************************************************************)
(* The file transfer programs of chapter 61.  A client connects to the     *)
(* server (the normal connection) and sends a cookie and a port, to which  *)
(* the server connects back (the priority connection).  The client then    *)
(* asks for a file, and the server sends its size and its data over the    *)
(* normal connection, one buffer whenever no request is waiting.  The      *)
(* server serves one client at a time and turns others away.               *)
(*                                                                         *)
(* A connection is a stream: recv() returns any part of what has arrived,  *)
(* so two messages may come together.  A message is never split; data is   *)
(* counted in half buffers.                                                *)
(***************************************************************************)
EXTENDS Integers, Sequences

CONSTANTS PftpClients,
          PftpFiles      \* file name -> its length in half buffers, -1: not there, -2: a bad name

ASSUME PftpAssumption == \A f \in DOMAIN PftpFiles : PftpFiles[f] \in Nat \cup {-1, -2}

VARIABLES
    sv,      \* the server: [normal, priority, file, pos, up]
    con,     \* client -> its connections, as streams of messages
    cl,      \* client -> [pc, file, size, got, merged]
    pftpon   \* whether the programs of this module run

pftpvars == <<sv, con, cl, pftpon>>

Nobody == 0
NoFile == "none"

\* The server's end of the normal connection: "none", "queued" by listen(),
\* "open" or "closed".  made: the server's connect() to the client was answered.
NoCon == [end |-> "none", alive |-> FALSE, up |-> <<>>, down |-> <<>>,
          made |-> FALSE, pup |-> <<>>, pdown |-> <<>>, pend |-> FALSE]

PftpInit == /\ sv = [normal |-> Nobody, priority |-> FALSE, file |-> NoFile, pos |-> 0, up |-> TRUE]
            /\ con = [c \in PftpClients |-> NoCon]
            /\ cl = [c \in PftpClients |-> [pc |-> "off", file |-> NoFile, size |-> -1,
                                            got |-> <<>>, merged |-> FALSE]]
            /\ pftpon \in BOOLEAN
-----------------------------------------------------------------------------
(* The client.                                                             *)

ClAt(c, pc) == pftpon /\ cl[c].pc = pc
ClTo(c, pc) == cl' = [cl EXCEPT ![c].pc = pc]
Exit(c, how) == /\ cl' = [cl EXCEPT ![c].pc = how]
                /\ con' = [con EXCEPT ![c].alive = FALSE]

\* A name that is empty, too long, hidden, absolute or has ".." in it.
BadName              == -2
validate_filename(f) == PftpFiles[f] # BadName

\* The listening socket, connect() and the CONNECT command with cookie and port.
send_connect_command(c) ==
    /\ ClAt(c, "off") /\ sv.up
    /\ \E f \in DOMAIN PftpFiles :
         IF validate_filename(f)
         THEN /\ cl' = [cl EXCEPT ![c].pc = "ok", ![c].file = f]
              /\ con' = [con EXCEPT ![c] = [NoCon EXCEPT !.end = "queued", !.alive = TRUE,
                                                         !.up = <<"CONNECT">>]]
         ELSE ClTo(c, "failed") /\ UNCHANGED con
    /\ UNCHANGED <<sv, pftpon>>

\* OK or an error.  When the server has closed the connection, recv() leaves the
\* buffer as it was: it may begin with "OK".
ReceiveOk(c) ==
    /\ ClAt(c, "ok")
    /\ \/ /\ con[c].down # <<>>
          /\ IF Head(con[c].down) = "OK"
             THEN ClTo(c, "accept") /\ con' = [con EXCEPT ![c].down = Tail(@)]
             ELSE Exit(c, "failed")
       \/ /\ con[c].down = <<>> /\ con[c].end = "closed"
          /\ \/ ClTo(c, "accept") /\ UNCHANGED con
             \/ Exit(c, "failed")
    /\ UNCHANGED <<sv, pftpon>>

accept_priority_connection(c) ==
    /\ ClAt(c, "accept") /\ con[c].made
    /\ ClTo(c, "verify")
    /\ UNCHANGED <<sv, con, pftpon>>

verify_cookie(c) ==
    /\ ClAt(c, "verify")
    /\ \/ /\ con[c].pdown # <<>>
          /\ IF Head(con[c].pdown) = <<"COOKIE", c>>
             THEN /\ con' = [con EXCEPT ![c].pdown = Tail(@), ![c].pup = Append(@, "VERIFIED")]
                  /\ ClTo(c, "request")
             ELSE Exit(c, "failed")
       \/ con[c].pdown = <<>> /\ ~con[c].pend /\ Exit(c, "failed")
    /\ UNCHANGED <<sv, pftpon>>

request_file_transfer(c) ==
    /\ ClAt(c, "request")
    /\ ClTo(c, "loop")
    /\ con' = [con EXCEPT ![c].up = Append(@, "TRANSFER")]
    /\ UNCHANGED <<sv, pftpon>>

Data(s) == SelectSeq(s, LAMBDA x : x \in Nat)

\* Mutant: data is written wherever it is in the buffer, and counted twice.
WriteData_Twice(c, s) == cl' = [cl EXCEPT
    ![c].got = @ \o Data(s),
    ![c].pc = IF 2 * Len(cl[c].got \o Data(s)) >= cl[c].size THEN "done" ELSE @]

\* Data goes to the file until it has the length that was announced.
WriteData(c, s) == cl' = [cl EXCEPT
    ![c].got = @ \o s,
    ![c].pc = IF Len(cl[c].got \o s) >= cl[c].size THEN "done" ELSE @]

\* recv() of up to a buffer.  The first message gives the size, and what came
\* with it is dropped; any other first message ends the loop.
handle_server_data(c) ==
    /\ ClAt(c, "loop")
    /\ \/ /\ con[c].down = <<>> /\ con[c].end = "closed"
          /\ Exit(c, "failed")
       \/ \E n \in 1 .. 2 :
            /\ n <= Len(con[c].down)
            /\ LET s == SubSeq(con[c].down, 1, n)
               IN IF cl[c].size # -1
                  THEN /\ WriteData(c, s)
                       /\ con' = [con EXCEPT ![c].down = SubSeq(@, n + 1, Len(@))]
                  ELSE IF Head(s)[1] = "SIZE"
                  THEN /\ cl' = [cl EXCEPT ![c].size = Head(s)[2], ![c].merged = n > 1]
                       /\ con' = [con EXCEPT ![c].down = SubSeq(@, n + 1, Len(@))]
                  ELSE Exit(c, IF Head(s)[1] = "ERROR" THEN "failed" ELSE "done")
    /\ UNCHANGED <<sv, pftpon>>

\* The success message, and the connections are closed.
Finish(c) == /\ ClAt(c, "done") /\ con[c].alive
             /\ Exit(c, "done")
             /\ UNCHANGED <<sv, pftpon>>

handle_priority_data_client(c) ==
    /\ ClAt(c, "loop") /\ con[c].pdown # <<>>
    /\ con' = [con EXCEPT ![c].pdown = <<>>]
    /\ UNCHANGED <<sv, cl, pftpon>>

\* SIGINT: a client that has its output file sends RESET, waits and exits.
cleanup_and_exit_client(c) ==
    /\ \/ /\ pftpon /\ cl[c].pc \in {"ok", "accept", "verify", "request", "loop"}
          /\ IF cl[c].size # -1
             THEN /\ con' = [con EXCEPT ![c].pup = IF con[c].pend THEN Append(@, "RESET") ELSE @]
                  /\ ClTo(c, "reset")
             ELSE Exit(c, "interrupted")
       \/ ClAt(c, "reset") /\ Exit(c, "interrupted")
    /\ UNCHANGED <<sv, pftpon>>
-----------------------------------------------------------------------------
(* The server.                                                             *)

Up == pftpon /\ sv.up

\* What select() reports.
NewReady      == \E c \in PftpClients : con[c].end = "queued"
NormalReady   == sv.normal # Nobody
                   /\ (con[sv.normal].up # <<>> \/ ~con[sv.normal].alive)
PriorityReady == sv.priority /\ (con[sv.normal].pup # <<>> \/ ~con[sv.normal].alive)

Sends(k, msg) == [k EXCEPT ![sv.normal].down = IF k[sv.normal].alive THEN Append(@, msg) ELSE @]

\* Mutant: a new client takes the place of the one that is served.
handle_new_connection_Replace ==
    /\ Up /\ \E c \in PftpClients :
         /\ con[c].end = "queued"
         /\ sv' = [sv EXCEPT !.normal = c] /\ con' = [con EXCEPT ![c].end = "open"]
    /\ UNCHANGED <<cl, pftpon>>

handle_new_connection ==
    /\ Up /\ \E c \in PftpClients :
         /\ con[c].end = "queued"
         /\ IF sv.normal = Nobody
            THEN sv' = [sv EXCEPT !.normal = c] /\ con' = [con EXCEPT ![c].end = "open"]
            ELSE UNCHANGED sv /\ con' = [con EXCEPT ![c].end = "closed"]
    /\ UNCHANGED <<cl, pftpon>>

\* The client has gone: both descriptors and the file are closed.
Disconnect == /\ con' = [con EXCEPT ![sv.normal].end = "closed", ![sv.normal].pend = FALSE]
              /\ sv' = [sv EXCEPT !.normal = Nobody, !.priority = FALSE, !.file = NoFile]

\* connect() to the client's port fails when the client has gone.
handle_connect_command ==
    IF con[sv.normal].alive
    THEN /\ sv' = [sv EXCEPT !.priority = TRUE]
         /\ con' = Sends([con EXCEPT ![sv.normal].made = TRUE, ![sv.normal].pend = TRUE,
                                     ![sv.normal].up = Tail(@),
                                     ![sv.normal].pdown = Append(@, <<"COOKIE", sv.normal>>)], "OK")
    ELSE con' = [con EXCEPT ![sv.normal].up = Tail(@)] /\ UNCHANGED sv

\* Mutant: no error is sent for a file that is not there.
handle_transfer_command_Silent ==
    LET f == cl[sv.normal].file  k == [con EXCEPT ![sv.normal].up = Tail(@)]
    IN IF ~validate_filename(f) \/ PftpFiles[f] = -1 THEN con' = k /\ UNCHANGED sv
       ELSE /\ sv' = [sv EXCEPT !.file = f, !.pos = 0]
            /\ con' = Sends(k, <<"SIZE", PftpFiles[f]>>)

handle_transfer_command ==
    LET f == cl[sv.normal].file  k == [con EXCEPT ![sv.normal].up = Tail(@)]
    IN IF ~validate_filename(f) \/ PftpFiles[f] = -1 THEN con' = Sends(k, <<"ERROR">>) /\ UNCHANGED sv
       ELSE /\ sv' = [sv EXCEPT !.file = f, !.pos = 0]
            /\ con' = Sends(k, <<"SIZE", PftpFiles[f]>>)

handle_normal_data ==
    /\ Up /\ NormalReady
    /\ IF con[sv.normal].up = <<>> THEN Disconnect
       ELSE IF Head(con[sv.normal].up) = "CONNECT" THEN handle_connect_command
       ELSE handle_transfer_command
    /\ UNCHANGED <<cl, pftpon>>

\* One buffer, when nothing is waiting; at the end of the file no message.
continue_file_transfer ==
    /\ Up /\ sv.file # NoFile /\ ~NewReady /\ ~NormalReady /\ ~PriorityReady
    /\ LET left == PftpFiles[sv.file] - sv.pos  n == IF left > 2 THEN 2 ELSE left
       IN IF n = 0 THEN sv' = [sv EXCEPT !.file = NoFile] /\ UNCHANGED con
          ELSE /\ sv' = [sv EXCEPT !.pos = @ + n]
               /\ con' = [con EXCEPT ![sv.normal].down = @ \o [i \in 1 .. n |-> sv.pos + i]]
    /\ UNCHANGED <<cl, pftpon>>

\* VERIFIED, or RESET, which ends the transfer; the two together are neither.
handle_priority_data ==
    /\ Up /\ PriorityReady
    /\ IF con[sv.normal].pup = <<>>
       THEN sv' = [sv EXCEPT !.priority = FALSE] /\ con' = [con EXCEPT ![sv.normal].pend = FALSE]
       ELSE LET k == [con EXCEPT ![sv.normal].pup = <<>>]
            IN IF con[sv.normal].pup = <<"RESET">> /\ sv.file # NoFile
               THEN /\ sv' = [sv EXCEPT !.file = NoFile]
                    /\ con' = Sends([k EXCEPT ![sv.normal].pdown = Append(@, <<"OK">>)], <<"RESET">>)
               ELSE con' = k /\ UNCHANGED sv
    /\ UNCHANGED <<cl, pftpon>>

\* SIGINT at the server.
cleanup_and_exit_server ==
    /\ Up
    /\ sv' = [sv EXCEPT !.up = FALSE, !.normal = Nobody, !.priority = FALSE, !.file = NoFile]
    /\ con' = [c \in PftpClients |-> IF con[c].end = "none" THEN con[c]
                 ELSE [con[c] EXCEPT !.end = "closed", !.pend = FALSE]]
    /\ UNCHANGED <<cl, pftpon>>

PftpServerStep == \/ handle_new_connection \/ handle_normal_data \/ handle_priority_data
                  \/ continue_file_transfer
PftpClientStep(c) == \/ ReceiveOk(c) \/ accept_priority_connection(c) \/ verify_cookie(c)
                     \/ request_file_transfer(c) \/ handle_server_data(c)
                     \/ handle_priority_data_client(c) \/ Finish(c)
                     \/ (ClAt(c, "reset") /\ cleanup_and_exit_client(c))

PftpNext == \/ PftpServerStep \/ cleanup_and_exit_server
            \/ \E c \in PftpClients : \/ send_connect_command(c) \/ PftpClientStep(c)
                                      \/ cleanup_and_exit_client(c)

PftpFairness == /\ WF_pftpvars(PftpServerStep)
                /\ \A c \in PftpClients : WF_pftpvars(PftpClientStep(c))
-----------------------------------------------------------------------------
PftpTypeOK == /\ sv.normal \in PftpClients \cup {Nobody}
              /\ sv.file \in DOMAIN PftpFiles \cup {NoFile}
              /\ sv.file # NoFile => sv.pos \in 0 .. PftpFiles[sv.file]
              /\ \A c \in PftpClients : /\ cl[c].size # -1 => cl[c].size = PftpFiles[cl[c].file]
                                       /\ con[c].end = "open" => sv.normal = c

\* A client that reports success has the whole file, every part once and in
\* order (handle_server_data(), line 247 of pftp_client.c), whatever other
\* clients, interrupts and partial reads did; and the server keeps nothing of a
\* client that has gone.
PftpWhole ==
    /\ \A c \in PftpClients : cl[c].pc = "done" =>
         cl[c].got = [i \in 1 .. PftpFiles[cl[c].file] |-> i]
    /\ sv.normal = Nobody => ~sv.priority /\ sv.file = NoFile

\* What keeps a client from ending: a size of 0; data that came with the size
\* and was dropped with it; a connection turned away, and "OK" in the buffer.
Stuck(c) == \/ cl[c].size = 0
            \/ cl[c].merged
            \/ cl[c].pc = "accept" /\ con[c].end = "closed" /\ ~con[c].made

\* Every other client ends (the event loop at line 57 of pftp_client.c "wait
\* for file transfer to complete").
PftpEnds == \A c \in PftpClients :
    (cl[c].pc # "off") ~> (cl[c].pc \in {"done", "failed", "interrupted"} \/ Stuck(c))
=============================================================================
