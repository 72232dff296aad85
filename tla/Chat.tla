-------------------------------- MODULE Chat --------------------------------
(***************************************************************************)
(* The chats of chapters 46 and 52.  Every user has a message queue of its *)
(* own, a System V queue or a POSIX queue named after the user, and a file *)
(* that tells where it is.  A session creates both, waits for the peer's,  *)
(* and forks: the child shows what arrives, the parent sends what is typed *)
(* and ends the child when its input ends.  Both processes remove the      *)
(* queue when they end.                                                    *)
(***************************************************************************)
EXTENDS Integers, Sequences

CONSTANTS ChatPrograms,   \* a subset of {"svmsg", "mq", "off"}
          MAXMSG,         \* messages that a queue holds
          MaxLines,       \* bounds: lines typed, sessions started,
          MaxSessions,    \*         signals sent from outside
          MaxChatSignals

VARIABLES
    chat,     \* the program
    mqs,      \* the queues ever created: [owner, msgs, linked]
    qfile,    \* user -> what its file in QUEUE_DIR names, 0: no file
    sess,     \* user -> the parent: [pc, q, peer, n]
    recvr,    \* user -> the children: [q, term], one for every session
    leaked,   \* users whose session died before it had its handlers
    late,     \* users who began a session while an earlier child was alive
    chatn     \* [lines, signals]

chatvars == <<chat, mqs, qfile, sess, recvr, leaked, late, chatn>>

ChatUsers == {1, 2}
Peer(u)   == 3 - u
Off       == [pc |-> "off", q |-> 0, peer |-> 0, n |-> 0]
NoChild   == [q |-> 0, term |-> FALSE]

ChatInit == /\ chat \in ChatPrograms
            /\ mqs = <<>> /\ qfile = [u \in ChatUsers |-> 0]
            /\ sess = [u \in ChatUsers |-> Off]
            /\ recvr = [u \in ChatUsers |-> [k \in 1 .. MaxSessions |-> NoChild]]
            /\ leaked = {} /\ late = {} /\ chatn = [lines |-> 0, signals |-> 0]

SessAt(u, pc) == sess[u].pc = pc
SessTo(u, pc) == sess' = [sess EXCEPT ![u].pc = pc]
Linked(u)     == {q \in DOMAIN mqs : mqs[q].owner = u /\ mqs[q].linked}
HasChild(u)   == \E k \in 1 .. MaxSessions : recvr[u][k].q # 0

\* cleanup(): the System V queue with the session's identifier, or whichever
\* queue has the user's name by now.
cleanup(u, q) == mqs' = [x \in DOMAIN mqs |->
    IF IF chat = "svmsg" THEN x = q ELSE x \in Linked(u)
    THEN [mqs[x] EXCEPT !.linked = FALSE] ELSE mqs[x]]

\* msgget(IPC_PRIVATE) makes a new queue; mq_open(O_CREAT) opens one that is there.
CreateQueue(u) ==
    /\ chat # "off" /\ SessAt(u, "off") /\ sess[1].n + sess[2].n < MaxSessions
    /\ LET old == chat = "mq" /\ Linked(u) # {}
           q   == IF old THEN CHOOSE x \in Linked(u) : TRUE ELSE Len(mqs) + 1
       IN /\ mqs' = IF old THEN mqs ELSE Append(mqs, [owner |-> u, msgs |-> <<>>, linked |-> TRUE])
          /\ sess' = [sess EXCEPT ![u] = [pc |-> "file", q |-> q, peer |-> 0, n |-> @.n + 1]]
    /\ late' = IF HasChild(u) THEN late \cup {u} ELSE late
    /\ UNCHANGED <<chat, qfile, recvr, leaked, chatn>>

write_queue_file(u) ==
    /\ SessAt(u, "file") /\ SessTo(u, "handlers")
    /\ qfile' = [qfile EXCEPT ![u] = IF chat = "svmsg" THEN sess[u].q ELSE u]
    /\ UNCHANGED <<chat, mqs, recvr, leaked, late, chatn>>

\* atexit() and signal().
InstallHandlers(u) ==
    /\ SessAt(u, "handlers") /\ SessTo(u, "find")
    /\ UNCHANGED <<chat, mqs, qfile, recvr, leaked, late, chatn>>

\* The queue that the peer's file names, if there is one: {} or {queue}.
Named(u) == IF qfile[u] = 0 THEN {}
            ELSE IF chat = "mq" THEN Linked(u)
            ELSE {q \in {qfile[u]} : mqs[q].linked}

\* The peer's file is read again until the queue it names exists.
read_peer_queue(u) ==
    /\ SessAt(u, "find")
    /\ Named(Peer(u)) # {}
    /\ sess' = [sess EXCEPT ![u].pc = "fork", ![u].peer = IF chat = "svmsg"
                  THEN qfile[Peer(u)] ELSE 0]
    /\ UNCHANGED <<chat, mqs, qfile, recvr, leaked, late, chatn>>

ForkReceiver(u) ==
    /\ SessAt(u, "fork") /\ SessTo(u, IF chat = "mq" THEN "open" ELSE "send")
    /\ recvr' = [recvr EXCEPT ![u][sess[u].n] = [q |-> sess[u].q, term |-> FALSE]]
    /\ UNCHANGED <<chat, mqs, qfile, leaked, late, chatn>>

\* mq_open() of the peer's name once more: without it the parent exits, and
\* its child does not.
OpenPeer(u) ==
    /\ SessAt(u, "open")
    /\ \/ \E q \in Named(Peer(u)) : sess' = [sess EXCEPT ![u].pc = "send", ![u].peer = q]
       \/ Named(Peer(u)) = {} /\ SessTo(u, "exit")
    /\ UNCHANGED <<chat, mqs, qfile, recvr, leaked, late, chatn>>

\* A System V queue that was removed fails the call, which is reported; a POSIX
\* queue stays as long as it is open.  A full queue blocks.
send_loop(u) ==
    /\ SessAt(u, "send") /\ chatn.lines < MaxLines
    /\ LET q == sess[u].peer
       IN IF chat = "svmsg" /\ ~mqs[q].linked THEN UNCHANGED mqs
          ELSE /\ Len(mqs[q].msgs) < MAXMSG
               /\ mqs' = [mqs EXCEPT ![q].msgs = Append(@, u)]
    /\ chatn' = [chatn EXCEPT !.lines = @ + 1]
    /\ UNCHANGED <<chat, qfile, sess, recvr, leaked, late>>

\* The end of the input: kill(pid, SIGTERM), then main() returns.
EndOfInput(u) ==
    /\ SessAt(u, "send") /\ SessTo(u, "exit")
    /\ recvr' = [recvr EXCEPT ![u][sess[u].n].term = recvr[u][sess[u].n].q # 0]
    /\ UNCHANGED <<chat, mqs, qfile, leaked, late, chatn>>

ParentExit(u) ==
    /\ SessAt(u, "exit")
    /\ sess' = [sess EXCEPT ![u].pc = "off"]
    /\ cleanup(u, sess[u].q)
    /\ UNCHANGED <<chat, qfile, recvr, leaked, late, chatn>>

\* The child: a message is shown; or the System V queue is gone, which is fatal.
receive_loop(u, k) ==
    /\ recvr[u][k].q # 0 /\ ~recvr[u][k].term
    /\ LET q == recvr[u][k].q
       IN IF chat = "svmsg" /\ ~mqs[q].linked
          THEN recvr' = [recvr EXCEPT ![u][k] = NoChild] /\ cleanup(u, q)
          ELSE /\ mqs[q].msgs # <<>>
               /\ mqs' = [mqs EXCEPT ![q].msgs = Tail(@)] /\ UNCHANGED recvr
    /\ UNCHANGED <<chat, qfile, sess, leaked, late, chatn>>

\* The handler, in the child, and in the parent by a signal from outside.
handle_sigint(u, k) ==
    /\ recvr[u][k].term
    /\ recvr' = [recvr EXCEPT ![u][k] = NoChild]
    /\ cleanup(u, recvr[u][k].q)
    /\ UNCHANGED <<chat, qfile, sess, leaked, late, chatn>>

\* SIGTERM to the parent, alone or with its child.  Before signal() is called it
\* kills the parent as it stands.
SignalParent(u) ==
    /\ sess[u].pc \notin {"off", "exit"} /\ chatn.signals < MaxChatSignals
    /\ chatn' = [chatn EXCEPT !.signals = @ + 1]
    /\ sess' = [sess EXCEPT ![u].pc = "off"]
    /\ IF sess[u].pc \in {"file", "handlers"}
       THEN leaked' = leaked \cup {u} /\ UNCHANGED mqs
       ELSE cleanup(u, sess[u].q) /\ UNCHANGED leaked
    /\ \/ UNCHANGED recvr
       \/ recvr' = [recvr EXCEPT ![u][sess[u].n].term = recvr[u][sess[u].n].q # 0]
    /\ UNCHANGED <<chat, qfile, late>>

ParentStep(u) == \/ write_queue_file(u) \/ InstallHandlers(u) \/ read_peer_queue(u)
                 \/ ForkReceiver(u) \/ OpenPeer(u) \/ ParentExit(u)
ChildStep(u)  == \E k \in 1 .. MaxSessions : receive_loop(u, k) \/ handle_sigint(u, k)

ChatNext == \E u \in ChatUsers : \/ CreateQueue(u) \/ ParentStep(u) \/ ChildStep(u)
                                 \/ send_loop(u) \/ EndOfInput(u) \/ SignalParent(u)

ChatFairness == \A u \in ChatUsers : WF_chatvars(ParentStep(u)) /\ WF_chatvars(ChildStep(u))
-----------------------------------------------------------------------------
ChatTypeOK == /\ \A q \in DOMAIN mqs : mqs[q].owner \in ChatUsers /\ Len(mqs[q].msgs) <= MAXMSG
              /\ \A u \in ChatUsers : sess[u].q \in 0 .. Len(mqs) /\ sess[u].peer \in 0 .. Len(mqs)

\* A user who is in a session has a queue that the peer can find, unless the
\* child of an earlier session came late and removed the queue of that name,
\* and a user with no process left has none, unless a signal came before the
\* handlers were set (lines 174-179 of chapter_46/chat.c).
ChatQueues == \A u \in ChatUsers :
    /\ sess[u].pc \in {"file", "handlers", "find", "fork", "send"} /\ u \notin late
         => mqs[sess[u].q].linked
    /\ sess[u].pc = "off" /\ ~HasChild(u) /\ u \notin leaked => Linked(u) = {}

\* A message that waits in the queue of a user's child is shown, or the child
\* ends; a child whose parent ended it ends.
ChatShown == \A u \in ChatUsers, k \in 1 .. MaxSessions :
    (recvr[u][k].q # 0 /\ (recvr[u][k].term \/ mqs[recvr[u][k].q].msgs # <<>>))
       ~> (recvr[u][k].q = 0 \/ (~recvr[u][k].term /\ mqs[recvr[u][k].q].msgs = <<>>))
=============================================================================
