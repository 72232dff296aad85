------------------------------- MODULE Pipes -------------------------------
(***************************************************************************)
(* Processes and threads around pipes and a mutex: mypopen() and           *)
(* mypclose() (chapter_44/popen.c), uppercase (chapter_44), msgq_select    *)
(* (chapter_63) and one_time_init() (chapter_31).  A behaviour runs one.   *)
(***************************************************************************)
EXTENDS Integers, Sequences, FiniteSets

CONSTANTS
    PipePrograms,    \* the programs of this module that a behaviour may run; <<>> is none
    PIPE_ROOM,       \* what fits in a pipe: chunks, or longest messages of msgq_select
    MaxData,         \* bound: chunks printed to or by a popen()ed command; stdio's buffer holds them
    MAX_MSG_SIZE,    \* the longest message msgq_select takes, in pieces
    MaxMsgs,         \* bound: messages sent to the queue of msgq_select
    OtThreads        \* the threads of one_time

ASSUME PipesAssumption == PIPE_ROOM \in Nat \ {0} /\ MAX_MSG_SIZE \in Nat \ {0}

VARIABLES
    pp,      \* the program
    pv       \* its state: a record of the program's kind

pipevars == <<pp, pv>>

\* The programs.  modes: of the streams a program of popen() opens, in order; "f"
\* is a stream that it has from fopen() and gives to mypclose() all the same.
popen(modes)  == [kind |-> "popen", modes |-> modes]
uppercase(in) == [kind |-> "uppercase", in |-> in]
msgq_select   == [kind |-> "msgq"]
one_time      == [kind |-> "once"]

Runs(kind) == pp # <<>> /\ pp.kind = kind
Set(r)    == pv' = r /\ UNCHANGED pp

State(p) ==
    IF p = <<>> THEN <<>>
    ELSE CASE p.kind = "popen" ->
               LET S == DOMAIN p.modes
               IN [st |-> [i \in S |-> "none"], child |-> [i \in S |-> "none"],
                   buf |-> [i \in S |-> 0], pipe |-> [i \in S |-> 0], done |-> [i \in S |-> 0],
                   holds |-> [i \in S |-> {}], fd |-> [i \in S |-> 0],
                   fd_to_pid |-> [f \in S |-> 0], ret |-> [i \in S |-> "none"],
                   early |-> {}, stolen |-> {}]
           [] p.kind = "uppercase" ->
               [left |-> p.in, buf |-> <<>>, ppc |-> "read", cbuf |-> <<>>, cpc |-> "read",
                req |-> <<>>, res |-> <<>>, out |-> <<>>, open |-> TRUE]
           [] p.kind = "msgq" ->
               [sent |-> <<>>, removed |-> FALSE, taken |-> 0, msg |-> 0, pipe |-> <<>>,
                shown |-> <<>>, merged |-> {}, tty |-> "quiet", ready |-> {}, ppc |-> "select",
                child |-> "runs"]
           [] p.kind = "once" ->
               [owner |-> 0, initialized |-> FALSE, runs |-> 0, ran |-> 0,
                pc |-> [t \in OtThreads |-> "call"], calls |-> [t \in OtThreads |-> 0]]

PipesInit == pp \in PipePrograms /\ pv = State(pp)

-----------------------------------------------------------------------------
(* mypopen() and mypclose().  fd[i] is the descriptor of stream i; holds[i] *)
(* who has the parent's end of it open: the parent (0), and the children    *)
(* forked while it had.  A child has the number of its stream as its pid.   *)

PopenIds == 1 .. 2   \* bound: streams that a program opens
Parent == 0
Streams == DOMAIN pp.modes
Busy    == \E i \in Streams : pv.st[i] \in {"flushing", "waiting"}    \* in mypclose()
FreeFds == Streams \ {pv.fd[i] : i \in {k \in Streams : pv.st[k] = "open"}}
NextStream(i) == /\ Runs("popen") /\ i \in Streams /\ ~Busy
             /\ pv.st[i] = "none" /\ \A k \in Streams : k < i => pv.st[k] # "none"
OpenStream(i) == Runs("popen") /\ i \in Streams /\ ~Busy /\ pv.st[i] = "open"

\* pipe(), fdopen(), fork(); the child closes its parent_end, and only that one.
\* Another mode than "r" and "w" is refused and leaves nothing behind.
mypopen(i) ==
    /\ NextStream(i) /\ pp.modes[i] # "f"
    /\ \E f \in FreeFds :
         Set([pv EXCEPT !.st[i] = "open", !.child[i] = "runs", !.fd[i] = f, !.fd_to_pid[f] = i,
                        !.holds = [k \in Streams |-> IF k = i THEN {Parent}
                                                     ELSE IF Parent \in @[k] THEN @[k] \cup {i}
                                                     ELSE @[k]]])

fopen(i) == /\ NextStream(i) /\ pp.modes[i] = "f"
            /\ \E f \in FreeFds : Set([pv EXCEPT !.st[i] = "open", !.fd[i] = f])

\* The parent prints to a stream, into stdio's buffer, or reads from one.
UseStream(i) ==
    /\ OpenStream(i)
    /\ \/ /\ pp.modes[i] = "w" /\ pv.done[i] < MaxData
          /\ Set([pv EXCEPT !.buf[i] = @ + 1, !.done[i] = @ + 1])
       \/ /\ pp.modes[i] = "r" /\ pv.pipe[i] > 0
          /\ Set([pv EXCEPT !.pipe[i] = @ - 1])

\* ECHILD for a descriptor without a child: the stream stays open.
mypclose(i) ==
    /\ OpenStream(i)
    /\ Set(IF pv.fd_to_pid[pv.fd[i]] <= 0 THEN [pv EXCEPT !.ret[i] = "fail"]
           ELSE [pv EXCEPT !.st[i] = "flushing"])

\* fclose() writes what is in the buffer and closes the descriptor.  When the
\* command has ended that write fails (SIGPIPE is ignored) and so does
\* mypclose(): it waits for nobody and leaves its entry in fd_to_pid.
Flush(i) ==
    LET shut == [pv EXCEPT !.holds[i] = @ \ {Parent}, !.buf[i] = 0]
    IN /\ Runs("popen") /\ i \in Streams /\ pv.st[i] = "flushing"
       /\ \/ pv.buf[i] = 0 /\ Set([shut EXCEPT !.st[i] = "waiting"])
          \/ /\ pv.buf[i] > 0 /\ pv.child[i] = "runs" /\ pv.pipe[i] < PIPE_ROOM
             /\ Set([pv EXCEPT !.buf[i] = @ - 1, !.pipe[i] = @ + 1])
          \/ /\ pv.buf[i] > 0 /\ pv.child[i] # "runs"
             /\ Set([shut EXCEPT !.st[i] = "closed", !.ret[i] = "fail"])

\* waitpid() for the child of that descriptor; it fails when somebody else has
\* waited for that child.
Waited(i) ==
    /\ Runs("popen") /\ i \in Streams /\ pv.st[i] = "waiting"
    /\ LET pid == pv.fd_to_pid[pv.fd[i]]
       IN \/ /\ pv.child[pid] = "zombie"
             /\ Set([pv EXCEPT !.st[i] = "closed", !.child[pid] = "reaped",
                               !.fd_to_pid[pv.fd[i]] = 0, !.ret[i] = "status"])
          \/ /\ pv.child[pid] = "reaped"
             /\ Set([pv EXCEPT !.st[i] = "closed", !.ret[i] = "fail"])

Ended(i) == [pv EXCEPT !.child[i] = "zombie", !.holds = [k \in Streams |-> @[k] \ {i}]]

\* A command writes to its end until it has written all, or nobody can read it;
\* a command that reads its end goes on until nobody can write to it any more.
Command(i) ==
    /\ Runs("popen") /\ i \in Streams /\ pv.child[i] = "runs"
    /\ \/ /\ pp.modes[i] = "r" /\ pv.done[i] < MaxData /\ pv.holds[i] # {}
          /\ pv.pipe[i] < PIPE_ROOM
          /\ Set([pv EXCEPT !.pipe[i] = @ + 1, !.done[i] = @ + 1])
       \/ /\ pp.modes[i] = "r" /\ (pv.done[i] = MaxData \/ pv.holds[i] = {})
          /\ Set(Ended(i))
       \/ /\ pp.modes[i] = "w" /\ pv.pipe[i] > 0
          /\ Set([pv EXCEPT !.pipe[i] = @ - 1])
       \/ /\ pp.modes[i] = "w" /\ pv.pipe[i] = 0 /\ pv.holds[i] = {}
          /\ Set(Ended(i))

\* A command may also end before that: the shell did not find it, it fails, it
\* has seen enough.  early: those that did.
EarlyExit(i) == /\ Runs("popen") /\ i \in Streams /\ pv.child[i] = "runs"
                /\ Set([Ended(i) EXCEPT !.early = @ \cup {i}])

\* The program itself waits for a child of mypopen().  stolen: those.
WaitAny(i) == /\ Runs("popen") /\ i \in Streams /\ ~Busy /\ pv.child[i] = "zombie"
              /\ Set([pv EXCEPT !.child[i] = "reaped", !.stolen = @ \cup {i}])

-----------------------------------------------------------------------------
(* uppercase *)

Upper(c) == CASE c = "a" -> "A" [] c = "b" -> "B" [] OTHER -> c
First(s, k) == SubSeq(s, 1, k)
Rest(s, k)  == SubSeq(s, k + 1, Len(s))

\* The parent reads a piece of its input, or closes the pipe at its end.
ReadInput ==
    /\ Runs("uppercase") /\ pv.ppc = "read"
    /\ \/ \E k \in 1 .. Len(pv.left) : /\ k <= PIPE_ROOM
                                       /\ Set([pv EXCEPT !.buf = First(pv.left, k), !.ppc = "send",
                                                         !.left = Rest(@, k)])
       \/ pv.left = <<>> /\ Set([pv EXCEPT !.open = FALSE, !.ppc = "exit"])

SendPiece == /\ Runs("uppercase") /\ pv.ppc = "send" /\ Len(pv.req) + Len(pv.buf) <= PIPE_ROOM
             /\ Set([pv EXCEPT !.req = @ \o pv.buf, !.ppc = "back"])

\* read() of as many bytes as were sent: fewer end the program.
ReadBack == /\ Runs("uppercase") /\ pv.ppc = "back" /\ (pv.res # <<>> \/ pv.cpc = "exit")
            /\ LET k == IF Len(pv.res) < Len(pv.buf) THEN Len(pv.res) ELSE Len(pv.buf)
               IN Set([pv EXCEPT !.res = Rest(@, k), !.out = @ \o First(pv.res, k),
                                 !.ppc = IF k = Len(pv.buf) THEN "read" ELSE "failed"])

\* The child reads all there is, or the end of the file.
ChildRead ==
    /\ Runs("uppercase") /\ pv.cpc = "read"
    /\ \/ /\ pv.req # <<>>
          /\ Set([pv EXCEPT !.cbuf = [i \in DOMAIN pv.req |-> Upper(pv.req[i])], !.req = <<>>,
                            !.cpc = "answer"])
       \/ pv.req = <<>> /\ ~pv.open /\ Set([pv EXCEPT !.cpc = "exit"])

ChildAnswer == /\ Runs("uppercase") /\ pv.cpc = "answer" /\ Len(pv.res) + Len(pv.cbuf) <= PIPE_ROOM
               /\ Set([pv EXCEPT !.res = @ \o pv.cbuf, !.cbuf = <<>>, !.cpc = "read"])

-----------------------------------------------------------------------------
(* msgq_select *)

\* Another process sends a message of n pieces, or removes the queue.
SendMsg == /\ Runs("msgq") /\ Len(pv.sent) < MaxMsgs /\ ~pv.removed
           /\ \E n \in 1 .. MAX_MSG_SIZE + 1 : Set([pv EXCEPT !.sent = Append(@, n)])
RemoveQueue == Runs("msgq") /\ ~pv.removed /\ Set([pv EXCEPT !.removed = TRUE])

\* The user types a line, or ends the terminal's input.
Type == /\ Runs("msgq") /\ pv.tty = "quiet"
        /\ \E what \in {"line", "eof"} : Set([pv EXCEPT !.tty = what])

\* The child takes a message from the queue; that fails, and ends the child, when
\* the queue is gone or the message is too long.  It writes the message with its
\* NUL, all at once; without a reader that write ends it.
TakeMsg == /\ Runs("msgq") /\ pv.child = "runs" /\ pv.msg = 0
           /\ \/ /\ ~pv.removed /\ pv.taken < Len(pv.sent) /\ pv.sent[pv.taken + 1] <= MAX_MSG_SIZE
                 /\ Set([pv EXCEPT !.taken = @ + 1, !.msg = pv.taken + 1])
              \/ /\ pv.removed \/ (pv.taken < Len(pv.sent) /\ pv.sent[pv.taken + 1] > MAX_MSG_SIZE)
                 /\ Set([pv EXCEPT !.child = "ended"])
CopyMsg == /\ Runs("msgq") /\ pv.child = "runs" /\ pv.msg # 0
           /\ \/ /\ pv.ppc # "exit" /\ Len(pv.pipe) + pv.sent[pv.msg] <= PIPE_ROOM * MAX_MSG_SIZE
                 /\ Set([pv EXCEPT !.pipe = @ \o [k \in 1 .. pv.sent[pv.msg] |-> pv.msg], !.msg = 0])
              \/ pv.ppc = "exit" /\ Set([pv EXCEPT !.child = "ended"])

\* select() says what is readable, an end of file too; the terminal is served first.
Select == LET r == (IF pv.tty # "quiet" THEN {"tty"} ELSE {})
                   \cup (IF pv.pipe # <<>> \/ pv.child = "ended" THEN {"pipe"} ELSE {})
          IN /\ Runs("msgq") /\ pv.ppc = "select" /\ r # {}
             /\ Set([pv EXCEPT !.ready = r, !.ppc = "tty"])
ServeTty == /\ Runs("msgq") /\ pv.ppc = "tty"
            /\ Set(IF "tty" \notin pv.ready THEN [pv EXCEPT !.ppc = "pipe"]
                   ELSE IF pv.tty = "eof" THEN [pv EXCEPT !.ppc = "exit"]
                   ELSE [pv EXCEPT !.ppc = "pipe", !.tty = "quiet"])

\* One read() takes up to MAX_MSG_SIZE pieces, of one message or more, and printf()
\* shows the first message of them, or what an earlier read() has left of it.
ServePipe ==
    /\ Runs("msgq") /\ pv.ppc = "pipe"
    /\ LET max   == IF Len(pv.pipe) < MAX_MSG_SIZE THEN Len(pv.pipe) ELSE MAX_MSG_SIZE
           buf   == First(pv.pipe, max)
           whole == Cardinality({k \in 1 .. max : buf[k] = buf[1]}) = pv.sent[buf[1]]
       IN Set(IF "pipe" \notin pv.ready THEN [pv EXCEPT !.ppc = "select", !.ready = {}]
              ELSE IF pv.pipe = <<>> THEN [pv EXCEPT !.ppc = "exit"]
              ELSE [pv EXCEPT !.ppc = "select", !.ready = {}, !.pipe = Rest(@, max),
                              !.shown = Append(@, [msg |-> buf[1], whole |-> whole]),
                              !.merged = @ \cup ({buf[k] : k \in 2 .. max} \ {buf[1]})])

-----------------------------------------------------------------------------
(* one_time_init(), called twice by every thread *)

Lock(t)  == /\ Runs("once") /\ pv.pc[t] = "call" /\ pv.calls[t] < 2 /\ pv.owner = 0
            /\ Set([pv EXCEPT !.owner = t, !.pc[t] = "test"])
Test(t)  == /\ Runs("once") /\ pv.pc[t] = "test"
            /\ Set([pv EXCEPT !.pc[t] = IF pv.initialized THEN "unlock" ELSE "init"])
\* (*init)() begins, and has ended.
RunInit(t) == /\ Runs("once")
              /\ \/ pv.pc[t] = "init" /\ Set([pv EXCEPT !.pc[t] = "inside", !.runs = @ + 1])
                 \/ /\ pv.pc[t] = "inside"
                    /\ Set([pv EXCEPT !.pc[t] = "unlock", !.ran = @ + 1, !.initialized = TRUE])
Unlock(t) == /\ Runs("once") /\ pv.pc[t] = "unlock"
             /\ Set([pv EXCEPT !.owner = 0, !.pc[t] = "call", !.calls[t] = @ + 1])

PipeProgram ==
    \/ \E i \in PopenIds : mypopen(i) \/ fopen(i) \/ mypclose(i) \/ UseStream(i)
    \/ ReadInput \/ SendPiece \/ ReadBack
    \/ Select \/ ServeTty \/ ServePipe
    \/ \E t \in OtThreads : Lock(t) \/ Test(t) \/ RunInit(t) \/ Unlock(t)
PipesNext == \/ PipeProgram
             \/ \E i \in PopenIds : Flush(i) \/ Waited(i) \/ Command(i) \/ EarlyExit(i) \/ WaitAny(i)
             \/ ChildRead \/ ChildAnswer
             \/ SendMsg \/ RemoveQueue \/ Type \/ TakeMsg \/ CopyMsg

\* Each process and thread goes on when it can; the program that uses popen()
\* may do what it likes, no command needs to end early, senders and users need
\* not do anything.
PipesFairness ==
    /\ \A i \in PopenIds : WF_pipevars(Command(i)) /\ WF_pipevars(Flush(i) \/ Waited(i))
    /\ WF_pipevars(ReadInput \/ SendPiece \/ ReadBack) /\ WF_pipevars(ChildRead \/ ChildAnswer)
    /\ WF_pipevars(Select \/ ServeTty \/ ServePipe) /\ WF_pipevars(TakeMsg \/ CopyMsg)
    /\ \A t \in OtThreads : WF_pipevars(Lock(t) \/ Test(t) \/ RunInit(t) \/ Unlock(t))
-----------------------------------------------------------------------------
\* The types of the programs' variables.
PipesTypeOK ==
    /\ Runs("popen") =>
         /\ \A i \in Streams :
              /\ pv.st[i] \in {"none", "open", "flushing", "waiting", "closed"}
              /\ pv.child[i] \in {"none", "runs", "zombie", "reaped"}
              /\ pv.pipe[i] \in 0 .. PIPE_ROOM /\ {pv.done[i], pv.buf[i]} \subseteq 0 .. MaxData
              /\ pv.holds[i] \subseteq {Parent} \cup Streams
              /\ {pv.fd[i], pv.fd_to_pid[i]} \subseteq {0} \cup Streams
              /\ pv.ret[i] \in {"none", "status", "fail"}
         /\ pv.early \cup pv.stolen \subseteq Streams
    /\ Runs("uppercase") => Len(pv.req) <= PIPE_ROOM /\ Len(pv.res) <= PIPE_ROOM
    /\ Runs("msgq") => pv.taken \in 0 .. Len(pv.sent) /\ Len(pv.pipe) <= PIPE_ROOM * MAX_MSG_SIZE
    /\ Runs("once") => pv.owner \in OtThreads \cup {0} /\ pv.runs \in Nat /\ pv.ran \in 0 .. pv.runs

\* popen.c: mypclose() returns a status only when it has waited for the stream's
\* own command, which, unless it ended early, has taken all that was printed to
\* it.  It fails only for a command to which something was left to write when it
\* ended early, or for which the program had waited itself; so a stream read from
\* is always closed with a status, whenever its command ends.  A stream that
\* mypopen() did not open never gets a status, unless a mypclose() that failed
\* has left a child in fd_to_pid; the entry of an open stream is its own child's.
PopenSafe ==
    Runs("popen") => \A i \in Streams :
      /\ pv.ret[i] = "status" /\ pp.modes[i] # "f" =>
           /\ pv.child[i] = "reaped" /\ i \notin pv.stolen
           /\ pp.modes[i] = "w" /\ i \notin pv.early => pv.buf[i] = 0 /\ pv.pipe[i] = 0
      /\ pv.ret[i] = "fail" /\ pp.modes[i] # "f" =>
           i \in pv.stolen \/ (pp.modes[i] = "w" /\ i \in pv.early /\ pv.child[i] # "runs")
      /\ pv.ret[i] = "status" /\ pp.modes[i] = "f" =>
           \E j \in Streams : pp.modes[j] # "f" /\ pv.ret[j] = "fail" /\ pv.fd[j] = pv.fd[i]
      /\ pv.st[i] = "open" /\ pp.modes[i] # "f" => pv.fd_to_pid[pv.fd[i]] = i

\* uppercase shows its input in capitals, no byte lost, moved or twice, and never
\* reads back a part.  msgq_select shows messages in order and once, misses only
\* those it read together with an earlier one, and shows a part of a message only
\* when it read the beginning so.  The function given to one_time_init() runs
\* once, and has ended when a call returns.
PipesSafe ==
    /\ PopenSafe
    /\ Runs("uppercase") =>
         /\ pv.ppc # "failed"
         /\ pv.out = [i \in 1 .. Len(pv.out) |-> Upper(pp.in[i])]
         /\ pv.ppc = "exit" => Len(pv.out) = Len(pp.in)
    /\ Runs("msgq") =>
         /\ \A i, j \in DOMAIN pv.shown : i < j => pv.shown[i].msg < pv.shown[j].msg
         /\ \A i \in DOMAIN pv.shown : ~pv.shown[i].whole => pv.shown[i].msg \in pv.merged
         /\ \A m \in 1 .. pv.taken : pv.msg # m /\ (\A k \in DOMAIN pv.pipe : pv.pipe[k] # m) =>
              m \in {pv.shown[i].msg : i \in DOMAIN pv.shown} \cup pv.merged
    /\ Runs("once") =>
         /\ pv.runs <= 1
         /\ \A t \in OtThreads : pv.calls[t] > 0 => pv.ran = 1

\* mypclose() returns, unless a command started later has kept the stream's end.
\* uppercase ends with its input.  Each message is taken from the queue and the
\* pipe while the program runs, and the program ends when its child has.  No
\* thread waits for one_time_init() for ever.
PipesEnd ==
    /\ \A i \in PopenIds :
         (Runs("popen") /\ i \in Streams /\ pv.st[i] \in {"flushing", "waiting"}) ~>
           (Runs("popen") /\ i \in Streams /\ (pv.st[i] = "closed" \/ pv.holds[i] \ {Parent} # {}))
    /\ Runs("uppercase") ~> (Runs("uppercase") /\ pv.ppc = "exit" /\ pv.cpc = "exit")
    /\ \A k \in 1 .. MaxMsgs :
         (Runs("msgq") /\ Len(pv.sent) >= k) ~>
           (Runs("msgq") /\ (pv.ppc = "exit"
                            \/ k \in {pv.shown[i].msg : i \in DOMAIN pv.shown} \cup pv.merged))
    /\ (Runs("msgq") /\ pv.child = "ended") ~> (Runs("msgq") /\ pv.ppc = "exit")
    /\ Runs("once") ~> (Runs("once") /\ \A t \in OtThreads : pv.calls[t] = 2)
=============================================================================
