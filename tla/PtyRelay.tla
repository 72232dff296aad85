------------------------------ MODULE PtyRelay ------------------------------
(***************************************************************************)
(* The programs of chapter 64 that sit between a terminal, a socket or a   *)
(* script on one side and a pseudoterminal on the other: a select() loop,  *)
(* two processes, or a writer that drains the answers now and then.        *)
(* Behind the pty is a shell, login or vi; behind smitty_cl's socket, the  *)
(* server.  It reads, writes and ends when it likes.                       *)
(***************************************************************************)
EXTENDS Integers, Sequences

CONSTANTS RelayPrograms,
          PTY_MAX,     \* chunks that a pty, or a socket, holds in a direction
          MaxKeys,     \* bound: chunks typed
          MaxOut,      \* bound: chunks the program behind the pty writes
          MaxResizes,  \* bound: changes of the window's size
          PIPE_MAX     \* bytes script_mod_b's pipe holds

ASSUME RelayAssumption == PTY_MAX \in Nat \ {0} /\ PIPE_MAX \in Nat \ {0}

VARIABLES
    rprog,   \* the program, or <<>>
    loop,    \* its process: [pc, ready, buf, why]
    rd, wr,  \* script_mod_3's two handlers: [pc, buf]
    keys,    \* the near side: [queue, typed, eof]
    far,     \* the pty: [to, from]
    kid,     \* behind it: [pc, open, busy, reaped, wrote]
    shown,   \* what came out at the near side
    file,    \* typescript
    tty,     \* the near terminal: "cooked" or "raw"
    size,    \* window sizes and SIGWINCH: [term, pty, pipe, unseen]
    sig,     \* a SIGCHLD or SIGWINCH that is handled is pending
    wtmp     \* smitty_sv2's records

relayvars == <<rprog, loop, rd, wr, keys, far, kid, shown, file, tty, size, sig, wtmp>>

\* What is near; how the data is relayed; where else the output goes.
Relays(near, how, keeps) == [near |-> near, how |-> how, keeps |-> keeps]

script       == Relays("tty", "select", "plain")
script_mod_a == Relays("tty", "select", "stamped")
script_mod_b == Relays("tty", "winch", "stamped")
script_ts    == Relays("tty", "select", "plain")
script_mod_3 == Relays("tty", "three", "plain")
unbuffer     == Relays("pipe", "select", "nothing")
smitty_sv    == Relays("socket", "login", "nothing")
smitty_sv2   == Relays("socket", "login", "wtmp")
smitty_cl    == Relays("tty", "client", "nothing")
vi_script    == Relays("pipe", "vi", "nothing")

RelayInit ==
    /\ rprog \in RelayPrograms
    /\ loop = [pc |-> "start", ready |-> {}, buf |-> 0, why |-> "no"]
    /\ rd = [pc |-> "none", buf |-> 0] /\ wr = [pc |-> "none", buf |-> 0]
    /\ keys = [queue |-> <<>>, typed |-> 0, eof |-> FALSE]
    /\ far = [to |-> <<>>, from |-> <<>>]
    /\ kid = [pc |-> "none", open |-> FALSE, busy |-> FALSE, reaped |-> FALSE, wrote |-> 0]
    /\ shown = <<>> /\ file = <<>> /\ tty = "cooked"
    /\ size = [term |-> 0, pty |-> 0, pipe |-> 0, unseen |-> 0] /\ sig = FALSE /\ wtmp = <<>>

At(pc)  == rprog # <<>> /\ loop.pc = pc
Go(pc)  == loop' = [loop EXCEPT !.pc = pc]
\* formatTimestamp(): the lines around the output; the chunks are 1, 2, ...
Started == -1
Done    == 0
Stamped == rprog.keeps = "stamped"

\* exit(): ttyReset() and scriptClose() run; the pty's master is closed.  A
\* process that a signal kills runs neither.  smitty_cl has no such handlers.
ttyReset(why) == tty' = IF rprog.near = "tty" /\ (rprog.how = "client" => why \in {"eof", "eio"})
                        THEN "cooked" ELSE tty
ttySetRaw     == tty' = IF rprog.near = "tty" THEN "raw" ELSE tty
scriptClose   == file' = IF Stamped THEN Append(file, Done) ELSE file
RelayExit(why) ==
    /\ loop' = [loop EXCEPT !.pc = "exit", !.why = why]
    /\ IF why = "killed" THEN UNCHANGED <<tty, file>> ELSE ttyReset(why) /\ scriptClose
recordLogin  == wtmp' = IF rprog.keeps = "wtmp" THEN Append(wtmp, "login") ELSE wtmp
recordLogout == wtmp' = IF rprog.keeps = "wtmp" THEN Append(wtmp, "logout") ELSE wtmp
-----------------------------------------------------------------------------
(* Start.                                                                  *)

\* ptyFork(), or inetConnect(): the other side runs, or the program fails.
ptyFork ==
    /\ At("start")
    /\ \/ /\ Go("setup") /\ kid' = [kid EXCEPT !.pc = "run", !.open = TRUE]
       \/ /\ loop' = [loop EXCEPT !.pc = "exit", !.why = "failed"] /\ UNCHANGED kid
    /\ UNCHANGED <<rprog, rd, wr, keys, far, shown, file, tty, size, sig, wtmp>>

\* The typescript is created (or not), the terminal is made raw, the login is
\* recorded; script_mod_3 forks its handlers.
RelaySetup ==
    /\ At("setup")
    /\ \/ /\ Go(CASE rprog.how = "three" -> "parent" [] rprog.how = "vi" -> "drain" [] OTHER -> "select")
          /\ ttySetRaw
          /\ file' = IF Stamped THEN <<Started>> ELSE <<>>
          /\ recordLogin
          /\ IF rprog.how = "three" THEN rd' = [rd EXCEPT !.pc = "read"] /\ wr' = [wr EXCEPT !.pc = "read"]
                                    ELSE UNCHANGED <<rd, wr>>
       \/ /\ rprog.keeps \in {"plain", "stamped"}
          /\ loop' = [loop EXCEPT !.pc = "exit", !.why = "failed"]
          /\ UNCHANGED <<tty, file, wtmp, rd, wr>>
    /\ UNCHANGED <<rprog, keys, far, kid, shown, size, sig>>
-----------------------------------------------------------------------------
(* The select() loop.                                                      *)

InReady  == keys.queue # <<>> \/ keys.eof
OutReady == far.from # <<>> \/ ~kid.open
Full     == kid.open /\ Len(far.to) = PTY_MAX   \* nobody reads: nothing blocks

Select ==
    /\ At("select")
    /\ LET ready == {x \in {"in", "out", "winch"} : \/ x = "in" /\ InReady
                                                    \/ x = "out" /\ OutReady
                                                    \/ x = "winch" /\ size.pipe > 0}
       IN ready # {} /\ loop' = [loop EXCEPT !.pc = "winch", !.ready = ready]
    /\ UNCHANGED <<rprog, rd, wr, keys, far, kid, shown, file, tty, size, sig, wtmp>>

\* Mutant: the size that was read when the program started is forwarded.
SetWindowSize_Old ==
    /\ At("winch") /\ Go("in")
    /\ size' = IF "winch" \in loop.ready THEN [size EXCEPT !.pipe = 0] ELSE size
    /\ UNCHANGED <<rprog, rd, wr, keys, far, kid, shown, file, tty, sig, wtmp>>

\* script_mod_b: the pipe is drained and the pty gets the terminal's size.
SetWindowSize ==
    /\ At("winch") /\ Go("in")
    /\ size' = IF "winch" \in loop.ready THEN [size EXCEPT !.pipe = 0, !.pty = size.term] ELSE size
    /\ UNCHANGED <<rprog, rd, wr, keys, far, kid, shown, file, tty, sig, wtmp>>

\* Near side to buffer.  At its end the program exits, whatever the other side
\* has still to say; so does smitty_cl at an interrupt character (key 1); a
\* server also hangs up login and records the logout.
ReadNear ==
    /\ At("in")
    /\ CASE "in" \notin loop.ready -> Go("out") /\ UNCHANGED <<keys, tty, file, wtmp>>
         [] "in" \in loop.ready /\ keys.queue # <<>> ->
              /\ keys' = [keys EXCEPT !.queue = Tail(@)] /\ UNCHANGED wtmp
              /\ IF rprog.how = "client" /\ Head(keys.queue) = 1 THEN RelayExit("eof")
                 ELSE /\ loop' = [loop EXCEPT !.pc = "write", !.buf = Head(keys.queue)]
                      /\ UNCHANGED <<tty, file>>
         [] OTHER -> RelayExit("eof") /\ recordLogout /\ UNCHANGED keys
    /\ UNCHANGED <<rprog, rd, wr, far, kid, shown, size, sig>>

\* Buffer to pty: waits while the pty is full.  When the other side has gone the
\* write() may still succeed, or it fails: fatal(), or SIGPIPE for a socket.
WriteFar ==
    /\ At("write") /\ ~Full
    /\ \/ /\ far' = IF kid.open THEN [far EXCEPT !.to = Append(@, loop.buf)] ELSE far
          /\ Go("out") /\ UNCHANGED <<tty, file>>
       \/ /\ ~kid.open
          /\ \E why \in {"fatal"} \cup (IF rprog.how = "client" THEN {"killed"} ELSE {}) : RelayExit(why)
          /\ UNCHANGED far
    /\ UNCHANGED <<rprog, rd, wr, keys, kid, shown, size, sig, wtmp>>

\* The connection of smitty_cl breaks under its write(), which may be waiting.  (A
\* read() that sees it break ends the loop, as when the server closes.)
ConnectionLost ==
    /\ At("write") /\ rprog.how = "client"
    /\ RelayExit("fatal")
    /\ UNCHANGED <<rprog, rd, wr, keys, far, kid, shown, size, sig, wtmp>>

\* Pty to buffer; EIO once the other side is closed.  The servers look whether
\* login has ended or is only opening its terminal again.
ReadFar ==
    /\ At("out")
    /\ CASE "out" \notin loop.ready -> Go("select") /\ UNCHANGED <<far, kid, tty, file, wtmp>>
         [] "out" \in loop.ready /\ far.from # <<>> ->
              /\ loop' = [loop EXCEPT !.pc = "show", !.buf = Head(far.from)]
              /\ far' = [far EXCEPT !.from = Tail(@)] /\ UNCHANGED <<kid, tty, file, wtmp>>
         [] OTHER ->
              /\ ~kid.open     \* otherwise it waits for data
              /\ IF rprog.how = "login" /\ kid.pc = "run"
                 THEN Go("select") /\ UNCHANGED <<kid, tty, file, wtmp>>
                 ELSE /\ RelayExit("eio") /\ recordLogout
                      /\ kid' = [kid EXCEPT !.reaped = (rprog.how = "login") \/ @]
              /\ UNCHANGED far
    /\ UNCHANGED <<rprog, rd, wr, keys, shown, size, sig>>

\* Buffer to the near side.  A write() to a client that has gone fails or is
\* the server process's end, without a logout.
Show ==
    /\ At("show")
    /\ \/ /\ shown' = Append(shown, loop.buf) /\ Go("keep") /\ UNCHANGED <<tty, file>>
       \/ /\ rprog.near = "socket" /\ keys.eof
          /\ \E why \in {"killed", "fatal"} : RelayExit(why)
          /\ UNCHANGED shown
    /\ UNCHANGED <<rprog, rd, wr, keys, far, kid, size, sig, wtmp>>

Keeps == rprog.keeps \in {"plain", "stamped"}

Keep ==
    /\ At("keep") /\ Go("select")
    /\ file' = IF Keeps THEN Append(file, loop.buf) ELSE file
    /\ UNCHANGED <<rprog, rd, wr, keys, far, kid, shown, tty, size, sig, wtmp>>

\* Mutant: the handler writes to a pipe that is full.
HandleSignal_Overrun ==
    /\ sig /\ sig' = FALSE /\ rprog # <<>> /\ loop.pc \notin {"start", "setup", "exit"}
    /\ kid' = [kid EXCEPT !.reaped = (rprog.how = "login") \/ @]
    /\ size' = IF rprog.how = "winch" THEN [size EXCEPT !.pipe = @ + 1] ELSE size
    /\ IF \/ rprog.how = "login" /\ loop.pc = "select"
          \/ rprog.how = "winch" /\ loop.pc = "write" /\ Full
       THEN RelayExit("fatal") ELSE UNCHANGED <<loop, tty, file>>
    /\ UNCHANGED <<rprog, rd, wr, keys, far, shown, wtmp>>

\* A handler runs.  The servers' reaps login; script_mod_b's writes to its pipe
\* unless it is full.  A select() that it interrupts ends a server (EINTR), and
\* a write() that waits ends script_mod_b; script_mod_b's select() is repeated.
HandleSignal ==
    /\ sig /\ sig' = FALSE /\ rprog # <<>> /\ loop.pc \notin {"start", "setup", "exit"}
    /\ kid' = [kid EXCEPT !.reaped = (rprog.how = "login") \/ @]
    /\ size' = IF rprog.how = "winch" /\ size.pipe < PIPE_MAX THEN [size EXCEPT !.pipe = @ + 1] ELSE size
    /\ IF \/ rprog.how = "login" /\ loop.pc = "select"
          \/ rprog.how = "winch" /\ loop.pc = "write" /\ Full
       THEN RelayExit("fatal") ELSE UNCHANGED <<loop, tty, file>>
    /\ UNCHANGED <<rprog, rd, wr, keys, far, shown, wtmp>>
-----------------------------------------------------------------------------
(* script_mod_3: a process for each direction, which exit() like the       *)
(* parent, handlers and all.                                               *)

ReaderProcess ==
    /\ rprog # <<>>
    /\ \/ /\ rd.pc = "read" /\ keys.queue # <<>>
          /\ rd' = [pc |-> "write", buf |-> Head(keys.queue)]
          /\ keys' = [keys EXCEPT !.queue = Tail(@)] /\ UNCHANGED <<far, tty>>
       \/ /\ rd.pc = "read" /\ keys.queue = <<>> /\ keys.eof
          /\ rd' = [rd EXCEPT !.pc = "exit"] /\ ttyReset("eof") /\ UNCHANGED <<keys, far>>
       \/ /\ rd.pc = "write" /\ ~kid.open           \* fatal()
          /\ rd' = [rd EXCEPT !.pc = "exit"] /\ ttyReset("fatal") /\ UNCHANGED <<keys, far>>
       \/ /\ rd.pc = "write" /\ ~Full
          /\ far' = IF kid.open THEN [far EXCEPT !.to = Append(@, rd.buf)] ELSE far
          /\ rd' = [rd EXCEPT !.pc = "read"] /\ UNCHANGED <<keys, tty>>
    /\ UNCHANGED <<rprog, loop, wr, kid, shown, file, size, sig, wtmp>>

WriterProcess ==
    /\ rprog # <<>>
    /\ \/ /\ wr.pc = "read" /\ far.from # <<>>
          /\ wr' = [pc |-> "show", buf |-> Head(far.from)]
          /\ far' = [far EXCEPT !.from = Tail(@)] /\ UNCHANGED <<shown, file, tty>>
       \/ /\ wr.pc = "read" /\ far.from = <<>> /\ ~kid.open
          /\ wr' = [wr EXCEPT !.pc = "exit"] /\ ttyReset("eio") /\ UNCHANGED <<far, shown, file>>
       \/ /\ wr.pc = "show" /\ shown' = Append(shown, wr.buf)
          /\ wr' = [wr EXCEPT !.pc = "keep"] /\ UNCHANGED <<far, file, tty>>
       \/ /\ wr.pc = "keep" /\ file' = Append(file, wr.buf)
          /\ wr' = [wr EXCEPT !.pc = "read"] /\ UNCHANGED <<far, shown, tty>>
    /\ UNCHANGED <<rprog, loop, rd, keys, kid, size, sig, wtmp>>

\* wait(): the shell's end does not matter before a handler's.  When the writer
\* has ended the reader is killed; all children are waited for.
WaitHandlers ==
    /\ At("parent")
    /\ \/ /\ wr.pc = "exit" /\ rd.pc # "exit"
          /\ rd' = [rd EXCEPT !.pc = "exit"] /\ UNCHANGED <<loop, kid, tty, file>>
       \/ /\ wr.pc = "exit" /\ rd.pc = "exit" /\ kid.pc = "zombie"
          /\ kid' = [kid EXCEPT !.reaped = TRUE] /\ RelayExit("eio") /\ UNCHANGED rd
    /\ UNCHANGED <<rprog, wr, keys, far, shown, size, sig, wtmp>>
-----------------------------------------------------------------------------
(* vi_script.                                                              *)

\* sendCommand(): characters of a line; drainOutput() after it.
sendCommand ==
    /\ At("send") /\ keys.queue # <<>> /\ ~Full
    /\ far' = IF kid.open THEN [far EXCEPT !.to = Append(@, Head(keys.queue))] ELSE far
    /\ keys' = [keys EXCEPT !.queue = Tail(@)]
    /\ \/ \E next \in {"send", "drain"} : Go(next) /\ UNCHANGED <<tty, file>>
       \/ ~kid.open /\ RelayExit("fatal")
    /\ UNCHANGED <<rprog, rd, wr, kid, shown, size, sig, wtmp>>

drainOutput ==
    /\ At("drain")
    /\ IF far.from # <<>> THEN far' = [far EXCEPT !.from = Tail(@)] /\ UNCHANGED loop
                          ELSE Go("send") /\ UNCHANGED far
    /\ UNCHANGED <<rprog, rd, wr, keys, kid, shown, file, tty, size, sig, wtmp>>

\* The script's end: what vi has written so far is drained, the master closed.
CloseMaster ==
    /\ At("send") /\ keys.queue = <<>>
    /\ far' = [far EXCEPT !.from = <<>>] /\ Go("closed")
    /\ UNCHANGED <<rprog, rd, wr, keys, kid, shown, file, tty, size, sig, wtmp>>

WaitForVi ==
    /\ At("closed") /\ kid.pc = "zombie"
    /\ kid' = [kid EXCEPT !.reaped = TRUE] /\ RelayExit("eof")
    /\ UNCHANGED <<rprog, rd, wr, keys, far, shown, size, sig, wtmp>>
-----------------------------------------------------------------------------
(* The user and the program behind the pty.                                *)

Type ==
    /\ rprog # <<>> /\ ~keys.eof /\ loop.pc # "exit"
    /\ \/ /\ keys.typed < MaxKeys
          /\ \E key \in IF rprog.how = "client" THEN {1, 2} ELSE {2} :
               keys' = [keys EXCEPT !.typed = @ + 1, !.queue = Append(@, key)]
       \/ keys' = [keys EXCEPT !.eof = TRUE]
    /\ UNCHANGED <<rprog, loop, rd, wr, far, kid, shown, file, tty, size, sig, wtmp>>

Resize ==
    /\ rprog # <<>> /\ rprog.how = "winch" /\ size.term < MaxResizes /\ loop.pc # "exit"
    /\ IF loop.pc \in {"start", "setup"}      \* no handler yet
       THEN size' = [size EXCEPT !.term = @ + 1, !.unseen = size.term + 1] /\ UNCHANGED sig
       ELSE size' = [size EXCEPT !.term = @ + 1] /\ sig' = TRUE
    /\ UNCHANGED <<rprog, loop, rd, wr, keys, far, kid, shown, file, tty, wtmp>>

\* The master's last descriptor is closed: SIGHUP and an end of file.
HungUp == loop.pc \in {"exit", "closed"} \/ (rd.pc = "exit" /\ wr.pc = "exit")

KidStep ==
    /\ rprog # <<>> /\ kid.pc = "run"
    /\ \/ /\ kid.open /\ ~kid.busy /\ far.to # <<>>
          /\ far' = [far EXCEPT !.to = Tail(@)] /\ UNCHANGED kid
       \/ /\ kid.open /\ ~kid.busy /\ kid.wrote < MaxOut
          /\ kid' = [kid EXCEPT !.busy = TRUE] /\ UNCHANGED far
       \/ /\ rprog.how = "login" /\ ~kid.open      \* login opens its terminal again
          /\ kid' = [kid EXCEPT !.open = TRUE] /\ UNCHANGED far
       \/ /\ kid.open /\ ~kid.busy
          /\ kid' = [kid EXCEPT !.open = FALSE] /\ far' = [far EXCEPT !.to = <<>>]
    /\ UNCHANGED <<rprog, loop, rd, wr, keys, shown, file, tty, size, sig, wtmp>>

KidWrites ==
    /\ kid.pc = "run" /\ kid.busy /\ Len(far.from) < PTY_MAX
    /\ far' = [far EXCEPT !.from = Append(@, kid.wrote + 1)]
    /\ kid' = [kid EXCEPT !.busy = FALSE, !.wrote = @ + 1]
    /\ UNCHANGED <<rprog, loop, rd, wr, keys, shown, file, tty, size, sig, wtmp>>

\* It ends after it has closed its terminal, or when it is hung up.
KidExits ==
    /\ kid.pc = "run" /\ (HungUp \/ ~kid.open)
    /\ kid' = [kid EXCEPT !.pc = "zombie", !.open = FALSE, !.busy = FALSE]
    /\ sig' = (sig \/ rprog.how = "login")
    /\ UNCHANGED <<rprog, loop, rd, wr, keys, far, shown, file, tty, size, wtmp>>

LoopStep == \/ Select \/ SetWindowSize \/ ReadNear \/ WriteFar \/ ReadFar \/ Show \/ Keep
            \/ sendCommand \/ drainOutput \/ CloseMaster \/ WaitForVi \/ WaitHandlers

RelayNext == \/ ptyFork \/ RelaySetup \/ LoopStep \/ HandleSignal \/ ConnectionLost \/ ReaderProcess \/ WriterProcess
             \/ Type \/ Resize \/ KidStep \/ KidWrites \/ KidExits

\* Processes run; the user types nothing and the program behind the pty reads
\* nothing unless it wants to, but it finishes a write and obeys a hangup.  No
\* connection needs to break.
RelayFairness == /\ WF_relayvars(ptyFork \/ RelaySetup) /\ WF_relayvars(LoopStep)
                 /\ WF_relayvars(HandleSignal) /\ WF_relayvars(ReaderProcess)
                 /\ WF_relayvars(WriterProcess) /\ WF_relayvars(KidWrites) /\ WF_relayvars(KidExits)
-----------------------------------------------------------------------------
RelayTypeOK == /\ Len(far.to) <= PTY_MAX /\ Len(far.from) <= PTY_MAX
               /\ size.pipe \in 0 .. PIPE_MAX /\ kid.wrote \in 0 .. MaxOut
               /\ loop.why \in {"no", "failed", "eof", "eio", "fatal", "killed"}

\* What is shown is what the other side wrote, in order, none missing and none
\* twice, and the typescript is what was shown, between its two stamps.  When
\* the program has exited the terminal is as it was, but for smitty_cl's when a
\* write() to its server failed or SIGPIPE killed it (no exit handler restores
\* it); and a recorded login is followed by its logout, unless SIGCHLD
\* interrupted select() or a write() to the client or to the pty failed.
RelaySafe ==
    rprog # <<>> =>
    /\ rprog.how # "vi" => shown = [i \in 1 .. Len(shown) |-> i]
    /\ Keeps /\ loop.pc \notin {"start", "setup"} /\ loop.why # "failed" =>
         LET body == SelectSeq(file, LAMBDA x : x \notin {Started, Done})
         IN /\ Len(body) \in {Len(shown), Len(shown) - 1} /\ body = SubSeq(shown, 1, Len(body))
            /\ loop.pc = "exit" => body = shown
            /\ Stamped => file[1] = Started /\ (loop.pc = "exit" => file[Len(file)] = Done)
    /\ loop.pc = "exit" =>
         tty = "cooked" \/ (rprog.how = "client" /\ loop.why \in {"fatal", "killed"})
    /\ loop.pc = "exit" /\ wtmp # <<>> =>
         wtmp = (IF loop.why \in {"fatal", "killed"} THEN <<"login">> ELSE <<"login", "logout">>)

\* The one process waits to write to a pty that nobody reads.
Blocked == Full /\ (loop.pc = "write" \/ (loop.pc = "send" /\ keys.queue # <<>>))

\* All that the other side writes is shown, unless the near side ended first or
\* the one process is blocked; script_mod_3's two never are.  When the program
\* behind the pty has ended so does the relay.  The pty gets the
\* window's size, unless it changed before the handler was there.
RelayEnds ==
    /\ \A n \in 1 .. MaxOut : kid.wrote >= n ~>
          \/ Len(shown) >= n \/ Blocked
          \/ rprog = vi_script \/ (loop.pc = "exit" /\ loop.why \in {"eof", "fatal", "killed", "failed"})
    /\ kid.pc = "zombie" ~> loop.pc = "exit"
    /\ \A n \in 1 .. MaxResizes : size.term >= n /\ size.term > size.unseen
                               ~> size.pty >= n \/ Blocked \/ loop.pc = "exit"
=============================================================================
