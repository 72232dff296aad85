------------------------------ MODULE Wakeups ------------------------------
(***************************************************************************)
(* Programs that wait for a signal that may come a moment too early: the   *)
(* self-pipe programs of chapter_63, the message notification programs of  *)
(* chapter_52, and the parents and children of chapters 24 and 47 that     *)
(* wait for each other.  A behaviour runs one program.                     *)
(***************************************************************************)
EXTENDS Integers

CONSTANTS
    Waiters,        \* the programs of this module that a behaviour may run; <<>> is none
    PIPE_CAPACITY,  \* bytes that fit in the pipe
    MaxSignals,     \* bound: how many SIGINTs the user sends
    MaxMessages     \* bound: how many messages are sent to the queue

VARIABLES
    wk,      \* the program
    wpc,     \* where its processes are: [main, child]
    ws       \* what it and the kernel hold: a record of the program's kind

wakevars == <<wk, wpc, ws>>

\* The programs.  timeout: select() has one; drains: it reads the input it sees.
self_pipe(timeout)        == [kind |-> "pipe", timeout |-> timeout, drains |-> FALSE]
select_self_pipe(timeout) == [kind |-> "pipe", timeout |-> timeout, drains |-> TRUE]
\* again: whether it registers again after a notification.
mq_notify_sig      == [kind |-> "notify", again |-> TRUE, by |-> "sigsuspend"]
mq_notify_sig_mod  == [kind |-> "notify", again |-> FALSE, by |-> "sigsuspend"]
mq_notify_sig_mod2 == [kind |-> "notify", again |-> TRUE, by |-> "sigwaitinfo"]
\* by: what they wait for; both: the child waits for the parent as well.
fork_sig_sync      == [kind |-> "sync", by |-> "signal", both |-> FALSE]
fork_sig_sync_mod  == [kind |-> "sync", by |-> "signal", both |-> TRUE]
fork_sem_sync      == [kind |-> "sync", by |-> "semaphore", both |-> FALSE]

StateOf(p) ==
    IF p = <<>> THEN <<>>
    ELSE CASE p.kind = "pipe"   -> [pipe |-> 0, caught |-> 0, input |-> FALSE, sent |-> 0,
                                    seen |-> [pipe |-> FALSE, input |-> FALSE], before |-> 0,
                                    told |-> FALSE]
           [] p.kind = "notify" -> [queue |-> 0, sent |-> 0, read |-> 0, registered |-> FALSE,
                                    pending |-> FALSE, early |-> FALSE]
           [] p.kind = "sync"   -> [pending |-> [main |-> FALSE, child |-> FALSE], worked |-> FALSE]

WakeInit == /\ wk \in Waiters
            /\ wpc = [main |-> "start", child |-> "none"]
            /\ ws = StateOf(wk)

Is(kind)        == wk # <<>> /\ wk.kind = kind
At(kind, p, pc) == Is(kind) /\ wpc[p] = pc
Goes(p, pc)     == wpc' = [wpc EXCEPT ![p] = pc] /\ UNCHANGED wk

-----------------------------------------------------------------------------
(* The self-pipe *)

\* The pipe, with both ends nonblocking, and then the handler of SIGINT.
PipeSetup == /\ At("pipe", "main", "start")
             /\ Goes("main", "select") /\ UNCHANGED ws

\* One byte into the pipe; EAGAIN, that is a full pipe, is as good.
handler ==
    /\ ws' = [ws EXCEPT !.pipe = IF @ < PIPE_CAPACITY THEN @ + 1 ELSE @,
                        !.sent = @ + 1, !.caught = @ + 1]
    /\ UNCHANGED <<wk, wpc>>

\* SIGINT, at any moment: before there is a handler it ends the program.
Interrupt ==
    /\ Is("pipe") /\ ws.sent < MaxSignals
    /\ \/ wpc.main \in {"select", "woken", "drain", "report"} /\ handler
       \/ /\ wpc.main = "start" /\ Goes("main", "killed")
          /\ ws' = [ws EXCEPT !.sent = @ + 1]

Input == /\ Is("pipe") /\ ~ws.input
         /\ ws' = [ws EXCEPT !.input = TRUE] /\ UNCHANGED <<wk, wpc>>

\* select() or poll() returns for the pipe, the input or the time; a call that
\* the handler interrupted is made again and finds the byte.
SelectReturns ==
    /\ At("pipe", "main", "select")
    /\ ws.pipe > 0 \/ ws.input \/ wk.timeout
    /\ ws' = [ws EXCEPT !.seen = [pipe |-> ws.pipe > 0, input |-> ws.input], !.before = ws.caught]
    /\ Goes("main", "woken")

SignalSeen == /\ At("pipe", "main", "woken")
              /\ ws' = [ws EXCEPT !.told = ws.seen.pipe]
              /\ Goes("main", IF ws.seen.pipe THEN "drain" ELSE "report")

\* read() takes a byte from the pipe until EAGAIN.
Drain == /\ At("pipe", "main", "drain")
         /\ \/ ws.pipe > 0 /\ ws' = [ws EXCEPT !.pipe = @ - 1] /\ UNCHANGED <<wk, wpc>>
            \/ ws.pipe = 0 /\ Goes("main", "report") /\ UNCHANGED ws

\* What was ready is printed, and read by select_self_pipe; the program exits.
Report == /\ At("pipe", "main", "report") /\ Goes("main", "exit")
          /\ ws' = [ws EXCEPT !.input = @ /\ ~(wk.drains /\ ws.seen.input)]

-----------------------------------------------------------------------------
(* Message notification *)

\* A message for the queue; if it was empty the registered process is notified
\* by a signal, and is registered no longer (mqueue, external).
Send == /\ Is("notify") /\ ws.sent < MaxMessages
        /\ LET tells == ws.registered /\ ws.queue = 0
           IN ws' = [ws EXCEPT !.sent = @ + 1, !.queue = @ + 1,
                               !.pending = @ \/ tells, !.registered = @ /\ ~tells]
        /\ UNCHANGED <<wk, wpc>>

\* Opens the queue, blocks the signal, and registers for the first time.
NotifySetup == /\ At("notify", "main", "start")
               /\ ws' = [ws EXCEPT !.registered = TRUE, !.early = ws.queue > 0]
               /\ Goes("main", "suspended")

\* sigsuspend() or sigwaitinfo() returns for a pending signal.
Notified == /\ At("notify", "main", "suspended") /\ ws.pending
            /\ ws' = [ws EXCEPT !.pending = FALSE]
            /\ Goes("main", "again")

\* Mutant: the notification is taken for a subscription.
Reregister_Not == At("notify", "main", "again") /\ Goes("main", "receive") /\ UNCHANGED ws

\* A notification ends the registration, so that it is made again, before and not
\* after the queue is emptied; mq_notify_sig_mod leaves it out.
Reregister == /\ At("notify", "main", "again")
              /\ ws' = [ws EXCEPT !.registered = @ \/ wk.again]
              /\ Goes("main", "receive")

\* Everything that is in the queue, until EAGAIN.
Receive == /\ At("notify", "main", "receive")
           /\ \/ /\ ws.queue > 0
                 /\ ws' = [ws EXCEPT !.queue = @ - 1, !.read = @ + 1]
                 /\ UNCHANGED <<wk, wpc>>
              \/ ws.queue = 0 /\ Goes("main", "suspended") /\ UNCHANGED ws

-----------------------------------------------------------------------------
(* Parent and child *)

\* The signal is blocked, or the semaphore is made and in use, before fork().
ForkChild == /\ At("sync", "main", "start") /\ UNCHANGED <<wk, ws>>
             /\ wpc' = [main |-> "before", child |-> "before"]

\* Mutant: a signal that nobody blocked is handled and gone.
Wake_Unblocked(p) == ws' = [ws EXCEPT !.pending[p] = wpc[p] = "waiting", !.worked = TRUE]

\* kill() or releaseSem(): it stays pending until it is waited for.
Wake(p) == ws' = [ws EXCEPT !.pending[p] = TRUE, !.worked = TRUE]

\* The child has worked and wakes the parent.
ChildDone == /\ At("sync", "child", "before") /\ Wake("main")
             /\ Goes("child", IF wk.both THEN "waiting" ELSE "exit")

ParentWaits == /\ At("sync", "main", "before") /\ Goes("main", "waiting") /\ UNCHANGED ws

\* sigsuspend() or reserveSem() returns.
Woken(p) == /\ At("sync", p, "waiting") /\ ws.pending[p]
            /\ ws' = [ws EXCEPT !.pending[p] = FALSE]
            /\ Goes(p, IF p = "main" /\ wk.both THEN "resumed" ELSE "exit")

\* The parent of fork_sig_sync_mod goes on working and then wakes the child.
ParentSignals == /\ At("sync", "main", "resumed") /\ Wake("child") /\ Goes("main", "exit")

WakeProgram == \/ PipeSetup \/ SelectReturns \/ SignalSeen \/ Drain \/ Report
               \/ NotifySetup \/ Notified \/ Reregister \/ Receive
               \/ ForkChild \/ ChildDone \/ ParentWaits \/ Woken("main") \/ Woken("child")
               \/ ParentSignals
WakeNext == Interrupt \/ Input \/ Send \/ WakeProgram

\* The programs go on when they can; users and senders need not.
WakeFairness == WF_wakevars(WakeProgram)
-----------------------------------------------------------------------------
\* The types of the programs' variables.
WakeTypeOK ==
    /\ wpc.main \in {"start", "select", "woken", "drain", "report", "exit", "killed", "suspended",
                     "again", "receive", "before", "waiting", "resumed"}
    /\ wpc.child \in {"none", "before", "waiting", "exit"}
    /\ Is("pipe") => ws.pipe \in 0 .. PIPE_CAPACITY /\ ws.caught \in 0 .. ws.sent
    /\ Is("notify") => ws.queue = ws.sent - ws.read

\* A signal caught before select() returned is reported, and nothing is that did
\* not happen.  A process does not wait for a notification while messages are
\* there, unless they were there before it registered or it did not register
\* again.  A parent goes on only after its child has worked.
WakeupsSafe ==
    /\ Is("pipe") /\ wpc.main \in {"report", "exit"} => ws.told = (ws.before > 0)
    /\ At("notify", "main", "suspended") /\ ws.queue > 0 /\ ~ws.early /\ wk.again => ws.pending
    /\ Is("sync") /\ wpc.main \in {"resumed", "exit"} => ws.worked

\* A caught signal ends the wait of a self-pipe program, however many come; every
\* message is read, with the exceptions of WakeupsSafe; parent and child both end.
WakeupsEnd ==
    /\ (Is("pipe") /\ ws.caught > 0) ~> wpc.main = "exit"
    /\ (Is("notify") /\ ws.queue > 0) ~> (Is("notify") /\ (ws.queue = 0 \/ ws.early \/ ~wk.again))
    /\ Is("sync") ~> wpc = [main |-> "exit", child |-> "exit"]
=============================================================================
