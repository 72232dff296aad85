------------------------------ MODULE Transfer ------------------------------
(***************************************************************************)
(* Two programs hand blocks of data over through one shared buffer, in     *)
(* turns: the writer reads its standard input into the buffer, the reader  *)
(* writes the buffer to its standard output.  The turns are kept by a pair *)
(* of System V semaphores (binary_sems.c), a pair of event flags           *)
(* (vms_flags.c) or of POSIX semaphores between threads; the buffer is a   *)
(* System V segment, a mapped file, a POSIX object or a global variable.   *)
(* Writer and reader may be killed at any step and started again.          *)
(***************************************************************************)
EXTENDS Integers, Sequences

CONSTANTS Transfers,             \* pairs <<writer, reader>> to choose from, or <<>>
          NBLOCKS,               \* blocks on the writer's standard input
          MaxXfrKills,           \* bounds: processes killed, writers and
          MaxWriters, MaxReaders \* readers started

ASSUME XfrAssumption == /\ NBLOCKS \in Nat
                        /\ {MaxXfrKills, MaxWriters, MaxReaders} \subseteq Nat

VARIABLES
    xprog,   \* the programs, one of Transfers
    sems,    \* the semaphore set: [w, r], or the empty function when there is none
    shm,     \* the buffer's name: "none", "empty" (size 0) or "ok"
    mem,     \* the block in the buffer; 0 is cnt = 0, the end of the input
    wr,      \* the writer: [pc, next], next the block it will read
    rd,      \* the reader's pc
    out,     \* what this reader wrote
    stale,   \* the writer met objects of an earlier one
    fresh,   \* the reader is the writer's first and came after the objects
    served,  \* the writer has or had a reader
    xcount   \* counters for the bounds: [kills, writers, readers]

xvars == <<xprog, sems, shm, mem, wr, rd, out, stale, fresh, served, xcount>>

\* What a program uses for its turns and for its buffer.
Uses(guard, buffer) == [guard |-> guard, buffer |-> buffer]

svshm_xfr_writer     == Uses("sem", "svshm")
svshm_xfr_reader     == Uses("sem", "svshm")
svshm_xfr_writer_mod == Uses("flag", "svshm")
svshm_xfr_reader_mod == Uses("flag", "svshm")
mmap_xfr_writer      == Uses("sem", "mmap")
mmap_xfr_reader      == Uses("sem", "mmap")
pshm_xfr_writer      == Uses("sem", "pshm")
pshm_xfr_reader      == Uses("sem", "pshm")
writer_thread        == Uses("posix", "global")
reader_thread        == Uses("posix", "global")

\* There are no other pairs.
AllTransfers == {<<svshm_xfr_writer, svshm_xfr_reader>>,
                 <<svshm_xfr_writer_mod, svshm_xfr_reader_mod>>,
                 <<mmap_xfr_writer, mmap_xfr_reader>>,
                 <<pshm_xfr_writer, pshm_xfr_reader>>,
                 <<writer_thread, reader_thread>>}

ASSUME TransfersAssumption == Transfers \subseteq AllTransfers \cup {<<>>}

Idle    == xprog = <<>>
Writer  == xprog[1]
Reader  == xprog[2]
Threads == Writer.buffer = "global"
NoSems  == <<>>
NoWriter == [pc |-> "off", next |-> 1]

XfrInit == /\ xprog \in Transfers
           /\ sems = NoSems /\ shm = "none" /\ mem = 0
           /\ wr = NoWriter /\ rd = "off" /\ out = <<>>
           /\ stale = FALSE /\ fresh = FALSE /\ served = FALSE
           /\ xcount = [kills |-> 0, writers |-> 0, readers |-> 0]
-----------------------------------------------------------------------------
(* binary_sems.c and vms_flags.c.  A flag is set when its semaphore is 0.  *)

initSemAvailable(s) == sems' = [sems EXCEPT ![s] = 1]
initSemInUse(s)     == sems' = [sems EXCEPT ![s] = 0]
reserveSem(s)       == sems[s] > 0 /\ sems' = [sems EXCEPT ![s] = @ - 1]
releaseSem(s)       == sems' = [sems EXCEPT ![s] = @ + 1]

setEventFlag(s)     == sems' = [sems EXCEPT ![s] = IF @ > 0 THEN @ - 1 ELSE @]
clearEventFlag(s)   == sems' = [sems EXCEPT ![s] = @ + 1]
waitForEventFlag(s) == sems[s] = 0 /\ sems' = [sems EXCEPT ![s] = @ + 1]

WaitTurn(p, s) == IF p.guard = "flag" THEN waitForEventFlag(s) ELSE reserveSem(s)
GiveTurn(p, s) == IF p.guard = "flag" THEN setEventFlag(s) ELSE releaseSem(s)
-----------------------------------------------------------------------------
(* The writer.                                                             *)

WriterAt(pc) == wr.pc = pc
WriterTo(pc) == wr' = [wr EXCEPT !.pc = pc]

\* A writer is started while no reader runs: "This program needs to be started
\* before the reader process".  semget(IPC_CREAT) makes a set of zeros or finds
\* the one an earlier writer left.  With threads main() makes everything.
WriterStart ==
    /\ ~Idle /\ WriterAt("off") /\ rd = "off"
    /\ xcount.writers < MaxWriters
    /\ sems' = IF Threads THEN [w |-> 1, r |-> 0]
               ELSE IF sems = NoSems THEN [w |-> 0, r |-> 0] ELSE sems
    /\ wr' = [pc |-> IF Threads THEN "turn" ELSE "init_w", next |-> 1]
    /\ rd' = IF Threads THEN "turn" ELSE rd
    /\ mem' = IF Threads THEN 0 ELSE mem
    /\ stale' = (~Threads /\ (sems # NoSems \/ shm # "none"))
    /\ out' = <<>> /\ fresh' = Threads /\ served' = Threads
    /\ xcount' = [xcount EXCEPT !.writers = @ + 1]
    /\ UNCHANGED <<xprog, shm>>

WriterInit ==
    /\ \/ /\ WriterAt("init_w") /\ WriterTo("init_r")
          /\ IF Writer.guard = "flag" THEN setEventFlag("w") ELSE initSemAvailable("w")
       \/ /\ WriterAt("init_r") /\ WriterTo("open")
          /\ IF Writer.guard = "flag" THEN clearEventFlag("r") ELSE initSemInUse("r")
    /\ UNCHANGED <<xprog, shm, mem, rd, out, stale, fresh, served, xcount>>

\* shmget(IPC_CREAT), shm_open(O_CREAT) or open(O_TRUNC).  A new segment is
\* full of zeros; the size of the two others is set by ftruncate() afterwards.
WriterOpen ==
    /\ WriterAt("open")
    /\ shm' = IF Writer.buffer = "mmap" \/ (Writer.buffer = "pshm" /\ shm = "none")
              THEN "empty" ELSE "ok"
    /\ mem' = IF shm = "none" \/ Writer.buffer = "mmap" THEN 0 ELSE mem
    /\ WriterTo(IF Writer.buffer = "svshm" THEN "turn" ELSE "size")
    /\ UNCHANGED <<xprog, sems, rd, out, stale, fresh, served, xcount>>

WriterSize ==
    /\ WriterAt("size") /\ WriterTo("turn")
    /\ shm' = "ok"
    /\ UNCHANGED <<xprog, sems, mem, rd, out, stale, fresh, served, xcount>>

\* Wait for our turn.
WriterTurn ==
    /\ WriterAt("turn") /\ WriterTo("read")
    /\ WaitTurn(Writer, "w")
    /\ UNCHANGED <<xprog, shm, mem, rd, out, stale, fresh, served, xcount>>

\* Mutant: the end of the input is noticed one block too late.
WriterRead_PastEnd ==
    /\ WriterAt("read")
    /\ mem' = IF wr.next > NBLOCKS + 1 THEN 0 ELSE wr.next
    /\ wr' = [pc |-> "give", next |-> wr.next + 1]
    /\ UNCHANGED <<xprog, sems, shm, rd, out, stale, fresh, served, xcount>>

\* read() of the next block, or of the end of the input, into the buffer.
WriterRead ==
    /\ WriterAt("read")
    /\ mem' = IF wr.next > NBLOCKS THEN 0 ELSE wr.next
    /\ wr' = [pc |-> "give", next |-> wr.next + 1]
    /\ UNCHANGED <<xprog, sems, shm, rd, out, stale, fresh, served, xcount>>

WriterGive ==
    /\ WriterAt("give") /\ WriterTo("test")
    /\ GiveTurn(Writer, "r")
    /\ UNCHANGED <<xprog, shm, mem, rd, out, stale, fresh, served, xcount>>

\* cnt is looked at again after the reader got its turn.
WriterTest ==
    /\ WriterAt("test")
    /\ IF mem # 0 THEN WriterTo("turn")
                  ELSE IF Threads THEN WriterTo("joined") ELSE WriterTo("last")
    /\ UNCHANGED <<xprog, sems, shm, mem, rd, out, stale, fresh, served, xcount>>

\* The reader lets the writer have one more turn; then the objects are removed.
WriterLast ==
    /\ WriterAt("last") /\ WriterTo("rmsem")
    /\ WaitTurn(Writer, "w")
    /\ UNCHANGED <<xprog, shm, mem, rd, out, stale, fresh, served, xcount>>

\* The mapped file is not removed.
WriterRemove ==
    /\ \/ WriterAt("rmsem") /\ WriterTo("rmshm") /\ sems' = NoSems /\ UNCHANGED shm
       \/ /\ WriterAt("rmshm") /\ WriterTo("off") /\ UNCHANGED sems
          /\ shm' = IF Writer.buffer = "mmap" THEN shm ELSE "none"
    /\ UNCHANGED <<xprog, mem, rd, out, stale, fresh, served, xcount>>
-----------------------------------------------------------------------------
(* The reader.                                                             *)

\* semget() of a set that must be there.
ReaderStart ==
    /\ ~Idle /\ ~Threads /\ rd = "off"
    /\ xcount.readers < MaxReaders
    /\ rd' = IF sems = NoSems THEN "off" ELSE "open"
    /\ xcount' = [xcount EXCEPT !.readers = @ + 1]
    /\ UNCHANGED <<xprog, sems, shm, mem, wr, out, stale, fresh, served>>

\* The writer runs, and is past initialising what an earlier one left.
Initialised == /\ wr.pc # "off"
               /\ stale => wr.pc \notin {"init_w", "init_r", "open", "size"}

\* No buffer, or a POSIX object of size 0, that mmap() refuses: the reader exits.
ReaderOpen ==
    /\ rd = "open"
    /\ IF shm = "none" \/ (shm = "empty" /\ Reader.buffer = "pshm")
       THEN rd' = "off" /\ UNCHANGED <<out, fresh, served>>
       ELSE /\ rd' = "turn" /\ out' = <<>>
            /\ served' = TRUE /\ fresh' = (~served /\ Initialised)
    /\ UNCHANGED <<xprog, sems, shm, mem, wr, stale, xcount>>

\* Wait for our turn; a set that was removed meanwhile ends the reader.
ReaderTurn ==
    /\ rd = "turn"
    /\ IF sems = NoSems THEN rd' = "off" /\ UNCHANGED sems
                        ELSE rd' = "test" /\ WaitTurn(Reader, "r")
    /\ UNCHANGED <<xprog, shm, mem, wr, out, stale, fresh, served, xcount>>

\* Mutant: the writer gets its turn before the buffer is written out.
ReaderTest_Early ==
    /\ rd = "test" /\ (Reader.buffer = "mmap" => shm = "ok")
    /\ IF mem = 0 THEN rd' = (IF Threads THEN "joined" ELSE "last") /\ UNCHANGED sems
                  ELSE rd' = "write" /\ GiveTurn(Reader, "w")
    /\ UNCHANGED <<xprog, shm, mem, wr, out, stale, fresh, served, xcount>>

\* cnt = 0 ends the loop.  A mapped file that was truncated raises SIGBUS.
ReaderTest ==
    /\ rd = "test"
    /\ rd' = IF Reader.buffer = "mmap" /\ shm = "empty" THEN "off"
             ELSE IF mem # 0 THEN "write" ELSE IF Threads THEN "joined" ELSE "last"
    /\ UNCHANGED <<xprog, sems, shm, mem, wr, out, stale, fresh, served, xcount>>

\* write() of the buffer.
ReaderWrite ==
    /\ rd = "write" /\ rd' = "give"
    /\ out' = Append(out, mem)
    /\ UNCHANGED <<xprog, sems, shm, mem, wr, stale, fresh, served, xcount>>

\* releaseSem() fails on a set that was removed, and ends the reader.
ReaderGive ==
    /\ rd = "give"
    /\ IF sems = NoSems THEN rd' = "off" /\ UNCHANGED sems
                        ELSE rd' = "turn" /\ GiveTurn(Reader, "w")
    /\ UNCHANGED <<xprog, shm, mem, wr, out, stale, fresh, served, xcount>>

\* Mutant: the reader exits without giving the writer its last turn.
ReaderLast_NoTurn ==
    /\ rd = "last" /\ rd' = "off"
    /\ UNCHANGED <<xprog, sems, shm, mem, wr, out, stale, fresh, served, xcount>>

\* Give the writer one more turn, so that it can clean up.
ReaderLast ==
    /\ rd = "last" /\ rd' = "off"
    /\ IF sems = NoSems THEN UNCHANGED sems ELSE GiveTurn(Reader, "w")
    /\ UNCHANGED <<xprog, shm, mem, wr, out, stale, fresh, served, xcount>>

\* main() joins both threads and destroys the semaphores.
Join ==
    /\ WriterAt("joined") /\ rd = "joined"
    /\ WriterTo("off") /\ rd' = "off" /\ sems' = NoSems
    /\ UNCHANGED <<xprog, shm, mem, out, stale, fresh, served, xcount>>

\* A process is killed or a call of it fails; threads go together.
XfrKill ==
    /\ ~Idle /\ xcount.kills < MaxXfrKills
    /\ \/ wr.pc # "off" /\ wr' = NoWriter /\ rd' = (IF Threads THEN "off" ELSE rd)
       \/ rd # "off" /\ ~Threads /\ rd' = "off" /\ UNCHANGED wr
    /\ sems' = IF Threads THEN NoSems ELSE sems
    /\ xcount' = [xcount EXCEPT !.kills = @ + 1]
    /\ fresh' = FALSE
    /\ UNCHANGED <<xprog, shm, mem, out, stale, served>>

WriterStep == \/ WriterInit \/ WriterOpen \/ WriterSize \/ WriterTurn \/ WriterRead
              \/ WriterGive \/ WriterTest \/ WriterLast \/ WriterRemove
ReaderStep == \/ ReaderOpen \/ ReaderTurn \/ ReaderTest \/ ReaderWrite \/ ReaderGive
              \/ ReaderLast

XfrNext == WriterStart \/ ReaderStart \/ WriterStep \/ ReaderStep \/ Join \/ XfrKill

\* Runnable processes run; nobody need start one.
XfrFairness == WF_xvars(WriterStep) /\ WF_xvars(ReaderStep) /\ WF_xvars(Join)

XfrSpec == XfrInit /\ [][XfrNext]_xvars /\ XfrFairness
-----------------------------------------------------------------------------
XfrTypeOK ==
    /\ sems # NoSems => sems.w \in 0 .. 2 /\ sems.r \in 0 .. 3
    /\ shm \in {"none", "empty", "ok"}
    /\ mem \in 0 .. NBLOCKS /\ wr.next \in 1 .. NBLOCKS + 2
    /\ out \in Seq(0 .. NBLOCKS)

\* The flags of an earlier, killed writer: clearEventFlag() adds one to a flag
\* that is clear already, and a later setEventFlag() does not set it.
FlagsLeft == Reader.guard = "flag" /\ stale

\* The blocks that went into this transfer, and that came out of it.
XfrSent == IF ~fresh THEN 0 ELSE IF wr.next > NBLOCKS THEN NBLOCKS ELSE wr.next - 1
XfrGot  == IF fresh THEN out ELSE <<>>

\* The writer and the first reader that comes to it hand every block over, in
\* order and once, one at a time (svshm_xfr_writer.c lines 18-22: "exclusive,
\* alternating access"), over any number of transfers, killed ones included.  A
\* reader that comes after a killed one, or that catches the objects of a dead
\* writer before the new one has initialised them, is excepted.
Handed == INSTANCE Channel WITH Capacity <- 1, sent <- XfrSent, got <- XfrGot
ImplementsChannel == Handed!Spec

\* A transfer ends on both sides, unless one is killed or the event flags
\* are those of an earlier writer:
\* nobody waits for a turn that was given (svshm_xfr_writer.c lines 85-86).
TransferEnds == fresh ~> (~fresh \/ (wr.pc = "off" /\ rd = "off") \/ FlagsLeft)
=============================================================================
