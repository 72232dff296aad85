--------------------------- MODULE TransferProofs ---------------------------
(***************************************************************************)
(* A writer and its first reader are a channel of capacity one             *)
(* (Handover), because they have the buffer in turns (Alternation).        *)
(*                                                                         *)
(* The argument: at most one of four holds: the writer's turn is free, the *)
(* writer has it, the reader's turn is free, the reader has it             *)
(* (Alternate).  Until the writer has read, everything sent was written    *)
(* out (Empty); from then until the reader has written, the buffer holds   *)
(* the block after those that were (Full).  The semaphores alone do not    *)
(* give this: it needs that they are what the writer made them (Good),     *)
(* which a reader that meets a dead writer's objects, or that follows a    *)
(* killed one, cannot rely on.                                             *)
(***************************************************************************)
EXTENDS Transfer, SequenceTheorems, TLAPS

\* What the variables hold.
Starting  == {"init_w", "init_r", "open", "size"}
WriterPcs == Starting \cup {"off", "turn", "read", "give", "test", "last", "joined",
                            "rmsem", "rmshm"}
ReaderPcs == {"off", "open", "turn", "test", "write", "give", "last", "joined"}
Sems      == [{"w", "r"} -> Nat]

Types ==
    /\ xprog \in Transfers /\ (Idle => wr.pc = "off" /\ rd = "off")
    /\ sems \in Sems \cup {NoSems} /\ (wr.pc \notin {"off", "rmshm"} => sems # NoSems)
    /\ shm \in {"none", "empty", "ok"} /\ mem \in 0 .. NBLOCKS
    /\ wr \in [pc : WriterPcs, next : 1 .. NBLOCKS + 2] /\ rd \in ReaderPcs
    /\ out \in Seq(0 .. NBLOCKS)
    /\ stale \in BOOLEAN /\ fresh \in BOOLEAN /\ served \in BOOLEAN

\* The turn s can be taken.
Free(s) == sems # NoSems /\ IF Writer.guard = "flag" THEN sems[s] = 0 ELSE sems[s] > 0

WriterHas == wr.pc \in {"read", "give", "rmsem"}
ReaderHas == rd \in {"test", "write", "give", "last"}

\* What block k of the input is in the buffer.
Block(k) == IF k > NBLOCKS THEN 0 ELSE k

\* The abstract channel's variables.
Sent  == IF wr.next > NBLOCKS THEN NBLOCKS ELSE wr.next - 1
Taken == IF fresh THEN Len(out) ELSE 0

\* The writer's program by itself.
Reading == /\ wr.pc \in Starting => wr.next = 1
           /\ wr.pc \in {"turn", "read"} => wr.next <= NBLOCKS + 1
           /\ wr.pc \in {"give", "test"} => wr.next > 1 /\ mem = Block(wr.next - 1)

\* Who came when.
Coming == /\ fresh => served /\ wr.pc \notin {"init_w", "init_r", "open"}
          /\ ~served => rd \in {"off", "open"}
          /\ ~stale /\ wr.pc \in {"init_w", "init_r", "open"} => shm = "none"

\* The writer has its first reader, or none yet.
Good  == fresh \/ (~served /\ wr.pc # "off")
Ready == Good /\ wr.pc \notin {"init_w", "init_r"}

\* One of the two has the turn, or can take it.
Alternate == /\ Free("w") => ~Free("r") /\ ~WriterHas /\ ~ReaderHas
             /\ Free("r") => ~WriterHas /\ ~ReaderHas
             /\ WriterHas => ~ReaderHas
             /\ Writer.guard # "flag" /\ sems # NoSems => sems["w"] <= 1 /\ sems["r"] <= 1

\* A block that the reader did not write yet, and none.
Full  == wr.pc = "give" \/ Free("r") \/ rd \in {"test", "write", "last"}
Empty == Free("w") \/ wr.pc = "read" \/ rd = "give"

Turns == /\ Good => Taken <= Sent /\ Sent <= Taken + 1
         /\ Good /\ wr.pc = "init_r" /\ Writer.guard # "flag" => sems["w"] = 1
         /\ Good /\ wr.pc = "open" => ~Free("r")
         /\ Ready => /\ Alternate
                     /\ Full => mem = Block(wr.next - 1) /\ Taken = wr.next - 2
                     /\ Empty => Taken = Sent
                     /\ rd = "write" => mem # 0
                     /\ rd = "last" => mem = 0

IInv == Types /\ Reading /\ Coming /\ Turns
-----------------------------------------------------------------------------
\* Writer and reader of a pair keep their turns the same way.
LEMMA OneGuard ==
    ASSUME Types, ~Idle
    PROVE  /\ Writer.guard = Reader.guard /\ (Threads => Writer.guard # "flag")
           /\ Writer.guard \in {"sem", "flag", "posix"}
<1>1. xprog \in AllTransfers
  BY TransfersAssumption DEF Types, Idle
<1> QED
  BY <1>1 DEF AllTransfers, Writer, Reader, Threads, Uses, svshm_xfr_writer, svshm_xfr_reader,
     svshm_xfr_writer_mod, svshm_xfr_reader_mod, mmap_xfr_writer, mmap_xfr_reader,
     pshm_xfr_writer, pshm_xfr_reader, writer_thread, reader_thread

\* Who is at work is of a pair, and the writer has its semaphores.
LEMMA Basics ==
    ASSUME IInv
    PROVE  /\ wr.pc # "off" \/ rd # "off" => ~Idle
           /\ sems \in Sems \cup {NoSems} /\ NoSems \notin Sems
           /\ wr.pc \notin {"off", "rmshm"} => sems \in Sems
           /\ wr = [pc |-> wr.pc, next |-> wr.next] /\ wr.pc \in WriterPcs
           /\ wr.next \in 1 .. NBLOCKS + 2 /\ wr.next \in Nat /\ NBLOCKS \in Nat
           /\ Len(out) \in Nat /\ Sent \in Nat /\ Taken \in Nat /\ mem \in Nat
           /\ wr \in [pc : WriterPcs, next : 1 .. NBLOCKS + 2] /\ rd \in ReaderPcs
           /\ Types /\ Reading /\ Coming /\ Turns
<1>1. NoSems \notin Sems
  BY DEF NoSems, Sems
<1>2. wr.next \in 1 .. NBLOCKS + 2 /\ wr.next \in Nat /\ NBLOCKS \in Nat /\ Len(out) \in Nat
  BY XfrAssumption DEF IInv, Types
<1>3. Sent \in Nat /\ Taken \in Nat
  BY <1>2 DEF Sent, Taken
<1>4. mem \in Nat
  BY <1>2 DEF IInv, Types
<1>5. /\ wr = [pc |-> wr.pc, next |-> wr.next] /\ wr.pc \in WriterPcs
  BY DEF IInv, Types
<1> QED
  BY <1>1, <1>2, <1>3, <1>4, <1>5 DEF IInv, Types

\* A turn that is taken was free and is not.
LEMMA TurnTaken ==
    ASSUME sems \in Sems, NEW p, p.guard = Writer.guard, NEW s \in {"w", "r"}, WaitTurn(p, s),
           UNCHANGED xprog
    PROVE  /\ sems' \in Sems /\ sems' # NoSems /\ Free(s)
           /\ \A o \in {"w", "r"} : o # s => (Free(o)' <=> Free(o)) /\ sems'[o] = sems[o]
           /\ (Writer.guard = "flag" \/ sems[s] <= 1) => ~Free(s)'
           /\ Writer.guard # "flag" => sems'[s] = sems[s] - 1
<1>1. NoSems \notin Sems
  BY DEF NoSems, Sems
<1>2. CASE Writer.guard = "flag"
  <2>1. sems[s] = 0 /\ sems' = [sems EXCEPT ![s] = sems[s] + 1]
    BY <1>2 DEF WaitTurn, waitForEventFlag
  <2>2. sems' \in Sems /\ sems'[s] = 1 /\ \A o \in {"w", "r"} : o # s => sems'[o] = sems[o]
    BY <2>1 DEF Sems
  <2>3. \A o \in {"w", "r"} : (Free(o) <=> sems[o] = 0) /\ (Free(o)' <=> sems'[o] = 0)
    BY <1>1, <1>2, <2>2 DEF Free, Writer
  <2> QED
    <3>1. Free(s) /\ ~Free(s)'
      BY <2>1, <2>2, <2>3
    <3>2. \A o \in {"w", "r"} : o # s => (Free(o)' <=> Free(o))
      BY <2>2, <2>3
    <3> QED
      BY <1>1, <1>2, <2>2, <3>1, <3>2
<1>3. CASE Writer.guard # "flag"
  <2>1. sems[s] > 0 /\ sems' = [sems EXCEPT ![s] = sems[s] - 1]
    BY <1>3 DEF WaitTurn, reserveSem
  <2>2. /\ sems' \in Sems /\ sems'[s] = sems[s] - 1 /\ sems[s] \in Nat
        /\ \A o \in {"w", "r"} : o # s => sems'[o] = sems[o]
    BY <2>1 DEF Sems
  <2>3. \A o \in {"w", "r"} : (Free(o) <=> sems[o] > 0) /\ (Free(o)' <=> sems'[o] > 0)
    BY <1>1, <1>3, <2>2 DEF Free, Writer
  <2> QED
    <3>1. Free(s) /\ (sems[s] <= 1 => ~Free(s)')
      BY <2>1, <2>2, <2>3
    <3>2. \A o \in {"w", "r"} : o # s => (Free(o)' <=> Free(o))
      BY <2>2, <2>3
    <3> QED
      BY <1>1, <1>3, <2>2, <3>1, <3>2
<1> QED
  BY <1>2, <1>3

\* A turn that is given may be free; the other is as it was.
LEMMA TurnGiven ==
    ASSUME sems \in Sems, NEW p, p.guard = Writer.guard, NEW s \in {"w", "r"}, GiveTurn(p, s),
           UNCHANGED xprog
    PROVE  /\ sems' \in Sems /\ sems' # NoSems
           /\ \A o \in {"w", "r"} : o # s => (Free(o)' <=> Free(o)) /\ sems'[o] = sems[o]
           /\ Writer.guard # "flag" => sems'[s] = sems[s] + 1
<1>1. NoSems \notin Sems
  BY DEF NoSems, Sems
<1>2. CASE Writer.guard = "flag"
  <2>1. sems' = [sems EXCEPT ![s] = IF sems[s] > 0 THEN sems[s] - 1 ELSE sems[s]]
    BY <1>2 DEF GiveTurn, setEventFlag
  <2>2. sems' \in Sems /\ \A o \in {"w", "r"} : o # s => sems'[o] = sems[o]
    BY <2>1 DEF Sems
  <2> QED
    BY <1>1, <1>2, <2>1, <2>2 DEF Free, Writer
<1>3. CASE Writer.guard # "flag"
  <2>1. sems' = [sems EXCEPT ![s] = sems[s] + 1]
    BY <1>3 DEF GiveTurn, releaseSem
  <2>2. /\ sems' \in Sems /\ sems'[s] = sems[s] + 1
        /\ \A o \in {"w", "r"} : o # s => sems'[o] = sems[o]
    BY <2>1 DEF Sems
  <2> QED
    BY <1>1, <1>3, <2>1, <2>2 DEF Free, Writer
<1> QED
  BY <1>2, <1>3

\* The writer goes to step l.
LEMMA WriterGoes ==
    ASSUME IInv, NEW l \in WriterPcs, WriterTo(l)
    PROVE  /\ wr' \in [pc : WriterPcs, next : 1 .. NBLOCKS + 2]
           /\ wr'.pc = l /\ wr'.next = wr.next
  BY DEF IInv, Types, WriterTo

\* A writer starts on what it finds, or with semaphores of its own.
LEMMA StartStep == ASSUME IInv, WriterStart PROVE IInv'
<1>1. /\ ~Idle /\ WriterAt("off") /\ rd = "off" /\ UNCHANGED <<xprog, shm>> /\ out' = <<>>
      /\ wr' = [pc |-> IF Threads THEN "turn" ELSE "init_w", next |-> 1]
      /\ served' = Threads /\ fresh' = Threads /\ Len(<<>>) = 0
  BY DEF WriterStart
<1>2. /\ wr' \in [pc : WriterPcs, next : 1 .. NBLOCKS + 2] /\ wr'.next = 1
      /\ wr'.pc = IF Threads THEN "turn" ELSE "init_w"
  BY <1>1, Basics DEF WriterPcs, Starting
<1>3. CASE Threads
  <2>1. sems' = [w |-> 1, r |-> 0] /\ rd' = "turn" /\ mem' = 0 /\ stale' = FALSE
    BY <1>3 DEF WriterStart
  <2>2. /\ sems' \in Sems /\ sems'["w"] = 1 /\ sems'["r"] = 0 /\ sems' # NoSems
    BY <2>1 DEF Sems, NoSems
  <2>3. Writer.guard # "flag" /\ Writer' = Writer
    BY <1>1, <1>3, Basics, OneGuard DEF Writer
  <2>4. Types'
    <3>1. out' \in Seq(0 .. NBLOCKS) /\ mem' \in 0 .. NBLOCKS /\ rd' \in ReaderPcs
      BY <1>1, <2>1, Basics DEF Types, ReaderPcs
    <3>2. xprog' \in Transfers /\ ~Idle' /\ shm' \in {"none", "empty", "ok"}
      BY <1>1, Basics DEF Types, Idle
    <3>3. stale' \in BOOLEAN /\ fresh' \in BOOLEAN /\ served' \in BOOLEAN
      BY <1>1, <1>3, <2>1
    <3> QED
      BY <1>2, <2>2, <3>1, <3>2, <3>3 DEF Types
  <2>5. Reading' /\ Coming'
    BY <1>1, <1>2, <1>3, <2>1, Basics DEF Reading, Coming, Starting
  <2>6. Turns'
    BY <1>1, <1>2, <1>3, <2>1, <2>2, <2>3, Basics DEF Turns, Good, Ready, Alternate, Full, Empty,
       Free, WriterHas, ReaderHas, Sent, Taken
  <2> QED
    BY <2>4, <2>5, <2>6 DEF IInv
<1>4. CASE ~Threads
  <2>1. /\ rd' = "off" /\ mem' = mem /\ stale' = (sems # NoSems \/ shm # "none")
        /\ sems' = (IF sems = NoSems THEN [w |-> 0, r |-> 0] ELSE sems)
    BY <1>1, <1>4 DEF WriterStart
  <2>2. /\ sems' \in Sems /\ sems' # NoSems
    BY <2>1, Basics DEF Sems, NoSems
  <2>4. Types'
    <3>1. out' \in Seq(0 .. NBLOCKS) /\ mem' \in 0 .. NBLOCKS /\ rd' \in ReaderPcs
      BY <1>1, <2>1, Basics DEF Types, ReaderPcs
    <3>2. xprog' \in Transfers /\ ~Idle' /\ shm' \in {"none", "empty", "ok"}
      BY <1>1, Basics DEF Types, Idle
    <3>3. stale' \in BOOLEAN /\ fresh' \in BOOLEAN /\ served' \in BOOLEAN
      <4>1. stale' \in BOOLEAN
        BY <2>1
      <4> QED
        BY <1>1, <1>4, <4>1 DEF Threads
    <3> QED
      BY <1>2, <2>2, <3>1, <3>2, <3>3 DEF Types
  <2>5. Reading' /\ Coming'
    BY <1>1, <1>2, <1>4, <2>1, Basics DEF Reading, Coming, Starting
  <2>6. Turns'
    BY <1>1, <1>2, <1>4, <2>1, Basics DEF Turns, Good, Ready, Sent, Taken
  <2> QED
    BY <2>4, <2>5, <2>6 DEF IInv
<1> QED
  BY <1>3, <1>4

\* What a step of the writer that starts nothing leaves of the types.
LEMMA WriterTypes ==
    ASSUME IInv, UNCHANGED <<xprog, rd, out, stale, fresh, served>>, wr.pc # "off",
           wr' \in [pc : WriterPcs, next : 1 .. NBLOCKS + 2],
           sems' \in Sems \cup {NoSems}, wr'.pc \notin {"off", "rmshm"} => sems' # NoSems,
           shm' \in {"none", "empty", "ok"}, mem' \in 0 .. NBLOCKS
    PROVE  Types'
<1>1. ~Idle /\ ~Idle'
  BY Basics DEF Idle
<1> QED
  BY <1>1, Basics DEF Types

\* The writer makes its semaphores ready; no reader of its own is there.
LEMMA InitStep == ASSUME IInv, WriterInit PROVE IInv'
<1>1. /\ UNCHANGED <<xprog, shm, mem, rd, out, stale, fresh, served>>
      /\ Writer' = Writer /\ ~fresh /\ Taken = 0 /\ Taken' = 0
      /\ wr.pc \in {"init_w", "init_r"} /\ wr.next = 1 /\ sems \in Sems
      /\ shm' \in {"none", "empty", "ok"} /\ mem' \in 0 .. NBLOCKS
  BY Basics DEF WriterInit, WriterAt, Writer, Coming, Taken, Reading, Starting, Types
<1>2. CASE WriterAt("init_w")
  <2>1. wr.pc = "init_w" /\ WriterTo("init_r")
    BY <1>2 DEF WriterInit, WriterAt
  <2>2. /\ wr' \in [pc : WriterPcs, next : 1 .. NBLOCKS + 2]
        /\ wr'.pc = "init_r" /\ wr'.next = 1
    BY <1>1, <2>1, WriterGoes DEF WriterPcs, Starting
  <2>3. sems' \in Sems /\ (Writer.guard # "flag" => sems'["w"] = 1)
    BY <1>1, <2>1 DEF WriterInit, WriterAt, setEventFlag, initSemAvailable, Sems
  <2>4. Types'
    BY <1>1, <2>1, <2>2, <2>3, Basics, WriterTypes
  <2>5. Reading' /\ Coming'
    BY <1>1, <2>1, <2>2, Basics DEF Reading, Coming, Starting
  <2>6. Turns'
    BY <1>1, <2>1, <2>2, <2>3, Basics DEF Turns, Good, Ready, Sent
  <2> QED
    BY <2>4, <2>5, <2>6 DEF IInv
<1>3. CASE WriterAt("init_r")
  <2>1. wr.pc = "init_r" /\ WriterTo("open")
    BY <1>3 DEF WriterInit, WriterAt
  <2>2. /\ wr' \in [pc : WriterPcs, next : 1 .. NBLOCKS + 2]
        /\ wr'.pc = "open" /\ wr'.next = 1
    BY <1>1, <2>1, WriterGoes DEF WriterPcs, Starting
  <2>3. sems' \in Sems /\ sems'["w"] = sems["w"]
    BY <1>1, <2>1 DEF WriterInit, WriterAt, clearEventFlag, initSemInUse, Sems
  <2>4. IF Writer.guard = "flag" THEN sems'["r"] > 0 ELSE sems'["r"] = 0
    BY <1>1, <2>1 DEF WriterInit, WriterAt, clearEventFlag, initSemInUse, Sems
  <2>5. Types'
    BY <1>1, <2>1, <2>2, <2>3, Basics, WriterTypes
  <2>6. Reading' /\ Coming'
    BY <1>1, <2>1, <2>2, Basics DEF Reading, Coming, Starting
  <2>7. ~Free("r")' /\ ~WriterHas'
    BY <1>1, <2>2, <2>4 DEF Free, WriterHas
  <2>8. Sent' = 0 /\ Sent = 0
    BY <1>1, <2>2, Basics DEF Sent
  <2>9. ASSUME Good' PROVE Good /\ ~ReaderHas' /\ ~Full' /\ rd' \in {"off", "open"}
    BY <1>1, <2>1, <2>2, <2>7, <2>9, Basics DEF Good, ReaderHas, Full, Coming
  <2>10. ASSUME Good' PROVE Alternate'
    BY <1>1, <2>1, <2>3, <2>4, <2>7, <2>9, <2>10, Basics DEF Alternate, Turns
  <2>11. Turns'
    BY <1>1, <2>2, <2>7, <2>8, <2>9, <2>10 DEF Turns, Ready
  <2> QED
    BY <2>5, <2>6, <2>11 DEF IInv
<1> QED
  BY <1>2, <1>3 DEF WriterInit

\* The buffer is opened, and sized, before anybody has a turn.
LEMMA BufferStep == ASSUME IInv, WriterOpen \/ WriterSize PROVE IInv'
<1>1. /\ UNCHANGED <<xprog, sems, rd, out, stale, fresh, served>> /\ Writer' = Writer
      /\ wr.pc \in {"open", "size"} /\ wr.next = 1 /\ sems \in Sems
      /\ Taken' = Taken /\ (wr.pc = "size" => mem' = mem)
  BY Basics DEF WriterOpen, WriterSize, WriterAt, Writer, Reading, Starting, Taken
<1>2. PICK l \in {"turn", "size"} : WriterTo(l) /\ (wr.pc = "size" => l = "turn")
  BY DEF WriterOpen, WriterSize, WriterAt
<1>3. wr' \in [pc : WriterPcs, next : 1 .. NBLOCKS + 2] /\ wr'.pc = l /\ wr'.next = 1
  BY <1>1, <1>2, WriterGoes DEF WriterPcs, Starting
<1>4. shm' \in {"none", "empty", "ok"} /\ mem' \in 0 .. NBLOCKS
  BY Basics DEF WriterOpen, WriterSize, Types
<1>5. Types'
  BY <1>1, <1>3, <1>4, Basics, WriterTypes
<1>6. Reading' /\ Coming'
  BY <1>1, <1>3, Basics DEF Reading, Coming, Starting
<1>7. /\ (Free("w")' <=> Free("w")) /\ (Free("r")' <=> Free("r"))
      /\ (ReaderHas' <=> ReaderHas) /\ ~WriterHas /\ ~WriterHas' /\ Sent' = Sent
      /\ (Good' <=> Good) /\ (Good => Ready) /\ wr'.pc # "open"
  BY <1>1, <1>3 DEF Free, ReaderHas, WriterHas, Sent, Good, Ready
<1>8. ASSUME Good PROVE Alternate' /\ (Full' => Full) /\ (Empty' => Empty)
  BY <1>1, <1>3, <1>7, <1>8, Basics DEF Alternate, Turns, Full, Empty
<1>9. ASSUME Good, wr.pc = "open" PROVE ~Full /\ rd \in {"off", "open"}
  BY <1>1, <1>9, Basics DEF Turns, Good, Coming, Full
<1>10. Turns'
  BY <1>1, <1>3, <1>7, <1>8, <1>9, Basics DEF Turns, Ready
<1> QED
  BY <1>5, <1>6, <1>10 DEF IInv

\* The writer takes its turn: nobody else has it.
LEMMA TurnStep == ASSUME IInv, WriterTurn \/ WriterLast PROVE IInv'
<1>1. /\ UNCHANGED <<xprog, shm, mem, rd, out, stale, fresh, served>> /\ Writer' = Writer
      /\ wr.pc \in {"turn", "last"} /\ sems \in Sems /\ WaitTurn(Writer, "w")
      /\ Taken' = Taken /\ shm' \in {"none", "empty", "ok"} /\ mem' \in 0 .. NBLOCKS
  BY Basics DEF WriterTurn, WriterLast, WriterAt, Writer, Taken, Types
<1>2. PICK l \in {"read", "rmsem"} : WriterTo(l) /\ (l = "read" => wr.pc = "turn")
  BY DEF WriterTurn, WriterLast, WriterAt
<1>3. wr' \in [pc : WriterPcs, next : 1 .. NBLOCKS + 2] /\ wr'.pc = l /\ wr'.next = wr.next
  BY <1>2, WriterGoes DEF WriterPcs
<1>4. /\ sems' \in Sems /\ sems' # NoSems /\ Free("w")
      /\ (Free("r")' <=> Free("r")) /\ sems'["r"] = sems["r"]
      /\ (Writer.guard = "flag" \/ sems["w"] <= 1) => ~Free("w")'
      /\ Writer.guard # "flag" => sems'["w"] = sems["w"] - 1
  BY <1>1, TurnTaken
<1>5. Types'
  BY <1>1, <1>3, <1>4, WriterTypes
<1>6. Reading' /\ Coming'
  BY <1>1, <1>2, <1>3, Basics DEF Reading, Coming, Starting
<1>7. (ReaderHas' <=> ReaderHas) /\ Sent' = Sent /\ (Good' <=> Good) /\ (Good => Ready)
  BY <1>1, <1>3 DEF ReaderHas, Sent, Good, Ready
<1>8. ASSUME Good PROVE Alternate' /\ ~Full' /\ (Empty' => Empty)
  <2>1. Alternate /\ ~Free("r") /\ ~ReaderHas
    BY <1>4, <1>7, <1>8, Basics DEF Turns, Alternate
  <2>2. sems \in Sems /\ sems # NoSems /\ sems["w"] \in Nat /\ sems["r"] \in Nat
    BY <1>1, Basics DEF Sems
  <2>3. Writer.guard # "flag" => sems["w"] <= 1 /\ sems["r"] <= 1
    BY <2>1, <2>2 DEF Alternate
  <2>4. ~Free("w")'
    BY <1>4, <2>3
  <2>5. Alternate'
    BY <1>1, <1>4, <1>7, <2>1, <2>2, <2>3, <2>4 DEF Alternate
  <2> QED
    BY <1>1, <1>2, <1>3, <1>4, <2>1, <2>4, <2>5 DEF Full, Empty, ReaderHas
<1>9. Turns'
  BY <1>1, <1>2, <1>3, <1>7, <1>8, Basics DEF Turns, Ready
<1> QED
  BY <1>5, <1>6, <1>9 DEF IInv

\* The next block, or the end of the input, is in the buffer.
LEMMA ReadStep == ASSUME IInv, WriterRead PROVE IInv'
<1>1. /\ UNCHANGED <<xprog, sems, shm, rd, out, stale, fresh, served>> /\ Writer' = Writer
      /\ wr.pc = "read" /\ wr' = [pc |-> "give", next |-> wr.next + 1]
      /\ Taken' = Taken /\ mem' = Block(wr.next) /\ sems \in Sems /\ shm' \in {"none", "empty", "ok"}
  BY Basics DEF WriterRead, WriterAt, Writer, Taken, Block, Types
<1>2. wr.next \in Nat /\ 1 <= wr.next /\ wr.next <= NBLOCKS + 1 /\ NBLOCKS \in Nat
  BY <1>1, Basics DEF Reading
<1>3. wr'.pc = "give" /\ wr'.next = wr.next + 1 /\ wr'.next - 1 = wr.next /\ wr'.next > 1
  BY <1>1, <1>2
<1>4. wr' \in [pc : WriterPcs, next : 1 .. NBLOCKS + 2] /\ mem' \in 0 .. NBLOCKS
  BY <1>1, <1>2 DEF WriterPcs, Block
<1>5. Types'
  BY <1>1, <1>3, <1>4, Basics, WriterTypes
<1>6. Reading' /\ Coming'
  BY <1>1, <1>3, Basics DEF Reading, Coming, Starting, Block
<1>7. /\ (Free("w")' <=> Free("w")) /\ (Free("r")' <=> Free("r")) /\ (ReaderHas' <=> ReaderHas)
      /\ WriterHas /\ WriterHas' /\ (Good' <=> Good) /\ (Good => Ready)
  BY <1>1, <1>3 DEF Free, ReaderHas, WriterHas, Good, Ready
<1>8. ASSUME Good
      PROVE  Alternate' /\ ~Empty' /\ rd' \notin {"write", "last"} /\ Taken = Sent
  BY <1>1, <1>3, <1>7, <1>8, Basics DEF Alternate, Turns, Empty, ReaderHas
<1>9. Sent = wr.next - 1 /\ Sent' = (IF wr.next + 1 > NBLOCKS THEN NBLOCKS ELSE wr.next)
  BY <1>2, <1>3 DEF Sent
<1>10. Good => Taken' = wr'.next - 2 /\ Taken' <= Sent' /\ Sent' <= Taken' + 1
  BY <1>1, <1>2, <1>3, <1>8, <1>9, Basics
<1>11. Turns'
  BY <1>1, <1>3, <1>7, <1>8, <1>10 DEF Turns, Ready, Block
<1> QED
  BY <1>5, <1>6, <1>11 DEF IInv

\* A step after which nobody has a turn, or can take one, that did not before.
LEMMA Calm ==
    ASSUME IInv, UNCHANGED <<xprog, mem>>, wr'.next = wr.next,
           wr'.pc = wr.pc \/ wr'.pc \notin {"init_r", "open", "read", "give", "rmsem"},
           \/ sems' = sems
           \/ sems' = NoSems /\ wr'.pc \notin {"init_r"},
           \/ rd' = rd
           \/ rd' \in {"off", "open", "turn", "joined"}
           \/ /\ rd = "test" /\ rd' \in {"write", "last"}
              /\ (rd' = "write" => mem # 0) /\ (rd' = "last" => mem = 0),
           Good' => Good /\ (Ready' => Ready) /\ Taken' = Taken
    PROVE  Turns'
<1>1. Writer' = Writer /\ Sent' = Sent
  BY DEF Writer, Sent
<1>2. /\ Free("w")' => sems' = sems /\ Free("w")
      /\ Free("r")' => sems' = sems /\ Free("r")
      /\ sems' # NoSems => sems' = sems
  BY <1>1 DEF Free
<1>3. (WriterHas' => WriterHas) /\ (ReaderHas' => ReaderHas)
  BY DEF WriterHas, ReaderHas
<1>4. (Full' => Full) /\ (Empty' => Empty)
  BY <1>2 DEF Full, Empty
<1>5. Alternate => Alternate'
  BY <1>1, <1>2, <1>3 DEF Alternate
<1>6. Good' => /\ Taken' <= Sent' /\ Sent' <= Taken' + 1
               /\ (wr'.pc = "init_r" /\ Writer'.guard # "flag" => sems'["w"] = 1)
               /\ (wr'.pc = "open" => ~Free("r")')
  BY <1>1, <1>2, Basics DEF Turns
<1>7. Ready' => Ready /\ Good'
  BY DEF Ready
<1>8. Ready' => /\ Alternate'
                /\ Full' => mem' = Block(wr'.next - 1) /\ Taken' = wr'.next - 2
                /\ Empty' => Taken' = Sent'
                /\ rd' = "write" => mem' # 0
                /\ rd' = "last" => mem' = 0
  BY <1>1, <1>4, <1>5, <1>7, Basics DEF Turns
<1> QED
  BY <1>6, <1>8 DEF Turns, Block

\* The writer gives the turn away: the reader can take what is in the buffer.
LEMMA GiveStep == ASSUME IInv, WriterGive PROVE IInv'
<1>1. /\ UNCHANGED <<xprog, shm, mem, rd, out, stale, fresh, served>> /\ Writer' = Writer
      /\ wr.pc = "give" /\ sems \in Sems /\ GiveTurn(Writer, "r") /\ WriterTo("test")
      /\ Taken' = Taken /\ shm' \in {"none", "empty", "ok"} /\ mem' \in 0 .. NBLOCKS
  BY Basics DEF WriterGive, WriterAt, Writer, Taken, Types
<1>2. wr' \in [pc : WriterPcs, next : 1 .. NBLOCKS + 2] /\ wr'.pc = "test" /\ wr'.next = wr.next
  BY <1>1, WriterGoes DEF WriterPcs
<1>3. /\ sems' \in Sems /\ sems' # NoSems
      /\ (Free("w")' <=> Free("w")) /\ sems'["w"] = sems["w"]
      /\ Writer.guard # "flag" => sems'["r"] = sems["r"] + 1
  BY <1>1, TurnGiven
<1>4. Types'
  BY <1>1, <1>2, <1>3, WriterTypes
<1>5. Reading' /\ Coming'
  BY <1>1, <1>2, Basics DEF Reading, Coming, Starting, Block
<1>6. (ReaderHas' <=> ReaderHas) /\ Sent' = Sent /\ (Good' <=> Good) /\ (Good => Ready)
  BY <1>1, <1>2 DEF ReaderHas, Sent, Good, Ready
<1>7. ASSUME Good PROVE Alternate' /\ ~Empty' /\ Full
  <2>1. Alternate /\ WriterHas
    BY <1>1, <1>6, <1>7, Basics DEF Turns, WriterHas
  <2>2. ~Free("w") /\ ~Free("r") /\ ~ReaderHas
    BY <2>1 DEF Alternate
  <2>3. sems["w"] \in Nat /\ sems["r"] \in Nat /\ sems # NoSems
    BY <1>1, Basics DEF Sems
  <2>4. Writer.guard # "flag" => sems["w"] <= 1 /\ sems["r"] = 0
    BY <2>1, <2>2, <2>3 DEF Alternate, Free
  <2>5. Writer.guard # "flag" => sems'["w"] <= 1 /\ sems'["r"] <= 1
    BY <1>3, <2>3, <2>4
  <2>6. Alternate'
    BY <1>1, <1>2, <1>3, <1>6, <2>2, <2>5 DEF Alternate, WriterHas
  <2>7. ~Empty' /\ Full
    BY <1>1, <1>2, <1>3, <2>2 DEF Empty, Full, ReaderHas
  <2> QED
    BY <2>6, <2>7
<1>8. Turns'
  BY <1>1, <1>2, <1>6, <1>7, Basics DEF Turns, Ready, Block
<1> QED
  BY <1>4, <1>5, <1>8 DEF IInv

\* The writer leaves its loop, or goes on.
LEMMA TestStep == ASSUME IInv, WriterTest PROVE IInv'
<1>1. /\ UNCHANGED <<xprog, sems, shm, mem, rd, out, stale, fresh, served>>
      /\ wr.pc = "test" /\ sems \in Sems
      /\ Taken' = Taken /\ shm' \in {"none", "empty", "ok"} /\ mem' \in 0 .. NBLOCKS
  BY Basics DEF WriterTest, WriterAt, Taken, Types
<1>2. PICK l \in {"turn", "last", "joined"} : WriterTo(l) /\ (l = "turn" => mem # 0)
  BY DEF WriterTest
<1>3. wr' \in [pc : WriterPcs, next : 1 .. NBLOCKS + 2] /\ wr'.pc = l /\ wr'.next = wr.next
  BY <1>2, WriterGoes DEF WriterPcs
<1>4. Types'
  BY <1>1, <1>3, Basics, WriterTypes
<1>5. l = "turn" => wr.next <= NBLOCKS + 1
  BY <1>1, <1>2, Basics DEF Reading, Block
<1>6. Reading' /\ Coming'
  BY <1>1, <1>3, <1>5, Basics DEF Reading, Coming, Starting
<1>7. (Good' <=> Good) /\ (Good => Ready)
  BY <1>1, <1>3 DEF Good, Ready
<1>8. Turns'
  BY <1>1, <1>3, <1>7, Calm
<1> QED
  BY <1>4, <1>6, <1>8 DEF IInv

\* The writer removes the semaphores, then the buffer.
LEMMA RemoveStep == ASSUME IInv, WriterRemove PROVE IInv'
<1>1. /\ UNCHANGED <<xprog, mem, rd, out, stale, fresh, served>>
      /\ wr.pc \in {"rmsem", "rmshm"} /\ (sems' = sems \/ sems' = NoSems)
      /\ Taken' = Taken /\ mem' \in 0 .. NBLOCKS
  BY Basics DEF WriterRemove, WriterAt, Taken, Types
<1>2. PICK l \in {"rmshm", "off"} : WriterTo(l)
  BY DEF WriterRemove
<1>3. wr' \in [pc : WriterPcs, next : 1 .. NBLOCKS + 2] /\ wr'.pc = l /\ wr'.next = wr.next
  BY <1>2, WriterGoes DEF WriterPcs
<1>4. shm' \in {"none", "empty", "ok"}
  BY Basics DEF WriterRemove, Types
<1>5. Types'
  BY <1>1, <1>3, <1>4, Basics, WriterTypes
<1>6. Reading' /\ Coming'
  BY <1>1, <1>3, Basics DEF Reading, Coming, Starting
<1>7. (Good' => Good) /\ (Good => Ready)
  BY <1>1, <1>3 DEF Good, Ready
<1>8. Turns'
  BY <1>1, <1>3, <1>7, Calm
<1> QED
  BY <1>5, <1>6, <1>8 DEF IInv

\* What a step of the reader leaves of the types and of the writer's program.
LEMMA ReaderTypes ==
    ASSUME IInv, UNCHANGED <<xprog, shm, mem, wr, stale>>, ~Idle,
           sems' \in Sems \cup {NoSems}, sems # NoSems => sems' # NoSems, rd' \in ReaderPcs,
           out' \in Seq(0 .. NBLOCKS), fresh' \in BOOLEAN, served' \in BOOLEAN
    PROVE  Types' /\ Reading'
<1>1. ~Idle'
  BY DEF Idle
<1>2. Types'
  BY <1>1, Basics DEF Types
<1>3. Reading'
  BY Basics DEF Reading, Block
<1> QED
  BY <1>2, <1>3

\* A reader that has opened the buffer is the writer's first, or not a good one.
LEMMA ReaderServed ==
    ASSUME IInv, rd \notin {"off", "open"}, UNCHANGED <<wr, fresh, served, stale, shm>>,
           rd' \in ReaderPcs
    PROVE  /\ served /\ Coming' /\ (Good <=> fresh) /\ (Good' <=> Good) /\ (Ready' <=> Ready)
           /\ (Good => Ready) /\ ~Idle /\ Sent' = Sent
<1>1. served
  BY Basics DEF Coming
<1>2. Coming'
  BY <1>1, Basics DEF Coming
<1> QED
  BY <1>1, <1>2, Basics DEF Good, Ready, Coming, Sent

\* A reader finds the semaphores, or exits.
LEMMA ReaderStartStep == ASSUME IInv, ReaderStart PROVE IInv'
<1>1. /\ UNCHANGED <<xprog, sems, shm, mem, wr, out, stale, fresh, served>> /\ ~Idle
      /\ rd = "off" /\ rd' \in {"off", "open"} /\ sems \in Sems \cup {NoSems}
      /\ out \in Seq(0 .. NBLOCKS) /\ fresh \in BOOLEAN /\ served \in BOOLEAN
  BY Basics DEF ReaderStart, Types
<1>2. Types' /\ Reading'
  BY <1>1, ReaderTypes DEF ReaderPcs
<1>3. Coming'
  BY <1>1, Basics DEF Coming
<1>4. (Good' <=> Good) /\ (Ready' <=> Ready) /\ Taken' = Taken
  BY <1>1 DEF Good, Ready, Taken
<1>5. Turns'
  BY <1>1, <1>4, Calm
<1> QED
  BY <1>2, <1>3, <1>5 DEF IInv

\* A reader that comes to an initialised writer, before any other, is its first.
LEMMA OpenStep == ASSUME IInv, ReaderOpen PROVE IInv'
<1>1. /\ UNCHANGED <<xprog, sems, shm, mem, wr, stale>> /\ rd = "open" /\ ~Idle
      /\ sems \in Sems \cup {NoSems}
  BY Basics DEF ReaderOpen
<1>2. CASE rd' = "off"
  <2>1. UNCHANGED <<out, fresh, served>>
    BY <1>2 DEF ReaderOpen
  <2>2. out \in Seq(0 .. NBLOCKS) /\ fresh \in BOOLEAN /\ served \in BOOLEAN
    BY Basics DEF Types
  <2>3. Types' /\ Reading'
    BY <1>1, <1>2, <2>1, <2>2, ReaderTypes DEF ReaderPcs
  <2>4. Coming'
    BY <1>1, <1>2, <2>1, Basics DEF Coming
  <2>5. (Good' <=> Good) /\ (Ready' <=> Ready) /\ Taken' = Taken
    BY <1>1, <2>1 DEF Good, Ready, Taken
  <2>6. Turns'
    BY <1>1, <1>2, <2>5, Calm
  <2> QED
    BY <2>3, <2>4, <2>6 DEF IInv
<1>3. CASE rd' # "off"
  <2>1. /\ rd' = "turn" /\ out' = <<>> /\ served' = TRUE /\ fresh' = (~served /\ Initialised)
        /\ shm # "none"
    BY <1>3 DEF ReaderOpen
  <2>2. out' \in Seq(0 .. NBLOCKS) /\ fresh' \in BOOLEAN /\ served' \in BOOLEAN /\ Len(out') = 0
    BY <2>1
  <2>3. Types' /\ Reading'
    BY <1>1, <2>1, <2>2, ReaderTypes DEF ReaderPcs
  <2>4. fresh' => /\ ~served /\ ~fresh /\ Good /\ Ready /\ Taken = 0
                  /\ wr.pc \notin {"init_w", "init_r", "open"}
    BY <2>1, Basics DEF Initialised, Coming, Good, Ready, Taken
  <2>5. Coming'
    BY <1>1, <2>1, <2>4, Basics DEF Coming
  <2>6. Good' => fresh'
    BY <2>1 DEF Good
  <2>7. Taken' = 0
    BY <2>2 DEF Taken
  <2>8. Good' => Good /\ (Ready' => Ready) /\ Taken' = Taken
    BY <2>4, <2>6, <2>7
  <2>9. Turns'
    BY <1>1, <2>1, <2>8, Calm
  <2> QED
    BY <2>3, <2>5, <2>9 DEF IInv
<1> QED
  BY <1>2, <1>3

\* The reader takes its turn, with the writer's next block in the buffer.
LEMMA ReaderTurnStep == ASSUME IInv, ReaderTurn PROVE IInv'
<1>1. /\ UNCHANGED <<xprog, shm, mem, wr, out, stale, fresh, served>> /\ rd = "turn"
      /\ Writer' = Writer /\ Taken' = Taken /\ rd' \in ReaderPcs
      /\ sems \in Sems \cup {NoSems}
      /\ out \in Seq(0 .. NBLOCKS) /\ fresh \in BOOLEAN /\ served \in BOOLEAN
  BY Basics DEF ReaderTurn, Writer, Taken, ReaderPcs, Types
<1>2. /\ Coming' /\ (Good' <=> Good) /\ (Ready' <=> Ready) /\ (Good => Ready) /\ ~Idle
      /\ (Good <=> fresh) /\ Sent' = Sent
  BY <1>1, ReaderServed
<1>3. CASE sems = NoSems
  <2>1. rd' = "off" /\ sems' = sems
    BY <1>3 DEF ReaderTurn
  <2>2. Types' /\ Reading'
    BY <1>1, <1>2, <2>1, ReaderTypes
  <2>3. Turns'
    BY <1>1, <1>2, <2>1, Calm
  <2> QED
    BY <1>2, <2>2, <2>3 DEF IInv
<1>4. CASE sems # NoSems
  <2>1. rd' = "test" /\ WaitTurn(Reader, "r") /\ sems \in Sems
    BY <1>1, <1>4 DEF ReaderTurn
  <2>2. Reader.guard = Writer.guard
    BY <1>2, Basics, OneGuard
  <2>3. /\ sems' \in Sems /\ sems' # NoSems /\ Free("r")
        /\ (Free("w")' <=> Free("w")) /\ sems'["w"] = sems["w"]
        /\ (Writer.guard = "flag" \/ sems["r"] <= 1) => ~Free("r")'
        /\ Writer.guard # "flag" => sems'["r"] = sems["r"] - 1
    BY <1>1, <2>1, <2>2, TurnTaken
  <2>4. Types' /\ Reading'
    BY <1>1, <1>2, <2>3, ReaderTypes
  <2>5. ASSUME Good PROVE Alternate' /\ ~Empty' /\ Full
    <3>1. Alternate /\ ~Free("w") /\ ~WriterHas /\ ~ReaderHas
      BY <1>2, <2>3, <2>5, Basics DEF Turns, Alternate
    <3>2. sems["w"] \in Nat /\ sems["r"] \in Nat
      BY <2>1 DEF Sems
    <3>3. Writer.guard # "flag" => sems["w"] <= 1 /\ sems["r"] <= 1
      BY <1>4, <3>1 DEF Alternate
    <3>4. ~Free("r")'
      BY <2>3, <3>3
    <3>5. ~WriterHas'
      BY <1>1, <3>1 DEF WriterHas
    <3>6. Alternate'
      BY <1>1, <2>3, <3>1, <3>2, <3>3, <3>4, <3>5 DEF Alternate
    <3>7. ~Empty' /\ Full
      BY <1>1, <2>1, <2>3, <3>1 DEF Empty, Full, WriterHas
    <3> QED
      BY <3>6, <3>7
  <2>6. Good => wr.pc \notin {"init_w", "init_r", "open"}
    BY <1>2, Basics DEF Coming
  <2>7. Turns'
    BY <1>1, <1>2, <2>1, <2>5, <2>6, Basics DEF Turns, Ready, Block
  <2> QED
    BY <1>2, <2>4, <2>7 DEF IInv
<1> QED
  BY <1>3, <1>4

\* The reader looks at cnt: the block is still the one it was given.
LEMMA ReaderTestStep == ASSUME IInv, ReaderTest PROVE IInv'
<1>1. /\ UNCHANGED <<xprog, sems, shm, mem, wr, out, stale, fresh, served>> /\ rd = "test"
      /\ Taken' = Taken /\ rd' \in {"off", "write", "joined", "last"} /\ rd' \in ReaderPcs
      /\ sems \in Sems \cup {NoSems}
      /\ (rd' = "write" => mem # 0) /\ (rd' = "last" => mem = 0)
      /\ out \in Seq(0 .. NBLOCKS) /\ fresh \in BOOLEAN /\ served \in BOOLEAN
  BY Basics DEF ReaderTest, Taken, ReaderPcs, Types
<1>2. Coming' /\ (Good' <=> Good) /\ (Ready' <=> Ready) /\ (Good => Ready) /\ ~Idle
  BY <1>1, ReaderServed
<1>3. Types' /\ Reading'
  BY <1>1, <1>2, ReaderTypes
<1>4. \/ rd' = rd
      \/ rd' \in {"off", "open", "turn", "joined"}
      \/ /\ rd = "test" /\ rd' \in {"write", "last"}
         /\ (rd' = "write" => mem # 0) /\ (rd' = "last" => mem = 0)
  BY <1>1
<1>5. wr'.next = wr.next /\ wr'.pc = wr.pc
  BY <1>1
<1>6. Turns'
  BY <1>1, <1>2, <1>4, <1>5, Calm
<1> QED
  BY <1>2, <1>3, <1>6 DEF IInv

\* The reader writes the block it was given, which is the writer's last.
LEMMA Written ==
    ASSUME IInv, fresh, rd = "write"
    PROVE  mem = Taken + 1 /\ Sent = Taken + 1
<1>1. Good /\ Ready /\ Full
  BY Basics DEF Good, Ready, Full, Coming
<1>2. mem = Block(wr.next - 1) /\ Taken = wr.next - 2 /\ mem # 0
  BY <1>1, Basics DEF Turns
<1>3. wr.next - 1 <= NBLOCKS /\ mem = wr.next - 1
  BY <1>2, Basics DEF Block
<1> QED
  BY <1>2, <1>3, Basics DEF Sent

\* The reader writes the block and is even with the writer.
LEMMA WriteStep == ASSUME IInv, ReaderWrite PROVE IInv'
<1>1. /\ UNCHANGED <<xprog, sems, shm, mem, wr, stale, fresh, served>> /\ rd = "write"
      /\ rd' = "give" /\ out' = Append(out, mem) /\ sems \in Sems \cup {NoSems}
      /\ out \in Seq(0 .. NBLOCKS) /\ mem \in 0 .. NBLOCKS /\ fresh \in BOOLEAN /\ served \in BOOLEAN
      /\ Writer' = Writer
  BY Basics DEF ReaderWrite, Types, Writer
<1>2. out' \in Seq(0 .. NBLOCKS) /\ Len(out') = Len(out) + 1
  BY <1>1
<1>3. /\ Coming' /\ (Good' <=> Good) /\ (Ready' <=> Ready) /\ (Good => Ready) /\ ~Idle
      /\ (Good <=> fresh) /\ Sent' = Sent
  BY <1>1, ReaderServed DEF ReaderPcs
<1>4. Types' /\ Reading'
  BY <1>1, <1>2, <1>3, ReaderTypes DEF ReaderPcs
<1>5. Good => Taken' = Taken + 1 /\ Taken' = Sent'
  BY <1>1, <1>2, <1>3, Written DEF Taken
<1>6. /\ (Free("w")' <=> Free("w")) /\ (Free("r")' <=> Free("r")) /\ (WriterHas' <=> WriterHas)
      /\ ReaderHas /\ ReaderHas'
  BY <1>1 DEF Free, WriterHas, ReaderHas
<1>7. ASSUME Good PROVE Alternate' /\ ~Full'
  <2>1. Alternate
    BY <1>3, <1>7, Basics DEF Turns
  <2>2. ~Free("w") /\ ~Free("r") /\ ~WriterHas
    BY <1>6, <2>1 DEF Alternate
  <2>3. Alternate'
    BY <1>1, <1>6, <2>1, <2>2 DEF Alternate
  <2>4. ~Full'
    BY <1>1, <1>6, <2>2 DEF Full, WriterHas
  <2> QED
    BY <2>3, <2>4
<1>8. Good => wr.pc \notin {"init_w", "init_r", "open"}
  BY <1>3, Basics DEF Coming
<1>9. Good => Taken' <= Sent' /\ Sent' <= Taken' + 1
  BY <1>3, <1>5, Basics
<1>10. Turns'
  BY <1>1, <1>3, <1>5, <1>7, <1>8, <1>9 DEF Turns, Ready
<1> QED
  BY <1>3, <1>4, <1>10 DEF IInv

\* The reader gives the turn back, with every block written that was sent.
LEMMA ReaderGiveStep == ASSUME IInv, ReaderGive \/ ReaderLast PROVE IInv'
<1>1. /\ UNCHANGED <<xprog, shm, mem, wr, out, stale, fresh, served>> /\ rd \in {"give", "last"}
      /\ Writer' = Writer /\ Taken' = Taken /\ rd' \in {"off", "turn"} /\ rd' \in ReaderPcs
      /\ sems \in Sems \cup {NoSems}
      /\ out \in Seq(0 .. NBLOCKS) /\ fresh \in BOOLEAN /\ served \in BOOLEAN
  BY Basics DEF ReaderGive, ReaderLast, Writer, Taken, ReaderPcs, Types
<1>2. /\ Coming' /\ (Good' <=> Good) /\ (Ready' <=> Ready) /\ (Good => Ready) /\ ~Idle
      /\ (Good <=> fresh) /\ Sent' = Sent
  BY <1>1, ReaderServed
<1>3. CASE sems = NoSems
  <2>1. sems' = sems
    BY <1>3 DEF ReaderGive, ReaderLast
  <2>2. Types' /\ Reading'
    BY <1>1, <1>2, <2>1, ReaderTypes
  <2>3. Turns'
    BY <1>1, <1>2, <2>1, Calm
  <2> QED
    BY <1>2, <2>2, <2>3 DEF IInv
<1>4. CASE sems # NoSems
  <2>1. GiveTurn(Reader, "w") /\ sems \in Sems
    BY <1>1, <1>4 DEF ReaderGive, ReaderLast
  <2>2. Reader.guard = Writer.guard
    BY <1>2, Basics, OneGuard
  <2>3. /\ sems' \in Sems /\ sems' # NoSems
        /\ (Free("r")' <=> Free("r")) /\ sems'["r"] = sems["r"]
        /\ Writer.guard # "flag" => sems'["w"] = sems["w"] + 1
    BY <1>1, <2>1, <2>2, TurnGiven
  <2>4. Types' /\ Reading'
    BY <1>1, <1>2, <2>3, ReaderTypes
  <2>5. ASSUME Good PROVE Alternate' /\ ~Full'
    <3>1. Alternate /\ ReaderHas
      BY <1>1, <1>2, <2>5, Basics DEF Turns, ReaderHas
    <3>2. ~Free("w") /\ ~Free("r") /\ ~WriterHas /\ ~WriterHas'
      BY <1>1, <3>1 DEF Alternate, WriterHas
    <3>3. sems["w"] \in Nat /\ sems["r"] \in Nat
      BY <2>1 DEF Sems
    <3>4. Writer.guard # "flag" => sems["w"] = 0 /\ sems["r"] <= 1
      BY <1>4, <3>1, <3>2, <3>3 DEF Alternate, Free
    <3>5. Writer.guard # "flag" => sems'["w"] <= 1 /\ sems'["r"] <= 1
      BY <2>3, <3>3, <3>4
    <3>6. Alternate'
      BY <1>1, <2>3, <3>2, <3>5 DEF Alternate, ReaderHas
    <3>7. ~Full'
      BY <1>1, <2>3, <3>2 DEF Full, WriterHas
    <3> QED
      BY <3>6, <3>7
  <2>6. Good => wr.pc \notin {"init_w", "init_r", "open"}
    BY <1>2, Basics DEF Coming
  <2>7. Good => Taken = Sent
    <3>1. CASE rd = "give"
      BY <1>2, <3>1, Basics DEF Turns, Empty
    <3>2. CASE rd = "last"
      <4>1. Good => mem = 0 /\ mem = Block(wr.next - 1) /\ Taken = wr.next - 2
        BY <1>2, <3>2, Basics DEF Turns, Full
      <4>2. Good => wr.next = NBLOCKS + 2
        BY <4>1, Basics DEF Block
      <4> QED
        BY <4>1, <4>2, Basics DEF Sent
    <3> QED
      BY <1>1, <3>1, <3>2
  <2>8. Good => Taken' <= Sent' /\ Sent' <= Taken' + 1 /\ Taken' = Sent'
    BY <1>1, <1>2, <2>7, Basics
  <2>9. Turns'
    BY <1>1, <1>2, <2>5, <2>6, <2>8 DEF Turns, Ready
  <2> QED
    BY <1>2, <2>4, <2>9 DEF IInv
<1> QED
  BY <1>3, <1>4

\* main() joins both threads, which are done.
LEMMA JoinStep == ASSUME IInv, Join PROVE IInv'
<1>1. /\ UNCHANGED <<xprog, shm, mem, out, stale, fresh, served>> /\ wr.pc = "joined"
      /\ rd = "joined" /\ rd' = "off" /\ WriterTo("off") /\ sems' = NoSems /\ Taken' = Taken
  BY DEF Join, WriterAt, Taken
<1>2. wr' \in [pc : WriterPcs, next : 1 .. NBLOCKS + 2] /\ wr'.pc = "off" /\ wr'.next = wr.next
  BY <1>1, WriterGoes DEF WriterPcs
<1>3. Types'
  BY <1>1, <1>2, Basics DEF Types, ReaderPcs, Idle
<1>4. Reading' /\ Coming'
  BY <1>1, <1>2, Basics DEF Reading, Coming, Starting
<1>5. (Good' => Good) /\ (Good => Ready)
  BY <1>1, <1>2 DEF Good, Ready
<1>6. Turns'
  BY <1>1, <1>2, <1>5, Calm
<1> QED
  BY <1>3, <1>4, <1>6 DEF IInv

\* Without the writer or the reader there is no transfer; a reader that is
\* killed before it opened the buffer leaves the writer without one.
LEMMA KillStep == ASSUME IInv, XfrKill PROVE IInv'
<1>1. /\ UNCHANGED <<xprog, shm, mem, out, stale, served>> /\ ~Idle /\ ~Idle' /\ fresh' = FALSE
      /\ sems \in Sems \cup {NoSems}
      /\ out \in Seq(0 .. NBLOCKS) /\ stale \in BOOLEAN /\ served \in BOOLEAN
      /\ sems' = (IF Threads THEN NoSems ELSE sems) /\ (rd' = rd \/ rd' = "off")
  BY Basics DEF XfrKill, Idle, Types
<1>2. (wr' = NoWriter) \/ (wr' = wr /\ sems' = sems /\ rd' = "off")
  BY DEF XfrKill
<1>3. wr' \in [pc : WriterPcs, next : 1 .. NBLOCKS + 2] /\ (wr'.pc = "off" \/ wr' = wr)
  BY <1>2, Basics DEF NoWriter, WriterPcs
<1>4. sems' \in Sems \cup {NoSems} /\ (wr'.pc \notin {"off", "rmshm"} => sems' # NoSems)
  BY <1>1, <1>2, Basics DEF NoWriter, Types
<1>5. Types'
  BY <1>1, <1>3, <1>4, Basics DEF Types, ReaderPcs
<1>6. Reading' /\ Coming'
  BY <1>1, <1>3, Basics DEF Reading, Coming, Starting, Block
<1>7. CASE wr' = wr /\ sems' = sems /\ rd' = "off"
  <2>1. Good' => Good /\ (Ready' => Ready) /\ Taken' = Taken
    BY <1>1, <1>7, Basics DEF Good, Ready, Taken, Coming
  <2>2. Turns'
    BY <1>1, <1>7, <2>1, Calm
  <2> QED
    BY <1>5, <1>6, <2>2 DEF IInv
<1>8. CASE wr' = NoWriter
  <2>1. ~Good' /\ ~Ready'
    BY <1>1, <1>8 DEF Good, Ready, NoWriter
  <2>2. Turns'
    BY <2>1 DEF Turns
  <2> QED
    BY <1>5, <1>6, <2>2 DEF IInv
<1> QED
  BY <1>2, <1>7, <1>8

\* Before anything runs.
LEMMA InitInv == XfrInit => IInv
<1> SUFFICES ASSUME XfrInit PROVE IInv
  OBVIOUS
<1>1. Types
  <2>1. mem \in 0 .. NBLOCKS /\ 1 \in 1 .. NBLOCKS + 2
    BY XfrAssumption DEF XfrInit
  <2>2. wr \in [pc : WriterPcs, next : 1 .. NBLOCKS + 2] /\ wr.pc = "off" /\ rd \in ReaderPcs
    BY <2>1 DEF XfrInit, NoWriter, WriterPcs, ReaderPcs
  <2>3. out \in Seq(0 .. NBLOCKS)
    BY DEF XfrInit
  <2> QED
    BY <2>1, <2>2, <2>3 DEF XfrInit, Types
<1>2. Reading /\ Coming
  BY DEF XfrInit, Reading, Coming, Starting, NoWriter
<1>3. ~Good /\ ~Ready
  BY DEF XfrInit, Good, Ready, NoWriter
<1> QED
  BY <1>1, <1>2, <1>3 DEF IInv, Turns

\* Nothing of it is lost when no variable changes.
LEMMA StutterStep == ASSUME IInv, UNCHANGED xvars PROVE IInv'
<1>1. UNCHANGED <<xprog, sems, shm, mem, wr, rd, out, stale, fresh, served>>
  BY DEF xvars
<1>2. Types' /\ Reading' /\ Coming'
  BY <1>1, Basics DEF Types, Reading, Coming, Idle, Block
<1>3. (Good' <=> Good) /\ (Ready' <=> Ready) /\ Taken' = Taken
  BY <1>1 DEF Good, Ready, Taken
<1>4. Turns'
  BY <1>1, <1>3, Calm
<1> QED
  BY <1>2, <1>4 DEF IInv

\* Every step keeps the invariant.
LEMMA NextInv == IInv /\ [XfrNext]_xvars => IInv'
<1> SUFFICES ASSUME IInv, [XfrNext]_xvars PROVE IInv'
  OBVIOUS
<1>1. ASSUME WriterStep PROVE IInv'
  BY <1>1, InitStep, BufferStep, TurnStep, ReadStep, GiveStep, TestStep, RemoveStep
     DEF WriterStep
<1>2. ASSUME ReaderStep PROVE IInv'
  BY <1>2, OpenStep, ReaderTurnStep, ReaderTestStep, WriteStep, ReaderGiveStep DEF ReaderStep
<1> QED
  BY <1>1, <1>2, StartStep, ReaderStartStep, JoinStep, KillStep, StutterStep DEF XfrNext
\* "Exclusive, alternating access" (svshm_xfr_writer.c lines 18-22): in a
\* transfer the two programs never both have the buffer, no turn can be taken
\* while one has it, and the two turns are never free together.
THEOREM Alternation == XfrSpec => [](fresh => Alternate)
<1>1. IInv => (fresh => Alternate)
  BY Basics DEF Good, Ready, Coming, Turns
<1> QED
  BY <1>1, InitInv, NextInv, PTL DEF XfrSpec
-----------------------------------------------------------------------------
\* What the channel sees of a transfer, in the invariant's words.
LEMMA Seen ==
    /\ XfrSent = (IF fresh THEN Sent ELSE 0) /\ XfrGot = (IF fresh THEN out ELSE <<>>)
    /\ XfrSent' = (IF fresh' THEN Sent' ELSE 0) /\ XfrGot' = (IF fresh' THEN out' ELSE <<>>)
  BY DEF XfrSent, XfrGot, Sent

\* Nothing was sent and nothing came.
LEMMA InitRefines == XfrInit => Handed!Init
  BY DEF XfrInit, Handed!Init, XfrSent, XfrGot

\* A step that reads no input and writes no output is none of the channel's.
LEMMA Quiet ==
    ASSUME fresh' = fresh, fresh => UNCHANGED <<wr, out>> \/ (wr'.next = wr.next /\ out' = out)
    PROVE  UNCHANGED <<XfrSent, XfrGot>>
  BY DEF XfrSent, XfrGot

\* A transfer that begins, with a reader that finds a block or none.
LEMMA OpenRefines ==
    ASSUME IInv, ReaderOpen
    PROVE  [Handed!Put \/ Handed!Take \/ Handed!Reset]_<<XfrSent, XfrGot>>
<1>1. wr' = wr /\ Sent' = Sent
  BY DEF ReaderOpen, Sent
<1>2. CASE rd' = "off"
  <2>1. UNCHANGED <<fresh, out>>
    BY <1>2 DEF ReaderOpen
  <2> QED
    BY <1>1, <2>1, Quiet
<1>3. CASE rd' # "off"
  <2>1. out' = <<>> /\ fresh' = (~served /\ Initialised) /\ XfrGot' = <<>>
    BY <1>3 DEF ReaderOpen, XfrGot
  <2>2. CASE ~fresh'
    BY <2>1, <2>2, Seen DEF Handed!Reset
  <2>3. CASE fresh'
    <3>1. Good /\ ~fresh
      BY <2>1, <2>3, Basics DEF Good, Initialised, Coming
    <3>2. Taken = 0 /\ Sent \in 0 .. 1
      BY <3>1, Basics DEF Turns, Taken
    <3>3. XfrSent = 0 /\ XfrGot = <<>> /\ XfrSent' = Sent
      BY <1>1, <2>3, <3>1, Seen
    <3>4. Len(<<>>) = 0
      OBVIOUS
    <3> QED
      BY <2>1, <3>2, <3>3, <3>4 DEF Handed!Put
  <2> QED
    BY <2>2, <2>3
<1> QED
  BY <1>2, <1>3

\* A block goes into the channel only when every one before it came out.
LEMMA ReadRefines ==
    ASSUME IInv, WriterRead
    PROVE  [Handed!Put \/ Handed!Take \/ Handed!Reset]_<<XfrSent, XfrGot>>
<1>1. fresh' = fresh /\ out' = out /\ wr.pc = "read" /\ wr'.next = wr.next + 1
  BY DEF WriterRead, WriterAt
<1>2. CASE ~fresh
  BY <1>1, <1>2, Quiet
<1>3. CASE fresh
  <2>1. Ready /\ Empty /\ Good
    BY <1>1, <1>3 DEF Ready, Good, Empty
  <2>2. Len(out) = Sent
    BY <1>3, <2>1, Basics DEF Turns, Taken
  <2>3. Sent' = Sent \/ Sent' = Sent + 1
    BY <1>1, Basics DEF Sent
  <2>4. XfrSent = Sent /\ XfrGot = out /\ XfrSent' = Sent' /\ XfrGot' = out
    BY <1>1, <1>3, Seen
  <2>5. Sent - Len(out) < 1
    BY <2>2, Basics
  <2> QED
    BY <2>3, <2>4, <2>5 DEF Handed!Put
<1> QED
  BY <1>2, <1>3

\* What the reader writes is the channel's next block.
LEMMA WriteRefines ==
    ASSUME IInv, ReaderWrite
    PROVE  [Handed!Put \/ Handed!Take \/ Handed!Reset]_<<XfrSent, XfrGot>>
<1>1. /\ fresh' = fresh /\ wr' = wr /\ rd = "write" /\ out' = Append(out, mem) /\ Sent' = Sent
  BY DEF ReaderWrite, Sent
<1>2. CASE ~fresh
  BY <1>1, <1>2, Quiet
<1>3. CASE fresh
  <2>1. mem = Len(out) + 1 /\ Sent = Len(out) + 1 /\ Len(out) \in Nat
    BY <1>1, <1>3, Basics, Written DEF Taken
  <2>2. XfrSent = Sent /\ XfrGot = out /\ XfrSent' = Sent /\ XfrGot' = Append(out, mem)
    BY <1>1, <1>3, Seen
  <2> QED
    BY <2>1, <2>2 DEF Handed!Take
<1> QED
  BY <1>2, <1>3

\* Every step of the two programs is one of the channel's, or none.
LEMMA StepRefines ==
    IInv /\ [XfrNext]_xvars => [Handed!Put \/ Handed!Take \/ Handed!Reset]_<<XfrSent, XfrGot>>
<1> SUFFICES ASSUME IInv, [XfrNext]_xvars
             PROVE  [Handed!Put \/ Handed!Take \/ Handed!Reset]_<<XfrSent, XfrGot>>
  OBVIOUS
<1>1. CASE WriterStart
  <2>1. XfrGot' = <<>>
    BY <1>1 DEF WriterStart, XfrGot
  <2>2. wr'.next = 1 /\ NBLOCKS \in Nat
    BY <1>1, Basics DEF WriterStart
  <2>3. Sent' = 0
    BY <2>2 DEF Sent
  <2> QED
    BY <2>1, <2>3, Seen DEF Handed!Reset
<1>2. CASE XfrKill
  BY <1>2, Seen DEF XfrKill, Handed!Reset
<1>3. CASE ReaderOpen
  BY <1>3, OpenRefines
<1>4. CASE WriterRead
  BY <1>4, ReadRefines
<1>5. CASE ReaderWrite
  BY <1>5, WriteRefines
<1>6. CASE WriterInit \/ WriterOpen \/ WriterSize \/ WriterTurn \/ WriterGive \/ WriterTest
           \/ WriterLast \/ WriterRemove \/ Join
  <2>1. UNCHANGED <<fresh, out>> /\ \E l \in WriterPcs : WriterTo(l)
    BY <1>6 DEF WriterInit, WriterOpen, WriterSize, WriterTurn, WriterGive, WriterTest,
       WriterLast, WriterRemove, Join, WriterPcs, Starting
  <2>2. wr'.next = wr.next
    BY <2>1, WriterGoes
  <2> QED
    BY <2>1, <2>2, Quiet
<1>7. CASE ReaderStart \/ ReaderTurn \/ ReaderTest \/ ReaderGive \/ ReaderLast \/ UNCHANGED xvars
  <2>1. UNCHANGED <<fresh, out, wr>>
    BY <1>7 DEF ReaderStart, ReaderTurn, ReaderTest, ReaderGive, ReaderLast, xvars
  <2> QED
    BY <2>1, Quiet
<1> QED
  BY <1>1, <1>2, <1>3, <1>4, <1>5, <1>6, <1>7 DEF XfrNext, WriterStep, ReaderStep

\* For every number of blocks, writers, readers and kills, and for every pair
\* of programs: a writer and the first reader that comes to it are a channel of
\* capacity one.  Every block comes out once and in order, and the next is read
\* into the buffer only after the one before it was written out.
THEOREM Handover == XfrSpec => ImplementsChannel
<1>1. XfrSpec => []IInv
  BY InitInv, NextInv, PTL DEF XfrSpec
<1> QED
  BY <1>1, InitRefines, StepRefines, PTL DEF XfrSpec, ImplementsChannel, Handed!Spec
=============================================================================
