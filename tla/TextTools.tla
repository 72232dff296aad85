----------------------------- MODULE TextTools -----------------------------
(***************************************************************************)
(* Programs that carry bytes through a buffer: the line readers of         *)
(* chapter_59, tail of chapter_13, us_sendfile(), readn() and writen() of  *)
(* chapter_61, and the timed typescript of chapter_64 with its replay.     *)
(* read() and write() move as many bytes as they like.  A behaviour runs   *)
(* one tool on one input; TextRight compares it with a definition of what  *)
(* it is for.                                                              *)
(***************************************************************************)
EXTENDS Integers, Sequences, FiniteSets
LOCAL INSTANCE SequencesExt

CONSTANTS
    Jobs,        \* [tool, data, n, ...]: what is run on what; <<>> for nothing
    RL_SIZE,     \* BUF_SIZE of read_line_mod.h
    SEND_SIZE,   \* BUF_SIZE of sendfile.c
    TS_SIZE      \* BUF_SIZE of script_ts.c

VARIABLES
    job,         \* the tool and its input
    tx           \* how far it is: a record of its local variables

textvars == <<job, tx>>

NL == "\n"
Least(a, b) == IF a < b THEN a ELSE b
\* The first position of a newline in s, or 0.
Newline(s) == IF \E i \in DOMAIN s : s[i] = NL
              THEN CHOOSE i \in DOMAIN s : s[i] = NL /\ \A j \in 1 .. i - 1 : s[j] # NL
              ELSE 0
Drop(s, k) == SubSeq(s, k + 1, Len(s))

\* The tools: what a job says.  n is the size of the caller's buffer, the lines
\* wanted or the bytes wanted; size is the tool's own buffer.
readLine(d, n)       == [tool |-> "readLine", data |-> d, n |-> n, size |-> 1]
readLineBuf(d, n)    == [tool |-> "readLineBuf", data |-> d, n |-> n, size |-> RL_SIZE]
tail(d, n, s)        == [tool |-> "tail", data |-> d, n |-> n, size |-> s]
naive_tail(d, n)     == tail(d, n, 1)
us_sendfile(d, n, o) == [tool |-> "us_sendfile", data |-> d, n |-> n, size |-> SEND_SIZE, offset |-> o]
readn(d, n)          == [tool |-> "readn", data |-> d, n |-> n, size |-> n]
script_ts(d)         == [tool |-> "script_ts", data |-> d, n |-> 0, size |-> TS_SIZE]

\* offset is NULL: the file position is used.
AtFilePos == -1

TextInit ==
    /\ job \in Jobs
    /\ tx = [st |-> "run",     \* "run", or how it ended
             at |-> IF job # <<>> /\ job.tool = "tail" THEN Len(job.data) ELSE 0,
             buf |-> <<>>,     \* read and not used yet
             out |-> <<>>,     \* what the call has produced so far
             tot |-> 0,        \* totRead, line_cnt, total_written
             blk |-> 0,        \* bytes_read: the block that writen() is given
             off |-> IF job # <<>> /\ job.tool = "us_sendfile" THEN job.offset ELSE 0,
             lines |-> <<>>]   \* what calls have returned, or the timed file

Doing(tool) == job # <<>> /\ job.tool = tool /\ tx.st = "run"

\* The call returns line s with value ret, and is made again.
Returns(s, ret) == tx.lines \o <<[str |-> s, ret |-> ret]>>

-----------------------------------------------------------------------------
(* The line readers *)

\* readLine(): one byte; what does not fit in n - 1 bytes is dropped.
ReadChar ==
    LET left == Drop(job.data, tx.at)  ch == Head(left)
        out  == IF tx.tot < job.n - 1 THEN Append(tx.out, ch) ELSE tx.out
    IN /\ Doing("readLine") /\ UNCHANGED job
       /\ \/ /\ left = <<>> /\ tx.tot = 0
             /\ tx' = [tx EXCEPT !.st = "eof"]
          \/ /\ left = <<>> /\ tx.tot > 0
             /\ tx' = [tx EXCEPT !.lines = Returns(tx.out, tx.tot), !.out = <<>>, !.tot = 0]
          \/ /\ left # <<>> /\ ch # NL
             /\ tx' = [tx EXCEPT !.at = @ + 1, !.out = out, !.tot = Len(out)]
          \/ /\ left # <<>> /\ ch = NL
             /\ tx' = [tx EXCEPT !.at = @ + 1, !.lines = Returns(out, Len(out)),
                                 !.out = <<>>, !.tot = 0]

\* A read() other than an interrupted one fails: the call returns -1.
ReadFails == /\ Doing("readLine") \/ (Doing("readLineBuf") /\ tx.buf = <<>>)
             /\ tx' = [tx EXCEPT !.st = "error"] /\ UNCHANGED job

\* readLineBuf() with an empty buffer: it is filled with what read() returns.
FillBuffer ==
    LET left == Drop(job.data, tx.at)
    IN /\ Doing("readLineBuf") /\ tx.buf = <<>> /\ UNCHANGED job
       /\ \/ \E k \in 1 .. Least(job.size, Len(left)) :
               tx' = [tx EXCEPT !.at = @ + k, !.buf = SubSeq(left, 1, k)]
          \/ /\ left = <<>> /\ tx.tot > 0
             /\ tx' = [tx EXCEPT !.lines = Returns(tx.out, tx.tot), !.out = <<>>, !.tot = 0]
          \/ /\ left = <<>> /\ tx.tot = 0
             /\ tx' = [tx EXCEPT !.st = "eof"]

CopyLine ==
    LET k == Newline(tx.buf)  s == tx.out \o SubSeq(tx.buf, 1, k)
    IN /\ Doing("readLineBuf") /\ k > 0 /\ UNCHANGED job
       /\ tx' = [tx EXCEPT !.lines = Returns(s, Len(s)), !.out = <<>>, !.tot = 0,
                           !.buf = Drop(@, k)]

\* Without one it copies what fits and forgets the rest of the buffer; when the
\* caller's buffer is full, it returns one less than it placed there.
CopyAll ==
    LET copy == Least(job.n - 1 - tx.tot, Len(tx.buf))
        s    == tx.out \o SubSeq(tx.buf, 1, copy)
    IN /\ Doing("readLineBuf") /\ tx.buf # <<>> /\ Newline(tx.buf) = 0 /\ UNCHANGED job
       /\ tx' = IF Len(s) < job.n - 1
                THEN [tx EXCEPT !.out = s, !.tot = Len(s), !.buf = <<>>]
                ELSE [tx EXCEPT !.lines = Returns(s, Len(s) - 1), !.out = <<>>, !.tot = 0,
                                !.buf = <<>>]

-----------------------------------------------------------------------------
(* tail *)

\* The block before file_pos is searched for newlines from its end; the last
\* line_cnt that counts sets file_pos to its newline.
TailBlock ==
    LET to_read == Least(tx.at, job.size)
        pos     == tx.at - to_read
        found   == {i \in pos .. tx.at - 1 : job.data[i + 1] = NL}
        missing == job.n + 1 - tx.tot
    IN /\ Doing("tail") /\ tx.at > 0 /\ tx.tot <= job.n /\ UNCHANGED job
       /\ tx' = IF Cardinality(found) < missing
                THEN [tx EXCEPT !.at = pos, !.tot = @ + Cardinality(found)]
                ELSE [tx EXCEPT !.at = CHOOSE i \in found :
                                         Cardinality({j \in found : j >= i}) = missing,
                                !.tot = job.n + 1]

TailPrint ==
    LET adjusted_pos == IF tx.at = 0 THEN 0 ELSE tx.at + 1
    IN /\ Doing("tail") /\ (tx.at = 0 \/ tx.tot > job.n) /\ UNCHANGED job
       /\ tx' = [tx EXCEPT !.st = "done", !.out = Drop(job.data, adjusted_pos)]

-----------------------------------------------------------------------------
(* us_sendfile(), readn(), writen() *)

\* A block from the file position, or by pread() from the offset: offset has
\* been advanced by what was written and total_written is added once more.
\* read() may return less than asked for, pread() of a file only at its end.
SendRead ==
    LET remaining == job.n - tx.tot
        from == IF job.offset = AtFilePos THEN tx.at ELSE tx.off + tx.tot
        left == Drop(job.data, from)
        most == Least(Least(remaining, job.size), Len(left))
    IN /\ Doing("us_sendfile") /\ tx.buf = <<>> /\ UNCHANGED job
       /\ \/ /\ most = 0
             /\ tx' = [tx EXCEPT !.st = "done"]
          \/ \E k \in 1 .. most :
               /\ job.offset = AtFilePos \/ k = most
               /\ tx' = [tx EXCEPT !.buf = SubSeq(left, 1, k), !.blk = k,
                                   !.at = IF job.offset = AtFilePos THEN @ + k ELSE @]
          \/ most > 0 /\ tx' = [tx EXCEPT !.st = "error"]

\* Mutant: what the first write() left of the block is not written.
Written_Once(k) ==
    [tx EXCEPT !.out = @ \o SubSeq(tx.buf, 1, k), !.buf = <<>>, !.tot = @ + tx.blk,
               !.off = IF @ # AtFilePos THEN @ + tx.blk ELSE @]

\* A write() of k bytes of what is left of the block; the last one ends the round.
Written(k) ==
    LET last == k = Len(tx.buf)
    IN [tx EXCEPT !.out = @ \o SubSeq(tx.buf, 1, k), !.buf = Drop(@, k),
                  !.tot = IF last THEN @ + tx.blk ELSE @,
                  !.off = IF last /\ @ # AtFilePos THEN @ + tx.blk ELSE @]

\* writen() goes on until the block is written.  An interrupted write() is made
\* again, any other failure ends the call.
writen ==
    /\ Doing("us_sendfile") /\ tx.buf # <<>> /\ UNCHANGED job
    /\ \/ \E k \in 1 .. Len(tx.buf) : tx' = Written(k)
       \/ tx' = [tx EXCEPT !.st = "error"]

\* readn() reads until it has n bytes or the input ends.
ReadMore ==
    LET left == Drop(job.data, tx.at)
    IN /\ Doing("readn") /\ UNCHANGED job
       /\ \/ /\ tx.tot = job.n \/ left = <<>>
             /\ tx' = [tx EXCEPT !.st = "done"]
          \/ \E k \in 1 .. Least(job.n - tx.tot, Len(left)) :
               tx' = [tx EXCEPT !.out = @ \o SubSeq(left, 1, k), !.at = @ + k, !.tot = @ + k]
          \/ tx.tot < job.n /\ tx' = [tx EXCEPT !.st = "error"]

Escaped(c) == CASE c = NL   -> <<"\\", "n">>
                [] c = "\r" -> <<"\\", "r">>
                [] c = "\\" -> <<"\\", "\\">>
                [] OTHER    -> <<c>>
EscapeLine(s) == FlattenSeq([i \in DOMAIN s |-> Escaped(s[i])])

\* From position i on: an escape stands for its character; an unknown one, and
\* a backslash that ends the line, for themselves.
Unescape(s) ==
    LET known == [n |-> NL, r |-> "\r"]
        from[i \in 1 .. Len(s) + 2] ==
          IF i > Len(s) THEN <<>>
          ELSE IF s[i] = "\\" /\ i < Len(s)
               THEN (IF s[i + 1] \in DOMAIN known THEN <<known[s[i + 1]]>>
                     ELSE IF s[i + 1] = "\\" THEN <<"\\">> ELSE <<"\\", s[i + 1]>>)
                    \o from[i + 2]
               ELSE <<s[i]>> \o from[i + 1]
    IN from[1]

\* script_ts collects a byte; a newline or a full buffer makes a timed line.
TsByte ==
    LET lineBuf == Append(tx.buf, job.data[tx.at + 1])
    IN /\ Doing("script_ts") /\ tx.at < Len(job.data) /\ UNCHANGED job
       /\ tx' = IF Newline(lineBuf) # 0 \/ Len(lineBuf) >= job.size - 1
                THEN [tx EXCEPT !.at = @ + 1, !.buf = <<>>,
                                !.lines = Append(@, EscapeLine(lineBuf))]
                ELSE [tx EXCEPT !.at = @ + 1, !.buf = lineBuf]

\* The shell is gone: exit() leaves what lineBuf holds unwritten.
TsExit == /\ Doing("script_ts") /\ tx.at = Len(job.data) /\ UNCHANGED job
          /\ tx' = [tx EXCEPT !.st = "replay"]

\* script_replay writes a timed line back.
script_replay ==
    /\ job # <<>> /\ job.tool = "script_ts" /\ tx.st = "replay" /\ UNCHANGED job
    /\ tx' = IF tx.lines = <<>> THEN [tx EXCEPT !.st = "done"]
             ELSE [tx EXCEPT !.out = @ \o Unescape(Head(tx.lines)), !.lines = Tail(@)]

TextNext == \/ ReadChar \/ ReadFails \/ FillBuffer \/ CopyLine \/ CopyAll
            \/ TailBlock \/ TailPrint
            \/ SendRead \/ writen \/ ReadMore
            \/ TsByte \/ TsExit \/ script_replay
-----------------------------------------------------------------------------
\* The types of the tools' variables.
TextTypeOK == /\ tx.st \in {"run", "eof", "error", "done", "replay"}
              /\ tx.at \in Nat /\ tx.tot \in Nat /\ tx.off \in Nat \cup {AtFilePos}
              /\ tx.blk \in 0 .. SEND_SIZE
              /\ job # <<>> => LET Chars == Range(job.data) \cup {NL, "\r", "\\"}
                               IN tx.buf \in Seq(Chars) /\ tx.out \in Seq(Chars)

\* The lines of d, each with its newline; the last may have none.
LinesOf(d) ==
    LET starts == {i \in 1 .. Len(d) : i = 1 \/ d[i - 1] = NL}
        line(i) == LET k == Newline(Drop(d, i - 1))
                   IN IF k = 0 THEN Drop(d, i - 1) ELSE SubSeq(d, i, i + k - 1)
    IN [j \in 1 .. Cardinality(starts) |->
          line(CHOOSE i \in starts : Cardinality({k \in starts : k <= i}) = j)]
LastLines(d, n) == LET l == LinesOf(d) IN FlattenSeq(Drop(l, IF Len(l) > n THEN Len(l) - n ELSE 0))

\* readLine() returns every line cut to n - 1 bytes.  readLineBuf() returns the
\* same lines however read() cuts the input, when each line has at most n - 1
\* bytes and a last one without a newline at most n - 2.
LinesRight ==
    LET all == LinesOf(job.data)
        cut == [j \in DOMAIN all |-> SubSeq(all[j], 1, Least(job.n - 1, Len(all[j])))]
        fit == \A l \in Range(all) : Len(l) + (IF Last(l) = NL THEN 0 ELSE 1) <= job.n - 1
    IN (job.tool = "readLine" \/ fit) =>
         /\ Len(tx.lines) <= Len(all)
         /\ \A j \in DOMAIN tx.lines : tx.lines[j] = [str |-> cut[j], ret |-> Len(cut[j])]
         /\ tx.st = "eof" => Len(tx.lines) = Len(all)

\* tail prints the last n lines of a file that ends in a newline and the last
\* n + 1 of another; and one more when that is the first line and empty, since
\* its newline is taken for the beginning of the file.
TailRight == tx.st = "done" =>
    LET d == job.data
        k == IF d = <<>> \/ Last(d) = NL THEN job.n ELSE job.n + 1
    IN tx.out = LastLines(d, IF Len(LinesOf(d)) = k + 1 /\ d[1] = NL THEN k + 1 ELSE k)

\* us_sendfile() sends the bytes from where it was told, as many as it says and
\* no others, and advances offset by as many: without an offset, or when one
\* block is enough.
SendRight ==
    LET start == IF job.offset = AtFilePos THEN 0 ELSE job.offset
    IN job.offset = AtFilePos \/ job.n <= job.size =>
         /\ tx.out = SubSeq(job.data, start + 1, start + Len(tx.out))
         /\ tx.st = "done" =>
              /\ tx.tot = Len(tx.out) /\ tx.tot = Least(job.n, Len(Drop(job.data, start)))
              /\ tx.off = IF job.offset = AtFilePos THEN AtFilePos ELSE start + tx.tot

\* readn() has the first n bytes, or all there are.
ReadnRight == tx.st = "done" => tx.out = SubSeq(job.data, 1, Least(job.n, Len(job.data)))

\* A replay shows what the typescript holds, but for an unfinished last line.
ReplayRight ==
    LET shown == tx.out \o FlattenSeq([i \in DOMAIN tx.lines |-> Unescape(tx.lines[i])])
    IN shown \o tx.buf = SubSeq(job.data, 1, tx.at)

\* Each tool produces what it is for, whatever read() and write() do: for the
\* inputs that its code is right about, which the definitions above name.
TextRight == job # <<>> =>
    CASE job.tool \in {"readLine", "readLineBuf"} -> LinesRight
      [] job.tool = "tail"        -> TailRight
      [] job.tool = "us_sendfile" -> SendRight
      [] job.tool = "readn"       -> ReadnRight
      [] job.tool = "script_ts"   -> ReplayRight
=============================================================================
