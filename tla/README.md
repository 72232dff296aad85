# A TLA+ verification project for tlpi-solutions

The repository holds solutions to the exercises of *The Linux Programming
Interface*: some 765 files, most of them small C programs, one directory per
chapter. Many print what one system call does. Some are real concurrent
systems: a threaded key-value server, a semaphore library built on System V
IPC, a tree with one mutex per node, a name service in shared memory, file and
sequence-number servers over every kind of IPC, relays and pseudoterminal
programs. The models are of these.

## Inventory

| Part | State it keeps | Operations | What is hard | What makes it correct |
|---|---|---|---|---|
| Key-value server, ch. 59 (`kv_*.c`) | array of pointers to heap records; a thread and a socket per client | set, get, delete, cleanup; requests and responses | threads interleave; a record is used after the mutex is released; reads fail half way; the array is full | no freed record reachable, no key twice, no leak; behaves as a bounded map; only the creator's host changes an entry |
| POSIX semaphores, ch. 53 (`posix_sem.c`) | a System V semaphore and a metadata segment under one key; handles per process | sem_open, close, unlink, wait, trywait, timedwait, post | creation is seven system calls; an unlocked reference count; alarm racing post | exclusive creation; an open semaphore is never removed; the last close removes all; waits end |
| Thread-safe tree, ch. 30 (`threadsafe_tree.c`) | nodes with a mutex each | add, delete, lookup | lock coupling; deletes move content between nodes | a search tree without freed nodes; linearizable; every call returns |
| Name service, ch. 48 (`dir_service/`) | shared memory entries, a semaphore | set, get, delete, init_dir, rm_dir | processes killed anywhere, SEM_UNDO, initialisation races | one process at a time; entries whole; commands end |
| Sequence number servers, ch. 44, 46, 52, 57, 59 | the next number, in memory or in a file; queues, FIFOs, sockets | request, answer, signals | crash between answer and save; clients that die or never read; one queue for both directions | no number printed twice; every client ends |
| Message queue file servers, ch. 46, 52 | queues, children | request, data messages, end | full queue and dead client, timeouts | the client gets the file, in order, and an end |
| Shared memory transfers, ch. 47-49, 53, 54 | buffer, two semaphores or flags; a token in a FIFO | write and read in turns; reserve and release | hand-over, end of file, removal, processes killed and started again | the reader's output is the writer's input; one process inside |
| Lock files and file locks, ch. 55 | lock files; locks of descriptions and of processes | create, retry, force, remove; flock, fcntl | signals in the middle, staleness races, circles | a lock has one owner; a failed command leaves nothing |
| Allocator, ch. 7 | chunks with boundary tags, a free list | mymalloc, myfree | splitting, coalescing | chunks tile the heap, allocated ones stay untouched |
| Line readers, tail, sendfile, typescripts, ch. 13, 59, 61, 64 | buffer and positions | one tool on one input | boundaries of buffers and lines, partial reads and writes | equal to a definition of the result |
| File transfer server, ch. 61 | one served client, its file and position | connect, cookie, transfer, reset | messages that arrive together, clients turned away, interrupts | a finished download is the whole file |
| Chats, ch. 46, 52 | a queue and a name file per user, two processes per session | send, receive, end | both processes clean up; a session starts while the last one ends | the queue lives as long as the session |
| Connection servers, ch. 57, 59-61, 63 | children, permits, a poll array | accept, fork, echo, print, run | merged SIGCHLD, stale revents, clients that say nothing or die | everybody gets his own answers, and the end |
| Pseudoterminal relays, ch. 64 | two directions of bytes, a terminal mode, a child | copy, resize, end of input, child death | ends in either order, full pty, signals | what goes in comes out; the terminal and the login record are restored, but after a failed write |
| Wakeups and pipes, ch. 24, 31, 44, 47, 52, 63 | signals pending, pipes, a mutex | wait, wake, popen, pclose, init once | signals that come a moment early; ends of pipes kept open by others; commands that end early; a read that cuts messages | no wakeup missed; a closed stream is done with; nobody waits for ever |
| Recursive watch, ch. 19 | table of watched paths, a queue of events | the handlers of each event | the tree changes while events wait | what is in the tree is watched |
| Path algorithms, ch. 18, 31 | none or per-thread buffers | realpath, getcwd, nftw, dirname, basename | symbolic links | not modelled |

The parts interact through system calls only: within a program by threads and
signal handlers, between programs by IPC objects, sockets, FIFOs and files.
`PROJECT.json` lists every part, with the reason where one is not modelled, and
under "hazards" the places that are hard to test.

## Modules

| Module | Models | State | Actions |
|---|---|---|---|
| `KvMap` | what `kv_store.h` promises | `dict`, `reply` | `Set`, `Get`, `Delete`, `Clear` |
| `KvStore` | `kv_store.c` | `records`, `record_cnt`, `heap` (what is behind each address), `ret` | one per function: each holds `records_mutex` throughout, so each is one step |
| `KvServer` | `kv_server.c`, `kv_client.c` | clients `cl`, connection threads `sv` | `Connect`, `handle_client` (up to the store call), `CallStore`, `send_response`, `SendValue`, `handle_response` |
| `PosixSem` | `posix_sem.c` | the two keys, all objects made so far, the call each process is in, handles | one per system call or access to the shared metadata |
| `ThreadsafeTree` | `threadsafe_tree.c` | `mem`, `mtx`, threads with their locals | one per lock taken: from one `pthread_mutex_lock()` to the next |
| `DirService` | `dir_service/` | keys, segments, semaphores, processes | one per system call or write to shared memory, and `Kill` |
| `SeqnumServer` | the sequence number servers and clients of ch. 44, 46, 52, 57, 59, `bad_client.c` | `prog` (which pair of programs), server `sv`, sequence `file`, requests `reqq`, clients `cl`, their names and answers | one per system call that another process can notice; ends of the server (`handler`, `ServerKilled`), `ClientDies` |
| `Channel` | what a transfer promises: blocks in order and once, a bounded number on their way | `sent`, `got` | `Put`, `Take`, `Reset` |
| `Transfer` | `binary_sems.c`, `vms_flags.c` and the five pairs of writer and reader of ch. 48, 49, 53, 54 | `xprog` (which pair), semaphores `sems`, buffer `shm`, `mem`, writer `wr`, reader `rd`, `out` | one per semaphore operation, object created or removed, read or write; `XfrKill` |
| `NpipeSem` | `npipe_sem.c`, `npipe_sem_test.c` | the FIFO's name and tokens, tests and their children | one per `open()`, `read()`, `write()` of the FIFO; `KillNp` |
| `LockFile` | `simple_lockfile.c` | lock files with owner and age, commands with their list | one per system call; `cleanup_and_exit` at any of them |
| `FileLocks` | the `flock()` and `fcntl()` programs of ch. 55, as sequences of calls | descriptors, open file descriptions, record locks, waiters | one per system call |
| `Pftp` | `pftp_server.c`, `pftp_client.c`, `pftp_common.c` | server `sv`, clients `cl`, connections `con` | one per handler of the server's loop and per `recv()` or `send()` of the client |
| `Chat` | both `chat.c` | queues `mqs`, sessions `sess`, receivers `recvr` | one per queue operation or process creation; signals |
| `ConnServers` | echo, shell and printing servers of ch. 57, 59, 60, 61, 63, `id_echo_sv`, their clients | `prog`, listener `lis`, connections `conn`, children `child`, poll array `pfd` | one per `accept()`, `fork()`, `read()`/`write()` pair, poll round step; `LoseDatagram`, `ClientDies` |
| `PtyRelay` | `script` and its variants, `unbuffer`, `smitty_*`, `vi_script` | `rprog`, `loop`, two handler processes `rd`, `wr`, `keys`, the pty `far`, `kid`, `shown`, `file`, `tty`, `size`, `wtmp` | one per system call of the loop; the user, the window and the program behind the pty are external |
| `Malloc` | `mymalloc.c` | `hp` (memory words, list head, break), `live` blocks | `mymalloc`, `myfree` |
| `TextTools` | `readLine()`, `readLineBuf()`, `tail`, `naive_tail`, `us_sendfile()`, `readn()`, `writen()`, `script_ts`, `script_replay` | `job`, `tx` | one per `read()` or `write()`, of any size |
| `Wakeups` | self-pipe programs, `mq_notify_sig` and variants, `fork_sig_sync` and variants | `wk`, where its processes are `wpc`, signals and queues `ws` | one per system call or signal |
| `Pipes` | `popen.c`, `uppercase.c`, `msgq_select.c`, `one_time.c` | `pp`, `pv` | one per system call |
| `Watch` | `watch.c` | the tree `loc`, watches and their paths, the queue `evq`, cookies `mv` | one per handled event; `Create`, `Delete`, `Move` are the file system's |
| `FileServer` | the message queue file servers and clients of ch. 46 (original, a to e, client 5, bad client) and 52 | `prog`, server `sv`, where it is found `key`, server queues `sq`, client queues `box`, clients `cl`, children `ch` | one per queue operation or write to the key file; signals, timeouts, lost alarms, failed fork and read |

The modules `KvStoreProofs`, `KvServerProofs`, `DirServiceProofs`,
`PosixSemProofs`, `PosixSemSerialProofs`, `SeqnumServerProofs`,
`FileServerProofs` and `TransferProofs` hold the theorems about the module they
are named after, with their proofs (see *Proofs*).

`MC*` modules give the constants their values; the `.cfg` files name what is
checked. `KvServer` composes the store with threads and clients; its
specification is shown to implement `KvMap` through `KvStore`'s refinement
mapping (`Dict` reads the array as a map). `MCSessions`, `MCRelays` and
`MCPrograms` each check several modules that share no state: a behaviour runs
the programs of one of them, chosen initially, while the others stay idle.

How control corresponds to the code:

- *KvServer.* `read_exact()` keeps its byte counter in a `size_t`, and a failed
  `read()` adds `(size_t) -1`. The set `read_exact(n)` holds what it can return
  and whether the bytes are the ones the peer sent; `handle_client()` tests the
  header's length with `<= 0` (an error passes) and the others with `== -1` (it
  does not). The value of a GET is read through the pointer in a step of its
  own, `SendValue`, because the mutex is no longer held; memory that was freed
  reads as anything.
- *PosixSem.* `ref_count++` is two steps. The creation path writes magic,
  unlinked and ref_count in three steps, in that order. `serial` is chosen
  initially: with it no two naming calls (open, close, unlink) overlap, without
  it they do, `MaxCalls` times.
- *ThreadsafeTree.* Between two lock operations a thread touches only nodes it
  holds, so that a step loses no interleaving. The exception, the write into
  `curr` after the walk to the successor has unlocked it (line 265), is the
  step `DeleteOverwrite`. `lossy` records that a successor with a right subtree
  was deleted.
- *DirService.* `Kill` ends a process at any step; the kernel then applies the
  SEM_UNDO adjustment, and a string it was copying may be left `TORN`. `orderly`
  is chosen initially: with it rm_dir runs alone and one init_dir at a time.
- *SeqnumServer.* The ten servers are one loop (read, open, answer, advance,
  save); `Pair` says what a program does of it and each program has a
  definition of its own name. A transport is modelled by what can be lost or
  wait: a FIFO's `open()` waits for the other end and its content goes with the
  last descriptor, queues keep messages over deaths and have a size, sockets
  close with either process. `save_seq()` is two steps, O_TRUNC and the write,
  and counts the descriptors it leaves open.
- *FileServer.* One loop again, with the programs as `Pair`s. System V queue ids
  are never used twice, POSIX queues are found by pid and live while open.
  Timeouts can come at any moment a call waits; an alarm before that moment is
  lost (`ClientSlow`, `ChildSlow`). A child that is signalled runs the handler it
  inherited (`ChildSignal`). A failed `msgsnd()` ends a child in every server:
  where the code breaks out of its loop, the end message fails too. There is one
  server process at a time, but children of earlier ones go on.
- *Transfer.* A program is a record that says which primitive keeps the turns
  and which object the buffer is; the loop is the same. `stale` says that the
  writer met objects of an earlier, killed one, `fresh` that a reader is the
  writer's first and came after the objects were initialised.
- *LockFile.* `stat()` and `unlink()` of a stale file are two steps, as are the
  creation of a file and its entry in the list. `forced` holds the files removed
  by force or twice, `missed` the ones a signal handler did not know of.
- *FileLocks.* The kernel's part (who waits for whom, EDEADLK, what `close()`
  and `fork()` do to locks) is external; the programs are their calls in order.
- *Pftp.* `recv()` returns one message or several; the size message and data in
  one `recv()` are the case `merged`, in which the client drops the data.
- *ConnServers.* `grimReaper` reaps all that can be reaped, since signals
  merge. A slot of the poll array keeps the `revents` of whoever had it before.
- *PtyRelay.* The loop keeps what `select()` reported in `loop.ready` and works
  it off in the code's order, with the buffer in between, so that the other
  side can end, or the pty fill, between a read and its write. A write to the other
  side when it has gone fails or not, and the connection of `smitty_cl` may break
  under any write (`ConnectionLost`); `fatal()` then runs the exit handlers, which
  restore the terminal and close the typescript. `smitty_cl` has none: after a
  failed write, or SIGPIPE, its terminal stays raw, and the servers leave without a
  logout record. `RelaySafe` claims the rest.
- *Malloc.* Memory is a function from word addresses to numbers, because the
  code reads the same words as sizes with a flag, as footers and as pointers.
  A block in use is filled by its owner; `broken` says that freeing a block
  under 16 bytes has overwritten its own footer, or that a free read past the break.
- *TextTools.* Each tool runs on every short input, and the properties compare
  its result with a definition that does not use buffers.
- *Pipes.* A stream has its descriptor (any free one), stdio's buffer, the pipe and
  the processes that hold the parent's end. `mypclose()` looks up `fd_to_pid`, then
  `Flush` is its `fclose()` and `Waited` its `waitpid()`. A command may end at any
  moment (`EarlyExit`): what is left in the buffer can then not be written, and
  `mypclose()` returns -1, leaves a zombie and leaves its entry, which the next
  stream with that descriptor meets. `WaitAny` is a program that waits for its
  children itself, `fopen` a stream that `mypopen()` did not open; for both
  `mypclose()` has an error return. `PopenSafe` says that it fails for these reasons
  only. In `msgq_select` a message has pieces and a `read()` takes up to
  MAX_MSG_SIZE of them, so that it can cut a message; `merged` are the messages
  whose beginning was read behind another. A queue that is removed or a message
  that is too long ends the child, and its end of file the parent.
- *Watch.* `past` records what makes the program lose track: operations before
  the last one's events were handled, directories moved, things moved out.

## Runs

| Run | Shows |
|---|---|
| `kv_server` | two hosts, three keys for two slots: types, `StoreSound`, the refinement `ImplementsMap` and `CreatorOnly` hold |
| `kv_get_race` | violation: a GET can send what is in a freed record (`GetSendsWhatItFound`) |
| `posix_sem` | two processes: exclusive creation under any overlap; without overlap no open semaphore is removed (`OpenStaysValid`) and nothing is left behind (`LastCloseFrees`); a timed wait ends if the alarm comes during it |
| `posix_sem_count` | violation: overlapping opens lose a reference |
| `tree` | two threads, three calls, six starting trees (one for each case of `delete()`): `SearchTree`, `Linearizable`, `CallsReturn` |
| `tree_lost` | violation: deleting a node with two children can drop other keys |
| `dir_service` | two processes at a time, five calls, one kill: `Exclusive`, `EntriesWhole`, `CommandsEnd` |
| `seqnum` | every pair of programs, two pids, three requests, one kill of a server, one client that dies or is `bad_client`: `UniqueNumbers`, `ClientsEnd` |
| `file_server` | every pair of programs, two requests, two servers one after the other, two harms (kills, signals, lost alarms, failed calls, bad clients): `WholeFile`, `KeyNamesServer`, `RequestsEnd`, `ChildrenEnd` |
| `sessions` | `Pftp` and `Chat`: two download clients (full, short, empty, missing and refused files) of one server; two users, up to three sessions, one signal: `SessionsSafe`, `SessionsEnd` |
| `relays` | `ConnServers` and `PtyRelay`: nine server programs with two clients, one of which may die; ten relays with two keys, two outputs and two window changes: `RelaysSafe`, `RelaysEnd` |
| `programs` | `Transfer`, `LockFile`, `NpipeSem`, `FileLocks`, `Malloc`, `TextTools`, `Wakeups`, `Pipes`, `Watch`: the refinement `ImplementsChannel`, `LocksSafe`, `HeapSound`, `TextRight`, `ProgramsSafe`, and that everybody ends (`HandoverEnds`, `ProgramsEnd`) |

Bounds. Two actors suffice for each race the properties speak of, since every
one is between a pair: reader and deleter, two openers, two threads on one
path, holder and waiter. `MAX_RECORDS` 2 with three keys reaches the full
array and the move into a hole. `MaxIds` 2 allows a semaphore to be removed and
made again while the first is still held. `MAX_ENTRIES` 2 reaches the full
directory and a reused slot. `NOFILE` 2 with three requests reaches the save that finds no descriptor, QCAP 2
a clogged queue, `MAX_RETRIES` 1 a retry and the giving up; three requests of two
pids use a pid again. In `FileServer` a file of two messages does not fit a queue
of one, so that children wait in the middle of a file, and two harms reach a
server killed and a child of it signalled after the next one started. In the later runs: two blocks, three
readers and two kills reach a transfer after a killed one; two lock files taken
in both orders reach the circle; a heap of 128 bytes holds four small chunks, so
that both neighbours coalesce, and requests of 5, 16 and 40 bytes split, fit and
extend; texts of up to five bytes against buffers of two to four put lines and
buffer ends in every position; a file of two buffers arrives in parts; one
permit and two poll slots are taken by two clients; a pty of one chunk fills;
a pipe of one or two bytes overflows with signals; two streams meet a descriptor
used before and an end kept open by a later command, and a pipe of two chunks fills;
messages of one or two pieces fit, merge and are cut, and one of three is too long; two directories and two files
with three operations give every pair of events. `MaxOps`, `MaxCalls`, `MaxReq`, `MaxDown`, `MaxDeaths` and `MaxKills` are checked in
the guards. Record addresses in `kv_server` are symmetric: they are compared
for equality only.

Deadlock is checked in the key-value server, which always can accept another
connection. In the other runs calls are bounded, and a `sem_wait()` nobody posts
may wait for ever, so a behaviour may stop.

Fairness. Weak fairness of the steps of a thread or process that is inside a
call: the kernel schedules runnable processes and hands a free mutex or a
positive semaphore to a waiter. Calls themselves are not fair: nobody has to
start one. In `PosixSem` an alarm that is set fires at last. The alarm may
fire before `semop()` blocks (`AlarmEarly`); `TimedWaitEnds` is about the other
case, for in this one the code waits for a post. In the later modules likewise:
the steps of a running program are weakly fair, those of the user, of other
senders and of signals are not, and in `PtyRelay` the program behind the pty
may stop reading whenever it likes, but finishes a write it is in when there is
room and ends when it has closed its terminal or is hung up.

What is conditioned, and on what: `Linearizable` on no lossy deletion so far;
`OpenStaysValid` and `LastCloseFrees` on naming calls that do not overlap (and no
failed `strdup()`); `Exclusive` on rm_dir running alone and one init_dir at a
time, `EntriesWhole` on that and on no rm_dir killed half way; `CommandsEnd` on no init_dir killed
between `semget()` and SETVAL; `UniqueNumbers` on no server ended with a number
given and not saved and no pid used again while its former owner's request or
answer was on its way; `ClientsEnd` on no server ended, none `Blocked` in
`open()` on a dead client, no client given up on before it opened its FIFO, and
the queue of `msg_seqnum` not `Clogged`; `WholeFile` on a file the child could
read and a POSIX queue nobody used before; `RequestsEnd` and `ChildrenEnd` on no lost alarm where there are timeouts and on no harm where
there are none; `KeyNamesServer` on no child signalled.
In the later modules the conditions are the history variables and predicates
named at the properties: `FlagsLeft` and `fresh` (`Transfer`), `forced` and
`missed` (`LockFile`), `overlap` (`NpipeSem`), `FlockCircle` (`FileLocks`),
`Stuck` (`Pftp`), `late` and `leaked` (`Chat`), `PollBlocked`, `Crowded` and
`Gone` (`ConnServers`), `Blocked` and the reasons of the loop's end (`PtyRelay`),
`broken` (`Malloc`), the lengths in `LinesRight` and `SendRight` (`TextTools`),
`early` and `again` (`Wakeups`), `holds` and `merged` (`Pipes`), `past`
(`Watch`). Without these conditions the code does not keep
them, and the comments at the properties say why.

## Proofs

TLC settles a property for the bounds of a run, TLAPS for every value of the
constants: any number of processes, clients, requests, kills and restarts, every
queue, file, heap and array size. Every listed theorem that names a property of
a run states that very definition, about the same specification or, for the
modules that `MCPrograms` composes, about the module's own (`XfrSpec`).

| Module | Theorems | What they say |
|---|---|---|
| `KvStoreProofs` | `TypeCorrect`, `StoreAlwaysSound`, `Refinement` | the array is sound, and `kv_store.c` implements `KvMap` |
| `KvServerProofs` | `ServerTypeCorrect`, `ServerStoreSound`, `ServerImplementsMap`, `OnlyTheCreator` | the same of the threaded server; an entry changes only by a call from its creator's host |
| `DirServiceProofs` | `TypeCorrect`, `MutualExclusion`, `EntriesStayWhole` | one process inside, entries whole, with kills anywhere |
| `PosixSemProofs` | `TypeCorrect`, `ExclusiveOpen` | under every overlap of calls, O_EXCL has one winner |
| `PosixSemSerialProofs` | `HandlesStayValid`, `LastCloseRemoves` | without overlap of naming calls the reference count does its work |
| `SeqnumServerProofs` | `TypeCorrect`, `NumbersUnique` | ranges are disjoint over all ten servers |
| `FileServerProofs` | `TypeCorrect`, `ServerFound`, `FilesWhole` | clients find the server; a file that is reported is whole |
| `TransferProofs` | `Alternation`, `Handover` | writer and reader have the buffer in turns, and implement `Channel` |

Assumptions. Each is an `ASSUME` of the module that declares the constants, and
TLC evaluates it in the module's run. They say that sizes and bounds are naturals
(positive where the program's are), that the model values `NULL` and `TORN` are
none of the data they are mixed with, and that: requests are well-formed headers
and clients have an address (`ServerAssumption`); there are finitely many
processes (`SemAssumption`, for the reference count); the programs run are those
of the repository (`ProgramsAssumption` in `SeqnumServer` and `FileServer`,
`TransfersAssumption`), which matters, since a `Pair` of features no program
combines need not be correct. Nothing is assumed of schedules: what a theorem is
conditioned on is in the property itself, as listed above.

The inductive invariants, and why they are needed:

- *KvStore.* `IInv == TypeOK /\ StoreSound`. The parts of `StoreSound` do not
  stand alone: a delete keeps slots live because keys are unique (the freed
  record is in no other slot), and keeps keys unique because the moved record was
  in the last slot only. `ScanLemma` says what `kv_store_get_idx()` returns;
  `HeapIsDict` reads the heap as the map, so that a call's effect on the map is
  read off the one record it writes or frees.
- *KvServer.* Each thread reaches the store through `CallStore` only, with a key
  and value of the right type even when a failed `read()` let a dirty header
  through (`Held`), so every server step is a step of `KvStore` or none, and the
  theorems about the store carry over.
- *DirService.* `IInv == Types /\ Locals /\ OneUnit /\ Order`. A semaphore's unit
  is in its value or with one owner (`OneUnit`): an init_dir that has created the
  semaphore owns it until SETVAL. Without calling convention two semaphores may
  be in use at a time; with it, all at or past the lock use the one the key names
  (`Order`). The entries need, above that, that the segment was wiped before there
  was a semaphore (`KeysFit`) and how far the one process inside has filled its
  slot (`Filling`): in_use is set last.
- *PosixSem.* `IInv == Objects /\ Processes /\ Apart`: the only object that lives
  is the one the key names; what each process's locals refer to at each point;
  and that two processes never made the same semaphore with O_EXCL, from
  `semget()` on. `SerialInv` follows the one naming call under way point by point
  (`Phase`) and says by how much the count differs from the number of handles;
  a failed `strdup()` leaves it too high (`leaked`), never too low.
- *SeqnumServer.* What was printed is disjoint because of what is still under way:
  `Apart` speaks of the ranges printed and of the answers on their way, and puts
  all of them below `Limit`, the number the next answer will carry, from this
  server or the next. `Identities` and `Owned` tie an answer to the client that
  asked and to the length it asked for; `Saved` ties the file to `Limit`.
- *FileServer.* `Delivery` says what a client got, what is in its queue and what
  its child sends next are consecutive pieces of one file. It needs that a request
  is in one place only (`Once`), carries its client's pid, file and queue (`Asked`,
  `Queues`), and, for POSIX queues, which a child opens by pid, that no other
  request of that pid is about (`Owned`). `Found` is what a client and a starting
  server meet at the key.
- *Transfer.* `Turns`: at most one of the two programs has its turn or can take
  it (`Alternate`); until the writer has read, everything sent was written
  (`Empty`), and after that the buffer holds the next block (`Full`). This holds of
  a writer with its first reader (`Good`), for whom the semaphores are what the
  writer made them. The refinement is step by step: `WriterRead` is a `Put`,
  `ReaderWrite` a `Take`; a kill, a new writer and a reader that is no first one
  are a `Reset`; a first reader that finds a block in the buffer is a `Put`.

Before they were proved the invariants were checked by TLC, on the runs'
instances or somewhat larger ones. Proving changed the models in places:
`ReaderGive` of `Transfer` left out that `releaseSem()` fails on a set that was
removed, which no run reached, and `Exclusive` turned out not to need that
rm_dir runs to its end.

Only model-checked:

- all liveness (`CommandsEnd`, `CallsReturn`, `ClientsEnd`, `RequestsEnd`,
  `ChildrenEnd`, `TimedWaitEnds`, `SessionsEnd`, `RelaysEnd`, `HandoverEnds`,
  `ProgramsEnd`): fairness and ENABLED are out of the prover's reach;
- `ThreadsafeTree`: that a node is reachable, and what is below it, is an
  induction over paths, as is `Linearizable`'s abstraction;
- `Malloc`, `TextTools`, `Watch`: their results are recursive functions of the
  memory, the text or the tree, so theorems about them are inductions over data;
- `XfrTypeOK`, whose bounds on the semaphores follow from the run's number of
  kills and flags, and the type invariants of the composed runs;
- `LockFile`, `NpipeSem`, `FileLocks`, `Wakeups`, `Pipes`, `Pftp`, `Chat`,
  `ConnServers`, `PtyRelay`: not yet proved. Of these the safety of `LockFile` and
  `NpipeSem` is a statement about any number of processes and worth a proof; the
  others are about one server and a client, where a small instance says most.

## Not modelled

Formatting, messages, option parsing, permissions and errno values; time other
than "the alarm fires" or "the file is old"; overflow of sequence numbers; more
than one semaphore name or directory; names longer than NAME_LEN are cut, and
nothing further is claimed of them. Memory is modelled where its lifetime or
layout matters (records, tree nodes, the heap).

Writes to a terminal or a typescript are taken to succeed. What is printed to a
stream of `mypopen()` fits stdio's buffer, as in `test_write()`, and SIGPIPE is
ignored, as there. The messages sent to `msgq_select` end with a NUL.
`path_info_by_wd` of `watch.c` is an array of max_user_watches elements indexed by
watch descriptors, which only grow; that they may pass its end is not modelled. `script_replay` handles a line
as a string and so drops what follows a NUL byte; `TextTools` has no such bytes.

Left out on purpose, in `PROJECT.json` as `not_modelled` or under `partly`: path
algorithms (`myrealpath`, `getcwd`, `nftw`, `dirname`, `basename`, the search of
`execlp`), which compute strings from one snapshot; file attribute, login,
scheduling and limit tools and the terminal functions, which are a system call
and its output; benchmarks, which measure time; demonstrations of kernel
behaviour, which have no state of their own; IN_UNMOUNT in the watch. Where the
same file stands in several chapters (the book's library, `read_line.c`,
`inet_sockets.c`), one copy is mapped.

## Plan

1. *Proofs*: `LockFilesSafe` and the token of `NpipeSem`, for any number of
   processes.
2. *Abstract servers*: an allocator of disjoint ranges for `SeqnumServer`, a file
   delivered in order for `FileServer`, and the refinements, from the invariants
   `Apart` and `Delivery`.
