-------------------------- MODULE FileServerProofs --------------------------
(***************************************************************************)
(* Proofs about FileServer for all pairs of programs, any number of        *)
(* clients, requests, servers and failures, every file and queue size.     *)
(* What a client reports is right because of what is on its way.  For a    *)
(* client that is Fine (its file can be read, nobody left anything behind  *)
(* under its pid) Delivered says that it got the first pieces, that its    *)
(* queue holds the next ones in order (Stream), and that the child of its  *)
(* request, the only one that writes there, sends the one after those.     *)
(* That needs to know that a request is in one place (Once: in a queue,    *)
(* with the server, or a child), that it carries its client's pid, file    *)
(* and queue (Asked, Queues), and, for POSIX queues, which children open   *)
(* by pid, that no other request of that pid is there (Owned).  Found is   *)
(* what a client and a starting server meet at the key.                    *)
(***************************************************************************)
EXTENDS FileServer, SequenceTheorems, TLAPS

\* What the variables hold.
Request == [id : Nat, pid : Clients, q : Nat, file : Nat \cup {NULL}]
Piece   == [id : Nat, n : Nat]
Packet  == [type : {"DATA", "END", "FAILURE"}, id : Nat, n : Nat]
Server  == [pc : {"down", "trunc", "write", "loop", "fork"}, q : Nat,
            req : Request \cup {NULL}]
Client  == [pc : {"none", "send", "recv"}, id : Nat, file : Nat \cup {NULL}, q : Nat,
            g : Nat, got : Seq(Piece), slow : BOOLEAN]
Child   == [pc : {"none", "open", "send"}, q : Nat, pid : Clients \cup {NULL},
            file : Nat \cup {NULL}, n : Nat, g : Nat, slow : BOOLEAN]

\* The requests in queues, and the one that the server took.
Queued  == UNION {{sq[g][i] : i \in 1 .. Len(sq[g])} : g \in DOMAIN sq}
Pending == Queued \cup ({sv.req} \ {NULL})

Live(c)    == cl[c].pc # "none"
Running(i) == ch[i].pc # "none"

\* Types, and that the server has a request just between msgrcv() and fork().
SvTypes  == sv \in Server /\ (sv.pc = "fork" <=> sv.req # NULL)
ClTypes  == cl \in [Clients -> Client] /\ qname \in [Clients -> 1 .. reqs \cup {NULL}]
ChTypes  == ch \in [1 .. MaxReq -> Child]
SqTypes  == /\ sq = [g \in DOMAIN sq |-> sq[g]]
            /\ \A g \in DOMAIN sq : sq[g] \in Seq(Request) /\ Len(sq[g]) <= QCAP
BoxTypes == /\ box = [q \in DOMAIN box |-> box[q]]
            /\ \A q \in DOMAIN box : box[q] \in Seq(Packet) /\ Len(box[q]) <= QCAP
OtherTypes == /\ prog \in Programs /\ key \in Nat \cup {NULL} /\ servers \in Nat
              /\ reqs \in 0 .. MaxReq
Types == SvTypes /\ ClTypes /\ ChTypes /\ SqTypes /\ BoxTypes /\ OtherTypes

\* Without a child that ran termHandler(): the key names a queue that is there, a
\* running server's queue is there, and is the one named once it serves.
Found == /\ ~prog.keyfile => key # 0 /\ sv.pc \notin {"trunc", "write"}
         /\ ~inherited => /\ key \notin {NULL, 0} => key \in DOMAIN sq
                          /\ sv.pc # "down" => sv.q \in DOMAIN sq
                          /\ sv.pc \in {"loop", "fork"} => key = sv.q

\* Ids and queues of those that are there.
Ids == /\ \A c \in Clients : Live(c) => cl[c].id \in 1 .. reqs
       /\ \A c, d \in Clients : Live(c) /\ Live(d) /\ cl[c].id = cl[d].id => c = d
       /\ \A r \in Pending : r.id \in 1 .. reqs /\ r.q \in 0 .. reqs
       /\ \A i \in 1 .. MaxReq : Running(i) => i \in 1 .. reqs /\ ch[i].q \in 0 .. reqs
                                               /\ ch[i].pid \in Clients

\* Whose queue it is.
Queues == /\ \A c, d \in Clients : qname[c] # NULL /\ qname[c] = qname[d] => c = d
          /\ \A c \in Clients : Live(c) => /\ cl[c].id \notin stale => cl[c].q = cl[c].id
                                           /\ IF Pmq THEN qname[c] = cl[c].q
                                                     ELSE cl[c].q = cl[c].id
          /\ ~Pmq => /\ \A r \in Pending : r.q = r.id
                     /\ \A i \in 1 .. MaxReq : Running(i) => ch[i].q = i

\* A request is in one place.
Places == \A g, h \in DOMAIN sq : \A i \in 1 .. Len(sq[g]), j \in 1 .. Len(sq[h]) :
             sq[g][i].id = sq[h][j].id => g = h /\ i = j
Once == /\ Places
        /\ sv.req # NULL => \A r \in Queued : r.id # sv.req.id
        /\ \A r \in Pending : \A i \in 1 .. MaxReq : Running(i) => r.id # i

\* What is on its way for a client is what it asked for, and it waits for it.
Asked == \A c \in Clients : Live(c) =>
    /\ \A r \in Pending : r.id = cl[c].id =>
         r.pid = c /\ r.file = cl[c].file /\ cl[c].pc = "recv"
    /\ \A i \in 1 .. MaxReq : Running(i) /\ i = cl[c].id => ch[i].pid = c /\ cl[c].pc = "recv"

\* POSIX: what is on its way for a pid is its present client's.
Owned == \A c \in Clients : Pmq /\ Live(c) /\ cl[c].id \notin stale =>
    /\ \A r \in Pending : r.pid = c => r.id = cl[c].id
    /\ \A i \in 1 .. MaxReq : Running(i) /\ ch[i].pid = c => i = cl[c].id

\* A client of whom WholeFile speaks.
Fine(c) == Live(c) /\ cl[c].id \notin badRead \cup stale

\* The n-th message of file f for request i.
Nth(i, n, f) == [type |-> IF f = NULL THEN "FAILURE" ELSE IF n = f + 1 THEN "END" ELSE "DATA",
                 id |-> i, n |-> n]
Within(n, f) == IF f = NULL THEN n <= 1 ELSE n <= f + 1
Pieces(i, n) == [m \in 1 .. n |-> [id |-> i, n |-> m]]

\* No child has sent anything for request i.
Waits(i) == \/ \E r \in Pending : r.id = i
            \/ ch[i].pc = "open"

\* Queue i holds the messages that client k of request i did not get yet, and its
\* child sends the next one.
Stream(i, k) ==
    i \in DOMAIN box =>
        /\ \A j \in 1 .. Len(box[i]) : /\ box[i][j] = Nth(i, Len(k.got) + j, k.file)
                                       /\ Within(Len(k.got) + j, k.file)
        /\ k.pc = "send" \/ Waits(i) => k.got = <<>> /\ box[i] = <<>>
        /\ ch[i].pc = "open" => ch[i].file = k.file /\ ch[i].n = 0
        /\ ch[i].pc = "send" => /\ ch[i].q = i /\ ch[i].file = k.file
                                /\ ch[i].n = Len(k.got) + Len(box[i])
                                /\ Within(ch[i].n + 1, k.file)

\* The client has the first pieces of its file, the rest comes, and from nobody else.
Delivered(c) ==
    /\ cl[c].got = Pieces(cl[c].id, Len(cl[c].got))
    /\ IF cl[c].file = NULL THEN cl[c].got = <<>> ELSE Len(cl[c].got) <= cl[c].file
    /\ Stream(cl[c].id, cl[c])
    /\ \A j \in 1 .. MaxReq : ch[j].pc = "send" /\ ch[j].q = cl[c].id => j = cl[c].id

Delivery == \A c \in Clients : Fine(c) => Delivered(c)

IInv == Types /\ Found /\ Ids /\ Queues /\ Once /\ Asked /\ Owned /\ Delivery /\ WholeFile
-----------------------------------------------------------------------------
(* Queues that are made, removed, written and read.                        *)

\* A new queue of a server is empty: there is no new request.
LEMMA SqMade ==
    ASSUME SqTypes, Places, NEW q, sq' = With(sq, q)
    PROVE  SqTypes' /\ Places' /\ Queued' \subseteq Queued /\ DOMAIN sq' = DOMAIN sq \cup {q}
<1>1. /\ DOMAIN sq' = DOMAIN sq \cup {q} /\ sq'[q] = <<>>
      /\ \A g \in DOMAIN sq : g # q => sq'[g] = sq[g]
      /\ sq' = [g \in DOMAIN sq' |-> sq'[g]]
  BY DEF With
<1>2. <<>> \in Seq(Request) /\ Len(<<>>) = 0 /\ 1 .. 0 = {}
  OBVIOUS
<1>3. SqTypes'
  <2>1. 0 <= QCAP
    BY FileAssumption
  <2>2. \A g \in DOMAIN sq' : sq'[g] \in Seq(Request) /\ Len(sq'[g]) <= QCAP
    BY <1>1, <1>2, <2>1 DEF SqTypes
  <2> QED
    BY <1>1, <2>2 DEF SqTypes
<1>4. Places'
  BY <1>1, <1>2 DEF Places
<1>5. Queued' \subseteq Queued
  BY <1>1, <1>2 DEF Queued
<1> QED
  BY <1>1, <1>3, <1>4, <1>5

\* With a queue its requests go, msgctl(IPC_RMID).
LEMMA SqRemoved ==
    ASSUME SqTypes, Places, NEW q, sq' = Without(sq, q)
    PROVE  SqTypes' /\ Places' /\ Queued' \subseteq Queued /\ DOMAIN sq' = DOMAIN sq \ {q}
<1>1. /\ DOMAIN sq' = DOMAIN sq \ {q} /\ \A g \in DOMAIN sq' : sq'[g] = sq[g]
      /\ sq' = [g \in DOMAIN sq' |-> sq'[g]]
  BY DEF Without
<1>2. SqTypes'
  BY <1>1 DEF SqTypes
<1>3. Places'
  BY <1>1 DEF Places
<1>4. Queued' \subseteq Queued
  BY <1>1 DEF Queued
<1> QED
  BY <1>1, <1>2, <1>3, <1>4

\* The request that msgrcv() takes is in no queue any more.
LEMMA SqTaken ==
    ASSUME SqTypes, Places, NEW q \in DOMAIN sq, sq[q] # <<>>,
           sq' = [sq EXCEPT ![q] = Tail(sq[q])]
    PROVE  /\ SqTypes' /\ Places' /\ Queued' \subseteq Queued /\ DOMAIN sq' = DOMAIN sq
           /\ Head(sq[q]) \in Queued /\ Head(sq[q]) \in Request
           /\ \A r \in Queued' : r.id # Head(sq[q]).id
<1> DEFINE s == sq[q]
<1>1. s \in Seq(Request) /\ Len(s) \in Nat \ {0} /\ Len(s) <= QCAP
  BY EmptySeq DEF SqTypes
<1>2. /\ Tail(s) \in Seq(Request) /\ Len(Tail(s)) = Len(s) - 1 /\ Head(s) = s[1]
      /\ \A i \in 1 .. Len(Tail(s)) : Tail(s)[i] = s[i + 1]
  BY <1>1
<1>3. Head(s) \in Request /\ 1 \in 1 .. Len(s)
  BY <1>1
<1>4. /\ DOMAIN sq' = DOMAIN sq /\ sq'[q] = Tail(s)
      /\ \A g \in DOMAIN sq : g # q => sq'[g] = sq[g]
      /\ sq' = [g \in DOMAIN sq' |-> sq'[g]]
  BY DEF SqTypes
<1>5. SqTypes'
  BY <1>1, <1>2, <1>4, FileAssumption DEF SqTypes
<1>6. \A g \in DOMAIN sq : \A i \in 1 .. Len(sq'[g]) :
         \E k \in 1 .. Len(sq[g]) : /\ sq'[g][i] = sq[g][k]
                                    /\ k = IF g = q THEN i + 1 ELSE i
  <2> SUFFICES ASSUME NEW g \in DOMAIN sq, NEW i \in 1 .. Len(sq'[g])
               PROVE  \E k \in 1 .. Len(sq[g]) : /\ sq'[g][i] = sq[g][k]
                                                 /\ k = IF g = q THEN i + 1 ELSE i
    OBVIOUS
  <2>1. CASE g = q
    <3>1. i \in 1 .. Len(Tail(s)) /\ i + 1 \in 1 .. Len(sq[g]) /\ sq'[g][i] = sq[g][i + 1]
      BY <1>1, <1>2, <1>4, <2>1
    <3> QED
      BY <2>1, <3>1
  <2>2. CASE g # q
    BY <1>4, <2>2
  <2> QED
    BY <2>1, <2>2
<1> HIDE DEF s
<1>7. Places'
  <2> SUFFICES ASSUME NEW g \in DOMAIN sq, NEW h \in DOMAIN sq, NEW i \in 1 .. Len(sq'[g]),
                      NEW j \in 1 .. Len(sq'[h]), sq'[g][i].id = sq'[h][j].id
               PROVE  g = h /\ i = j
    BY <1>4 DEF Places
  <2>1. PICK k \in 1 .. Len(sq[g]) : sq'[g][i] = sq[g][k] /\ k = IF g = q THEN i + 1 ELSE i
    BY <1>6
  <2>2. PICK l \in 1 .. Len(sq[h]) : sq'[h][j] = sq[h][l] /\ l = IF h = q THEN j + 1 ELSE j
    BY <1>6
  <2>3. g = h /\ k = l
    BY <2>1, <2>2 DEF Places
  <2> QED
    BY <2>1, <2>2, <2>3
<1>8. Queued' \subseteq Queued /\ \A r \in Queued' : r.id # Head(s).id
  <2> SUFFICES ASSUME NEW r \in Queued' PROVE r \in Queued /\ r.id # Head(s).id
    OBVIOUS
  <2>0. PICK g \in DOMAIN sq : \E i \in 1 .. Len(sq'[g]) : r = sq'[g][i]
    BY <1>4 DEF Queued
  <2>1. PICK i \in 1 .. Len(sq'[g]) : r = sq'[g][i]
    BY <2>0
  <2>2. PICK k \in 1 .. Len(sq[g]) : r = sq[g][k] /\ k = IF g = q THEN i + 1 ELSE i
    BY <1>6, <2>1
  <2>3. r \in Queued
    BY <2>2 DEF Queued
  <2>4. k # 1 \/ g # q
    BY <2>1, <2>2
  <2>5. r.id # sq[q][1].id
    BY <1>3, <2>2, <2>4 DEF Places, s
  <2> QED
    BY <1>2, <2>3, <2>5 DEF s
<1>9. Head(s) \in Queued
  BY <1>2, <1>3 DEF Queued, s
<1> QED
  BY <1>3, <1>4, <1>5, <1>7, <1>8, <1>9 DEF s

\* A request with an id of its own is put at the end of a queue.
LEMMA SqWritten ==
    ASSUME SqTypes, Places, NEW q \in DOMAIN sq, Fits(sq[q]), NEW r \in Request,
           sq' = [sq EXCEPT ![q] = Append(sq[q], r)], \A x \in Queued : x.id # r.id
    PROVE  SqTypes' /\ Places' /\ Queued' = Queued \cup {r} /\ DOMAIN sq' = DOMAIN sq
<1> DEFINE s == sq[q]
           t == Append(s, r)
<1>1. s \in Seq(Request) /\ Len(s) \in Nat /\ Len(s) < QCAP
  BY DEF SqTypes, Fits
<1>2. /\ t \in Seq(Request) /\ Len(t) = Len(s) + 1 /\ t[Len(s) + 1] = r
      /\ \A i \in 1 .. Len(s) : t[i] = s[i]
  BY <1>1
<1>3. /\ DOMAIN sq' = DOMAIN sq /\ sq'[q] = t
      /\ \A g \in DOMAIN sq : g # q => sq'[g] = sq[g]
      /\ sq' = [g \in DOMAIN sq' |-> sq'[g]]
  BY DEF SqTypes
<1> HIDE DEF t
<1>4. SqTypes'
  BY <1>1, <1>2, <1>3, FileAssumption DEF SqTypes
<1>5. \A g \in DOMAIN sq : \A i \in 1 .. Len(sq'[g]) :
         \/ i \in 1 .. Len(sq[g]) /\ sq'[g][i] = sq[g][i]
         \/ g = q /\ i = Len(s) + 1 /\ sq'[g][i] = r
  BY <1>1, <1>2, <1>3
<1>6. \A g \in DOMAIN sq : \A i \in 1 .. Len(sq[g]) : sq[g][i].id # r.id
  BY DEF Queued
<1>7. Places'
  <2> SUFFICES ASSUME NEW g \in DOMAIN sq, NEW h \in DOMAIN sq, NEW i \in 1 .. Len(sq'[g]),
                      NEW j \in 1 .. Len(sq'[h]), sq'[g][i].id = sq'[h][j].id
               PROVE  g = h /\ i = j
    BY <1>3 DEF Places
  <2> HIDE DEF s
  <2> QED
    BY <1>5, <1>6 DEF Places
<1>8. Queued' \subseteq Queued \cup {r}
  BY <1>3, <1>5 DEF Queued
<1>9. Queued \cup {r} \subseteq Queued'
  <2>1. \A g \in DOMAIN sq : \A i \in 1 .. Len(sq[g]) :
           i \in 1 .. Len(sq'[g]) /\ sq'[g][i] = sq[g][i]
    BY <1>1, <1>2, <1>3
  <2>2. Len(s) + 1 \in 1 .. Len(sq'[q]) /\ sq'[q][Len(s) + 1] = r
    BY <1>1, <1>2, <1>3
  <2>3. Queued \subseteq Queued'
    BY <1>3, <2>1 DEF Queued
  <2>4. r \in Queued'
    BY <1>3, <2>2 DEF Queued
  <2> QED
    BY <2>3, <2>4
<1> QED
  BY <1>3, <1>4, <1>7, <1>8, <1>9
-----------------------------------------------------------------------------
(* What a client gets.                                                     *)

\* What is under way to a client is as it was when its queue and the child that
\* works for it are, or the child or the queue is gone.
LEMMA DeliveredKept ==
    ASSUME NEW c \in Clients, Delivered(c), cl'[c] = cl[c], NEW i, i = cl[c].id,
           i \in DOMAIN box' => /\ i \in DOMAIN box /\ box'[i] = box[i]
                                /\ \/ ch'[i].pc = "none"
                                   \/ /\ ch'[i].pc = ch[i].pc /\ ch'[i].q = ch[i].q
                                      /\ ch'[i].file = ch[i].file /\ ch'[i].n = ch[i].n,
           \A r \in Pending' : r.id = i => r \in Pending,
           \A j \in 1 .. MaxReq : ch'[j].pc = "send" /\ ch'[j].q = i => j = i
    PROVE  Delivered(c)'
<1>1. Stream(i, cl[c])
  BY DEF Delivered
<1>2. i \in DOMAIN box' /\ Waits(i)' => Waits(i)
  BY DEF Waits
<1>3. Stream(i, cl[c])'
  <2>1. CASE i \notin DOMAIN box'
    BY <2>1 DEF Stream
  <2>2. CASE /\ i \in DOMAIN box' /\ ch'[i].pc = ch[i].pc /\ ch'[i].q = ch[i].q
             /\ ch'[i].file = ch[i].file /\ ch'[i].n = ch[i].n
    BY <1>1, <1>2, <2>2 DEF Stream
  <2>3. CASE i \in DOMAIN box' /\ ch'[i].pc = "none"
    BY <1>1, <1>2, <2>3 DEF Stream
  <2> QED
    BY <2>1, <2>2, <2>3
<1> QED
  BY <1>3 DEF Delivered, Pieces
-----------------------------------------------------------------------------
(* The server, step by step.                                               *)

\* What the invariant says of the server and of the queues it reads.
LEMMA Kept ==
    ASSUME IInv
    PROVE  /\ sv \in Server /\ sv.pc \in {"down", "trunc", "write", "loop", "fork"}
           /\ sv.q \in Nat /\ sv.req \in Request \cup {NULL} /\ (sv.pc = "fork" <=> sv.req # NULL)
           /\ SqTypes /\ Places /\ Found /\ Once /\ key \in Nat \cup {NULL} /\ servers \in Nat
           /\ reqs \in 0 .. MaxReq /\ reqs \in Nat /\ NULL \notin Nat /\ NULL \notin Request
           /\ MaxReq \in Nat
  BY FileAssumption DEF IInv, Types, SvTypes, OtherTypes, Once, Server, Request

\* What a pair of programs cannot be.
LEMMA Pairs ==
    ASSUME IInv
    PROVE  (Pmq => ~prog.keyfile /\ ~prog.handled) /\ (prog.timeout => ~Pmq)
<1>1. prog \in AllPrograms
  BY ProgramsAssumption DEF IInv, Types, OtherTypes
<1> QED
  BY <1>1 DEF AllPrograms, Pair, Pmq, svmsg_file_server, svmsg_file_server_mod_a,
     svmsg_file_server_mod_b, svmsg_file_server_mod_c, svmsg_file_server_mod_d,
     svmsg_file_server_mod_e, svmsg_file_client_mod_5, pmq_file_server

\* Steps of the server that start no child.
LEMMA ServerFrame ==
    ASSUME IInv, UNCHANGED <<prog, reqs, qname, cl, ch, stale, badRead, box, done>>,
           Pending' \subseteq Pending, SvTypes', SqTypes', key' \in Nat \cup {NULL},
           servers' \in Nat, Found', Once'
    PROVE  IInv'
<1>1. Types'
  BY DEF IInv, Types, ClTypes, ChTypes, BoxTypes, OtherTypes
<1>2. /\ \A c \in Clients : Live(c)' = Live(c) /\ Fine(c)' = Fine(c)
      /\ \A i \in 1 .. MaxReq : Running(i)' = Running(i)
      /\ Pmq' = Pmq
  BY DEF Live, Fine, Running, Pmq
<1>3. Ids'
  BY <1>2 DEF IInv, Ids
<1>4. Queues'
  BY <1>2 DEF IInv, Queues
<1>5. Asked'
  BY <1>2 DEF IInv, Asked
<1>6. Owned'
  BY <1>2 DEF IInv, Owned
<1>7. Delivery'
  BY <1>2, DeliveredKept DEF IInv, Delivery, Delivered
<1>8. WholeFile'
  BY DEF IInv, WholeFile
<1> QED
  BY <1>1, <1>3, <1>4, <1>5, <1>6, <1>7, <1>8 DEF IInv

\* The server after the step.
Serving(l, q, r) == sv' \in Server /\ sv'.pc = l /\ sv'.q = q /\ sv'.req = r

\* The server goes to its next step.
LEMMA SetPc ==
    ASSUME sv \in Server, NEW l \in {"write", "loop"}, sv' = [sv EXCEPT !.pc = l]
    PROVE  Serving(l, sv.q, sv.req)
  BY DEF Server, Serving

\* The server goes to its next step with a request, or is rid of it.
LEMMA SetPcReq ==
    ASSUME sv \in Server, NEW l \in {"fork", "loop"}, NEW r \in Request \cup {NULL},
           sv' = [sv EXCEPT !.pc = l, !.req = r]
    PROVE  Serving(l, sv.q, r)
  BY DEF Server, Serving

\* The server ends.
LEMMA SetDown ==
    ASSUME sv' = Down
    PROVE  Serving("down", 0, NULL)
  BY DEF Server, Serving, Down

\* A server starts, with queue q.
LEMMA SetUp ==
    ASSUME NEW l \in {"trunc", "loop"}, NEW q \in Nat, sv' = [Down EXCEPT !.pc = l, !.q = q]
    PROVE  Serving(l, q, NULL)
<1>1. Down \in Server /\ Down.req = NULL
  BY DEF Server, Down
<1> QED
  BY <1>1 DEF Server, Serving

\* The server has no request after the step, and the queues no new one.
LEMMA OnceKept ==
    ASSUME IInv, UNCHANGED ch, NEW l, NEW q, NEW r \in {sv.req, NULL}, Serving(l, q, r), Places',
           Queued' \subseteq Queued, l = "fork" <=> r # NULL
    PROVE  Once' /\ Pending' \subseteq Pending /\ SvTypes'
<1>1. Pending' \subseteq Pending
  BY DEF Pending, Serving
<1>2. Once'
  BY <1>1 DEF IInv, Once, Running, Serving
<1>3. SvTypes'
  BY DEF SvTypes, Serving
<1> QED
  BY <1>1, <1>2, <1>3

\* A server that starts makes its queue or takes the POSIX queue that is there.
LEMMA StartStep == ASSUME IInv, ServerStart PROVE IInv'
<1>1. /\ UNCHANGED <<prog, reqs, qname, cl, ch, stale, badRead, box, done, inherited>>
      /\ sv.pc = "down" /\ servers' = servers + 1
  BY DEF ServerStart, history
<1>2. servers' \in Nat /\ servers' # NULL /\ servers' # 0 /\ sv.req = NULL
  BY <1>1, Kept
<1>3. CASE /\ sq' = With(sq, servers') /\ key' = servers'
           /\ sv' = [Down EXCEPT !.pc = "loop", !.q = servers']
  <2>1. Serving("loop", servers', NULL)
    BY <1>2, <1>3, SetUp
  <2>2. SqTypes' /\ Places' /\ Queued' \subseteq Queued /\ DOMAIN sq' = DOMAIN sq \cup {servers'}
    BY <1>3, Kept, SqMade
  <2>3. Once' /\ Pending' \subseteq Pending /\ SvTypes'
    BY <1>1, <1>2, <2>1, <2>2, OnceKept
  <2>4. Found'
    BY <1>1, <1>2, <1>3, <2>1, <2>2 DEF Found, Serving
  <2> QED
    BY <1>1, <1>2, <1>3, <2>2, <2>3, <2>4, ServerFrame
<1>4. CASE /\ Pmq /\ key # NULL /\ sv' = [Down EXCEPT !.pc = "loop", !.q = key]
           /\ UNCHANGED <<sq, key>>
  <2>1. Serving("loop", key, NULL) /\ key \in Nat
    BY <1>4, Kept, SetUp
  <2>2. SqTypes' /\ Places' /\ Queued' \subseteq Queued
    BY <1>4, Kept DEF SqTypes, Places, Queued
  <2>3. Once' /\ Pending' \subseteq Pending /\ SvTypes'
    BY <1>1, <1>2, <2>1, <2>2, OnceKept
  <2>4. Found'
    BY <1>1, <1>4, <2>1, Kept, Pairs DEF Found, Serving
  <2> QED
    BY <1>1, <1>2, <1>4, <2>1, <2>2, <2>3, <2>4, ServerFrame
<1>5. CASE /\ prog.keyfile /\ sq' = With(sq, servers') /\ UNCHANGED key
           /\ sv' = [Down EXCEPT !.pc = "trunc", !.q = servers']
  <2>1. Serving("trunc", servers', NULL)
    BY <1>2, <1>5, SetUp
  <2>2. SqTypes' /\ Places' /\ Queued' \subseteq Queued /\ DOMAIN sq' = DOMAIN sq \cup {servers'}
    BY <1>5, Kept, SqMade
  <2>3. Once' /\ Pending' \subseteq Pending /\ SvTypes'
    BY <1>1, <1>2, <2>1, <2>2, OnceKept
  <2>4. Found'
    BY <1>1, <1>5, <2>1, <2>2, Kept DEF Found, Serving
  <2> QED
    BY <1>1, <1>2, <1>5, <2>2, <2>3, <2>4, Kept, ServerFrame
<1> QED
  BY <1>3, <1>4, <1>5 DEF ServerStart

\* The key file is empty between open() and write(), and names the queue after.
LEMMA KeyStep == ASSUME IInv, KeyOpen \/ KeyWrite PROVE IInv'
<1>1. /\ UNCHANGED <<prog, reqs, qname, cl, ch, stale, badRead, box, done, inherited, sq, servers>>
      /\ sv.pc \in {"trunc", "write"}
  BY DEF KeyOpen, KeyWrite, world, history
<1>2. SqTypes' /\ Places' /\ Queued' \subseteq Queued /\ sv.req = NULL
  BY <1>1, Kept DEF SqTypes, Places, Queued
<1>3. CASE KeyOpen
  <2>1. Serving("write", sv.q, NULL) /\ key' = 0
    BY <1>2, <1>3, Kept, SetPc DEF KeyOpen
  <2>2. Once' /\ Pending' \subseteq Pending /\ SvTypes'
    BY <1>1, <1>2, <2>1, OnceKept
  <2>3. Found'
    BY <1>1, <2>1, Kept DEF Found, Serving
  <2> QED
    BY <1>1, <1>2, <2>1, <2>2, <2>3, Kept, ServerFrame
<1>4. CASE KeyWrite
  <2>1. Serving("loop", sv.q, NULL) /\ key' = sv.q
    BY <1>2, <1>4, Kept, SetPc DEF KeyWrite
  <2>2. Once' /\ Pending' \subseteq Pending /\ SvTypes'
    BY <1>1, <1>2, <2>1, OnceKept
  <2>3. Found'
    BY <1>1, <2>1, Kept DEF Found, Serving
  <2> QED
    BY <1>1, <1>2, <2>1, <2>2, <2>3, Kept, ServerFrame
<1> QED
  BY <1>3, <1>4

\* The server ends and removes its queue, or ends and leaves it.
LEMMA ExitStep ==
    ASSUME IInv, UNCHANGED <<prog, reqs, qname, cl, ch, stale, badRead, box, done, inherited, servers>>,
           ServerExit \/ (sv' = Down /\ UNCHANGED <<key, sq>>)
    PROVE  IInv'
<1>1. Serving("down", 0, NULL)
  BY SetDown DEF ServerExit
<1>2. SqTypes' /\ Places' /\ Queued' \subseteq Queued /\ key' \in Nat \cup {NULL}
  <2>1. CASE ServerExit
    BY <2>1, Kept, SqRemoved DEF ServerExit, removeServerQueue
  <2>2. CASE UNCHANGED <<key, sq>>
    BY <2>2, Kept DEF SqTypes, Places, Queued
  <2> QED
    BY <2>1, <2>2
<1>3. Once' /\ Pending' \subseteq Pending /\ SvTypes'
  BY <1>1, <1>2, OnceKept
<1>4. Found'
  BY <1>1, Kept DEF Found, Serving, ServerExit, removeServerQueue
<1> QED
  BY <1>2, <1>3, <1>4, Kept, ServerFrame

\* The three ways a server ends keep the invariant.
LEMMA EndStep == ASSUME IInv, ServerForkFails \/ termHandler \/ ServerKilled PROVE IInv'
  BY ExitStep DEF ServerForkFails, termHandler, ServerKilled, world, history

\* msgrcv() moves a request from the queue to the server, or ends the server.
LEMMA ReceiveStep == ASSUME IInv, ServerReceive PROVE IInv'
<1>1. /\ UNCHANGED <<prog, reqs, qname, cl, ch, stale, badRead, box, done, inherited, servers>>
      /\ sv.pc = "loop" /\ sv.req = NULL
  BY Kept DEF ServerReceive, world, history
<1>2. CASE ServerExit
  BY <1>1, <1>2, ExitStep
<1>3. CASE /\ sv.q \in DOMAIN sq /\ sq[sv.q] # <<>>
           /\ sv' = [sv EXCEPT !.pc = "fork", !.req = Head(sq[sv.q])]
           /\ sq' = [sq EXCEPT ![sv.q] = Tail(@)]
           /\ UNCHANGED key
  <2> DEFINE r == Head(sq[sv.q])
  <2>1. sq' = [sq EXCEPT ![sv.q] = Tail(sq[sv.q])]
    BY <1>3
  <2>2. /\ SqTypes' /\ Places' /\ Queued' \subseteq Queued /\ DOMAIN sq' = DOMAIN sq
        /\ r \in Queued /\ r \in Request /\ \A x \in Queued' : x.id # r.id
    BY <1>3, <2>1, Kept, SqTaken
  <2> HIDE DEF r
  <2>3. Serving("fork", sv.q, r)
    BY <1>3, <2>2, Kept, SetPcReq DEF r
  <2>4. Pending' \subseteq Pending
    BY <2>2, <2>3 DEF Pending, Serving
  <2>5. Once' /\ SvTypes'
    BY <1>1, <2>2, <2>3, <2>4, Kept DEF Once, SvTypes, Serving, Running
  <2>6. Found'
    BY <1>1, <1>3, <2>2, <2>3, Kept DEF Found, Serving
  <2> QED
    BY <1>1, <1>3, <2>2, <2>4, <2>5, <2>6, Kept, ServerFrame
<1> QED
  BY <1>2, <1>3 DEF ServerReceive
-----------------------------------------------------------------------------
(* The children, step by step.                                             *)

\* Without one client's queue the others are as they were.
LEMMA BoxRemoved ==
    ASSUME BoxTypes, NEW q, box' = Without(box, q)
    PROVE  BoxTypes' /\ DOMAIN box' = DOMAIN box \ {q} /\ \A x \in DOMAIN box' : box'[x] = box[x]
<1>1. /\ DOMAIN box' = DOMAIN box \ {q} /\ \A g \in DOMAIN box' : box'[g] = box[g]
      /\ box' = [g \in DOMAIN box' |-> box'[g]]
  BY DEF Without
<1> QED
  BY <1>1 DEF BoxTypes

\* A new client's queue is empty and the others are as they were.
LEMMA BoxMade ==
    ASSUME BoxTypes, NEW q, box' = With(box, q)
    PROVE  /\ BoxTypes' /\ DOMAIN box' = DOMAIN box \cup {q} /\ box'[q] = <<>>
           /\ \A x \in DOMAIN box : x # q => box'[x] = box[x]
<1>1. /\ DOMAIN box' = DOMAIN box \cup {q} /\ box'[q] = <<>>
      /\ \A g \in DOMAIN box : g # q => box'[g] = box[g]
      /\ box' = [g \in DOMAIN box' |-> box'[g]]
  BY DEF With
<1>2. <<>> \in Seq(Packet) /\ Len(<<>>) = 0 /\ 0 <= QCAP
  BY FileAssumption
<1>3. \A g \in DOMAIN box' : box'[g] \in Seq(Packet) /\ Len(box'[g]) <= QCAP
  BY <1>1, <1>2 DEF BoxTypes
<1> QED
  BY <1>1, <1>3 DEF BoxTypes

\* Of a queue that is read the first message goes and the others move up.
LEMMA BoxTaken ==
    ASSUME BoxTypes, NEW q \in DOMAIN box, box[q] # <<>>, box' = [box EXCEPT ![q] = Tail(box[q])]
    PROVE  /\ BoxTypes' /\ DOMAIN box' = DOMAIN box
           /\ \A x \in DOMAIN box : x # q => box'[x] = box[x]
           /\ Head(box[q]) = box[q][1] /\ Head(box[q]) \in Packet /\ Len(box[q]) \in Nat \ {0}
           /\ Len(box'[q]) = Len(box[q]) - 1
           /\ \A j \in 1 .. Len(box'[q]) : box'[q][j] = box[q][j + 1]
<1>1. box[q] \in Seq(Packet) /\ Len(box[q]) \in Nat \ {0} /\ Len(box[q]) <= QCAP
  BY EmptySeq DEF BoxTypes
<1>2. /\ Tail(box[q]) \in Seq(Packet) /\ Len(Tail(box[q])) = Len(box[q]) - 1
      /\ Head(box[q]) = box[q][1] /\ Head(box[q]) \in Packet
      /\ \A j \in 1 .. Len(Tail(box[q])) : Tail(box[q])[j] = box[q][j + 1]
  BY <1>1
<1>3. /\ DOMAIN box' = DOMAIN box /\ box'[q] = Tail(box[q])
      /\ \A g \in DOMAIN box : g # q => box'[g] = box[g]
      /\ box' = [g \in DOMAIN box' |-> box'[g]]
  BY DEF BoxTypes
<1>4. BoxTypes'
  BY <1>1, <1>2, <1>3, FileAssumption DEF BoxTypes
<1> QED
  BY <1>1, <1>2, <1>3, <1>4

\* A queue that is written has its messages and one more at the end.
LEMMA BoxWritten ==
    ASSUME BoxTypes, NEW q \in DOMAIN box, Fits(box[q]), NEW m \in Packet,
           box' = [box EXCEPT ![q] = Append(box[q], m)]
    PROVE  /\ BoxTypes' /\ DOMAIN box' = DOMAIN box
           /\ \A x \in DOMAIN box : x # q => box'[x] = box[x]
           /\ Len(box[q]) \in Nat /\ Len(box'[q]) = Len(box[q]) + 1 /\ box'[q][Len(box[q]) + 1] = m
           /\ \A j \in 1 .. Len(box[q]) : box'[q][j] = box[q][j]
<1>1. box[q] \in Seq(Packet) /\ Len(box[q]) \in Nat /\ Len(box[q]) < QCAP
  BY DEF BoxTypes, Fits
<1> DEFINE t == Append(box[q], m)
<1>2. /\ t \in Seq(Packet) /\ Len(t) = Len(box[q]) + 1 /\ t[Len(box[q]) + 1] = m
      /\ \A j \in 1 .. Len(box[q]) : t[j] = box[q][j]
  BY <1>1
<1>3. /\ DOMAIN box' = DOMAIN box /\ box'[q] = t
      /\ \A g \in DOMAIN box : g # q => box'[g] = box[g]
      /\ box' = [g \in DOMAIN box' |-> box'[g]]
  BY DEF BoxTypes
<1> HIDE DEF t
<1>4. BoxTypes'
  BY <1>1, <1>2, <1>3, FileAssumption DEF BoxTypes
<1> QED
  BY <1>1, <1>2, <1>3, <1>4

\* Only child i changes.
Only(i) == /\ ch' \in [1 .. MaxReq -> Child]
           /\ \A j \in 1 .. MaxReq : j # i => ch'[j] = ch[j]

\* A child moves on, ends or is started for a request.
LEMMA ChildFrame ==
    ASSUME IInv, UNCHANGED <<prog, reqs, qname, cl, stale, done>>, badRead \subseteq badRead',
           Pending' \subseteq Pending, SvTypes', SqTypes', BoxTypes', key' \in Nat \cup {NULL},
           servers' \in Nat, Found', Once', NEW i \in 1 .. MaxReq, Only(i),
           \/ ch'[i].pc = "none"
           \/ /\ Running(i) /\ ch'[i].pid = ch[i].pid /\ ch'[i].q \in 0 .. reqs
              /\ ~Pmq => ch'[i].q = ch[i].q
           \/ \E r \in Pending : /\ r.id = i /\ r.pid \in Clients
                                 /\ ch'[i].pid = r.pid /\ ch'[i].q = r.q,
           \A c \in Clients : Fine(c)' => Delivered(c)'
    PROVE  IInv'
<1>1. Types'
  BY DEF IInv, Types, ClTypes, ChTypes, Only, OtherTypes
<1>2. /\ \A c \in Clients : Live(c)' = Live(c)
      /\ \A j \in 1 .. MaxReq : j # i => Running(j)' = Running(j) /\ ch'[j] = ch[j]
      /\ Pmq' = Pmq
  BY DEF Live, Running, Pmq, Only
<1>3. ASSUME Running(i)'
      PROVE  /\ i \in 1 .. reqs /\ ch'[i].q \in 0 .. reqs /\ ch'[i].pid \in Clients
             /\ ~Pmq => ch'[i].q = i
             /\ \A c \in Clients : Live(c) /\ i = cl[c].id => ch'[i].pid = c /\ cl[c].pc = "recv"
             /\ \A c \in Clients : /\ Pmq /\ Live(c) /\ cl[c].id \notin stale /\ ch'[i].pid = c
                                   => i = cl[c].id
  <2>1. CASE /\ Running(i) /\ ch'[i].pid = ch[i].pid /\ ch'[i].q \in 0 .. reqs
             /\ ~Pmq => ch'[i].q = ch[i].q
    BY <2>1 DEF IInv, Ids, Queues, Asked, Owned
  <2>2. ASSUME NEW r \in Pending, r.id = i, r.pid \in Clients, ch'[i].pid = r.pid, ch'[i].q = r.q
        PROVE  /\ i \in 1 .. reqs /\ ch'[i].q \in 0 .. reqs /\ ch'[i].pid \in Clients
               /\ ~Pmq => ch'[i].q = i
               /\ \A c \in Clients : Live(c) /\ i = cl[c].id => ch'[i].pid = c /\ cl[c].pc = "recv"
               /\ \A c \in Clients : /\ Pmq /\ Live(c) /\ cl[c].id \notin stale /\ ch'[i].pid = c
                                     => i = cl[c].id
    BY <2>2 DEF IInv, Ids, Queues, Asked, Owned
  <2> QED
    BY <1>3, <2>1, <2>2 DEF Running
<1>4. Ids'
  BY <1>2, <1>3 DEF IInv, Ids
<1>5. Queues'
  BY <1>2, <1>3 DEF IInv, Queues
<1>6. Asked'
  BY <1>2, <1>3 DEF IInv, Asked
<1>7. Owned'
  BY <1>2, <1>3 DEF IInv, Owned
<1>8. WholeFile'
  BY DEF IInv, WholeFile
<1>9. Delivery'
  BY DEF Delivery
<1> QED
  BY <1>1, <1>4, <1>5, <1>6, <1>7, <1>8, <1>9 DEF IInv

\* A child and what is written of it.
LEMMA ChildSet ==
    ASSUME IInv, NEW i \in 1 .. MaxReq, NEW k \in Child, ch' = [ch EXCEPT ![i] = k]
    PROVE  Only(i) /\ ch'[i] = k
  BY DEF IInv, Types, ChTypes, Only

\* fork(): the request leaves the server and has a child, which has sent nothing.
LEMMA ForkStep == ASSUME IInv, ServerFork PROVE IInv'
<1> DEFINE r == sv.req
           i == sv.req.id
           k == [Ended EXCEPT !.pc = "open", !.q = r.q, !.pid = r.pid, !.file = r.file, !.g = sv.q]
<1>1. /\ UNCHANGED <<prog, reqs, qname, cl, stale, done, badRead, sq, box, key, servers, inherited>>
      /\ sv.pc = "fork" /\ ch' = [ch EXCEPT ![i] = k]
      /\ sv' = [sv EXCEPT !.pc = "loop", !.req = NULL]
  BY DEF ServerFork, world, history
<1>2. r \in Request /\ r # NULL /\ r \in Pending /\ i \in 1 .. MaxReq /\ r.pid \in Clients
  <2>1. r \in Request /\ r # NULL /\ r \in Pending
    BY <1>1, Kept DEF Pending
  <2> QED
    BY <2>1, Kept DEF IInv, Ids, Request
<1>3. /\ k \in Child /\ k.pc = "open" /\ k.pid = r.pid /\ k.q = r.q /\ k.file = r.file /\ k.n = 0
  <2>1. Ended \in Child /\ Ended.n = 0
    BY DEF Ended, Child
  <2>2. r.q \in Nat /\ r.file \in Nat \cup {NULL} /\ sv.q \in Nat
    BY <1>2, Kept, FileAssumption DEF Request
  <2> QED
    BY <1>2, <2>1, <2>2 DEF Child, Ended
<1> HIDE DEF k, r, i
<1>4. Only(i) /\ ch'[i] = k
  BY <1>1, <1>2, <1>3, ChildSet
<1>5. Serving("loop", sv.q, NULL)
  BY <1>1, Kept, SetPcReq
<1>6. SqTypes' /\ Places' /\ Queued' = Queued /\ BoxTypes'
  BY <1>1, Kept DEF SqTypes, Places, Queued, BoxTypes, IInv, Types
<1>7. Pending' \subseteq Pending /\ SvTypes' /\ Pending' = Queued
  BY <1>5, <1>6 DEF Pending, SvTypes, Serving
<1>8. \A x \in Queued : x.id # i
  BY <1>2, Kept DEF Once, r, i
<1>9. Once'
  BY <1>4, <1>5, <1>6, <1>7, <1>8, Kept DEF Once, Running, Serving, Only
<1>10. Found'
  BY <1>1, <1>5, Kept DEF Found, Serving
<1>11. ASSUME NEW c \in Clients, Fine(c)' PROVE Delivered(c)'
  <2>1. Fine(c) /\ Delivered(c) /\ cl'[c] = cl[c] /\ Live(c)
    BY <1>1, <1>11 DEF Fine, Live, IInv, Delivery
  <2>2. \A j \in 1 .. MaxReq : ch'[j].pc = "send" /\ ch'[j].q = cl[c].id => j = cl[c].id
    BY <1>3, <1>4, <2>1 DEF Only, Delivered
  <2>3. CASE cl[c].id # i
    <3>1. cl[c].id \in 1 .. MaxReq
      BY <2>1, Kept DEF IInv, Ids
    <3> QED
      BY <1>1, <1>4, <1>7, <2>1, <2>2, <2>3, <3>1, DeliveredKept DEF Only
  <2>4. ASSUME NEW x, x = i, x = cl[c].id PROVE Delivered(c)'
    <3>1. Waits(x)
      BY <1>2, <2>4 DEF Waits, i, r
    <3>2. Stream(x, cl[c])
      BY <2>1, <2>4 DEF Delivered
    <3>3. k.file = cl[c].file
      <4>1. \A y \in Pending : y.id = cl[c].id => y.file = cl[c].file
        BY <2>1 DEF IInv, Asked
      <4>2. r.id = cl[c].id
        BY <2>4 DEF i, r
      <4> QED
        BY <1>2, <1>3, <4>1, <4>2
    <3>4. ch'[x] = k
      BY <1>4, <2>4
    <3>5. Stream(x, cl[c])'
      BY <1>1, <1>3, <2>1, <3>1, <3>2, <3>3, <3>4 DEF Stream, Nth, Within
    <3> QED
      BY <2>1, <2>2, <2>4, <3>5 DEF Delivered, Pieces
  <2> QED
    BY <2>3, <2>4
<1> QED
  BY <1>1, <1>2, <1>3, <1>4, <1>6, <1>7, <1>9, <1>10, <1>11, Kept, ChildFrame DEF i, r

\* A child that goes on or ends brings no request back.
LEMMA OnceChild ==
    ASSUME IInv, UNCHANGED sv, Places', Queued' \subseteq Queued, NEW i \in 1 .. MaxReq, Only(i),
           Running(i)' => Running(i)
    PROVE  Once' /\ Pending' \subseteq Pending /\ SvTypes'
<1>1. Pending' \subseteq Pending
  BY DEF Pending
<1>2. \A j \in 1 .. MaxReq : Running(j)' => Running(j)
  BY DEF Only, Running
<1>3. Once'
  BY <1>1, <1>2, Kept DEF Once
<1>4. SvTypes'
  BY Kept DEF SvTypes
<1> QED
  BY <1>1, <1>3, <1>4

\* What the steps of children leave alone.
LEMMA Unread ==
    ASSUME IInv, UNCHANGED <<prog, sv, sq, key, inherited>>
    PROVE  SqTypes' /\ Places' /\ Queued' \subseteq Queued /\ Found'
  BY Kept DEF SqTypes, Places, Queued, Found

\* The types of the clients' queues, now and when they stay.
LEMMA BoxKept ==
    ASSUME IInv
    PROVE  BoxTypes /\ (UNCHANGED box => BoxTypes')
  BY DEF IInv, Types, BoxTypes

\* A client that was fine, and what the invariant says of it.
LEMMA FineClient ==
    ASSUME IInv, UNCHANGED <<cl, stale>>, badRead \subseteq badRead', NEW c \in Clients, Fine(c)'
    PROVE  /\ Fine(c) /\ Delivered(c) /\ cl'[c] = cl[c] /\ Live(c) /\ cl[c].id \notin stale
           /\ cl[c].id \in 1 .. MaxReq /\ cl[c].id \in 1 .. reqs /\ cl[c].q = cl[c].id
           /\ cl[c] \in Client
  BY Kept DEF Fine, Live, IInv, Delivery, Ids, Queues, Types, ClTypes

\* A child ends.
LEMMA ChildEnds ==
    ASSUME IInv, UNCHANGED <<prog, reqs, qname, cl, stale, done, badRead, sv, servers>>,
           NEW i \in 1 .. MaxReq, End(i), BoxTypes',
           \A q \in DOMAIN box' : q \in DOMAIN box /\ box'[q] = box[q],
           SqTypes', Places', Queued' \subseteq Queued, key' \in Nat \cup {NULL}, Found'
    PROVE  IInv'
<1>1. Only(i) /\ ch'[i] = Ended /\ ch'[i].pc = "none"
  <2>1. Ended \in Child /\ Ended.pc = "none"
    BY DEF Ended, Child
  <2> QED
    BY <2>1, ChildSet DEF End
<1>2. Once' /\ Pending' \subseteq Pending /\ SvTypes'
  BY <1>1, OnceChild DEF Running
<1>3. ASSUME NEW c \in Clients, Fine(c)' PROVE Delivered(c)'
  <2>1. Delivered(c) /\ cl'[c] = cl[c] /\ cl[c].id \in 1 .. MaxReq
    BY <1>3, FineClient
  <2>2. \A j \in 1 .. MaxReq : ch'[j].pc = "send" /\ ch'[j].q = cl[c].id => j = cl[c].id
    BY <1>1, <2>1 DEF Only, Delivered
  <2>3. ch'[cl[c].id] = ch[cl[c].id] \/ ch'[cl[c].id].pc = "none"
    BY <1>1, <2>1 DEF Only
  <2> QED
    BY <1>2, <2>1, <2>2, <2>3, DeliveredKept
<1> QED
  BY <1>1, <1>2, <1>3, Kept, ChildFrame

\* A signal ends a child, and its handler may take queue and key with it.
LEMMA SignalStep == ASSUME IInv, NEW i \in 1 .. MaxReq, ChildSignal(i) PROVE IInv'
<1>1. UNCHANGED <<prog, reqs, qname, cl, stale, done, badRead, sv, servers, box>> /\ End(i)
  BY DEF ChildSignal, world
<1>2. BoxTypes'
  BY <1>1, BoxKept
<1>3. SqTypes' /\ Places' /\ Queued' \subseteq Queued /\ key' \in Nat \cup {NULL} /\ Found'
  <2>1. CASE prog.handled
    <3>1. sq' = Without(sq, ch[i].g) /\ key' = NULL /\ inherited'
      BY <2>1 DEF ChildSignal, removeServerQueue
    <3>2. SqTypes' /\ Places' /\ Queued' \subseteq Queued
      BY <3>1, Kept, SqRemoved
    <3>3. Found'
      BY <1>1, <3>1, Kept DEF Found
    <3> QED
      BY <3>1, <3>2, <3>3
  <2>2. CASE ~prog.handled
    <3>1. UNCHANGED <<sq, key, inherited>>
      BY <2>2 DEF ChildSignal
    <3> QED
      BY <1>1, <3>1, Kept, Unread
  <2> QED
    BY <2>1, <2>2
<1> QED
  BY <1>1, <1>2, <1>3, ChildEnds

\* A child goes on with its request; the file it sends, what it sent and its
\* queue are in k.
LEMMA ChildGoes ==
    ASSUME IInv, UNCHANGED <<prog, reqs, qname, cl, stale, done, sv, servers, sq, key, inherited>>,
           badRead \subseteq badRead', BoxTypes', NEW i \in 1 .. MaxReq, Running(i),
           NEW k \in Child, k.pid = ch[i].pid, k.q \in 0 .. reqs, ~Pmq => k.q = ch[i].q,
           ch' = [ch EXCEPT ![i] = k],
           \A c \in Clients : Fine(c)' => Delivered(c)'
    PROVE  IInv'
<1>1. Only(i) /\ ch'[i] = k
  BY ChildSet
<1>2. SqTypes' /\ Places' /\ Queued' \subseteq Queued /\ Found'
  BY Unread
<1>3. Once' /\ Pending' \subseteq Pending /\ SvTypes'
  BY <1>1, <1>2, OnceChild
<1> QED
  BY <1>1, <1>2, <1>3, Kept, ChildFrame

\* The requests of those that have a child are not on their way any more.
LEMMA NotWaiting ==
    ASSUME IInv, UNCHANGED <<sq, sv>>, NEW i \in 1 .. MaxReq, Running(i)
    PROVE  Pending' = Pending /\ \A r \in Pending : r.id # i
  BY Kept DEF Once, Pending, Queued

\* A lost alarm changes nothing that is sent; a failed read() marks the request.
LEMMA SlowStep == ASSUME IInv, NEW i \in 1 .. MaxReq, ChildSlow(i) \/ ReadFails(i) PROVE IInv'
<1>1. /\ UNCHANGED <<prog, reqs, qname, cl, stale, done, sv, servers, sq, key, inherited, box>>
      /\ ch[i].pc = "send" /\ badRead \subseteq badRead' /\ badRead' \subseteq badRead \cup {i}
  BY DEF ChildSlow, ReadFails, world, history
<1>2. ch[i] \in Child /\ BoxTypes' /\ Running(i) /\ ch[i].q \in 0 .. reqs
  BY <1>1, BoxKept DEF IInv, Types, ChTypes, Ids, Running
<1>3. PICK k \in Child : /\ ch' = [ch EXCEPT ![i] = k] /\ k.pc = "send" /\ k.q = ch[i].q
                         /\ k.pid = ch[i].pid /\ k.n = ch[i].n
                         /\ i \notin badRead' => k.file = ch[i].file
  <2>1. CASE ChildSlow(i)
    <3> DEFINE k == [ch[i] EXCEPT !.slow = TRUE]
    <3>1. /\ k \in Child /\ k.pc = "send" /\ k.q = ch[i].q /\ k.pid = ch[i].pid
          /\ k.n = ch[i].n /\ k.file = ch[i].file
      BY <1>1, <1>2 DEF Child
    <3>2. ch' = [ch EXCEPT ![i] = k]
      BY <2>1 DEF ChildSlow
    <3> HIDE DEF k
    <3> QED
      BY <3>1, <3>2
  <2>2. CASE ReadFails(i)
    <3> DEFINE k == [ch[i] EXCEPT !.file = ch[i].n]
    <3>1. /\ k \in Child /\ k.pc = "send" /\ k.q = ch[i].q /\ k.pid = ch[i].pid /\ k.n = ch[i].n
      BY <1>1, <1>2 DEF Child
    <3>2. ch' = [ch EXCEPT ![i] = k] /\ i \in badRead'
      BY <2>2 DEF ReadFails
    <3> HIDE DEF k
    <3> QED
      BY <3>1, <3>2
  <2> QED
    BY <2>1, <2>2
<1>4. Only(i) /\ ch'[i] = k
  BY <1>3, ChildSet
<1>5. ASSUME NEW c \in Clients, Fine(c)' PROVE Delivered(c)'
  <2>1. Delivered(c) /\ cl'[c] = cl[c] /\ cl[c].id \in 1 .. MaxReq /\ cl'[c].id \notin badRead'
    BY <1>1, <1>5, FineClient DEF Fine
  <2>2. \A j \in 1 .. MaxReq : ch'[j].pc = "send" /\ ch'[j].q = cl[c].id => j = cl[c].id
    BY <1>1, <1>3, <1>4, <2>1 DEF Only, Delivered
  <2>3. Pending' = Pending
    BY <1>1, <1>2, NotWaiting
  <2>4. /\ ch'[cl[c].id].pc = ch[cl[c].id].pc /\ ch'[cl[c].id].q = ch[cl[c].id].q
        /\ ch'[cl[c].id].file = ch[cl[c].id].file /\ ch'[cl[c].id].n = ch[cl[c].id].n
    BY <1>1, <1>3, <1>4, <2>1 DEF Only
  <2> QED
    BY <1>1, <2>1, <2>2, <2>3, <2>4, DeliveredKept
<1> QED
  BY <1>1, <1>2, <1>3, <1>5, ChildGoes

\* A child opens its client's queue: for POSIX queues by pid, which is the right
\* one because no other request of that pid is there (Owned).
LEMMA OpenStep == ASSUME IInv, NEW i \in 1 .. MaxReq, ChildOpen(i) PROVE IInv'
<1>1. /\ UNCHANGED <<prog, reqs, qname, cl, stale, done, badRead, sv, servers, sq, key, inherited, box>>
      /\ ch[i].pc = "open"
  BY DEF ChildOpen, world, history
<1>2. /\ ch[i] \in Child /\ BoxTypes' /\ Running(i) /\ ch[i].q \in 0 .. reqs
      /\ ch[i].pid \in Clients
  BY <1>1, BoxKept DEF IInv, Types, ChTypes, Ids, Running
<1>3. CASE End(i)
  BY <1>1, <1>2, <1>3, Unread, Kept, ChildEnds
<1>4. CASE ~End(i)
  <2>1. PICK q \in 0 .. reqs : /\ ~Pmq => q = ch[i].q
                               /\ Pmq => q = qname[ch[i].pid]
                               /\ ch' = [ch EXCEPT ![i] = [ch[i] EXCEPT !.pc = "send", !.q = q]]
    <3>1. CASE Pmq
      <4>1. /\ qname[ch[i].pid] # NULL
            /\ ch' = [ch EXCEPT ![i].pc = "send", ![i].q = qname[ch[i].pid]]
        BY <1>4, <3>1 DEF ChildOpen
      <4>2. qname[ch[i].pid] \in 0 .. reqs
        BY <1>2, <4>1, Kept DEF IInv, Types, ClTypes
      <4> QED
        BY <3>1, <4>1, <4>2
    <3>2. CASE ~Pmq
      <4>1. ch' = [ch EXCEPT ![i] = [ch[i] EXCEPT !.pc = "send"]]
        BY <3>2 DEF ChildOpen
      <4>2. [ch[i] EXCEPT !.pc = "send"] = [ch[i] EXCEPT !.pc = "send", !.q = ch[i].q]
        BY <1>2 DEF Child
      <4> QED
        BY <1>2, <3>2, <4>1, <4>2
    <3> QED
      BY <3>1, <3>2
  <2> DEFINE k == [ch[i] EXCEPT !.pc = "send", !.q = q]
  <2>2. /\ k \in Child /\ k.pc = "send" /\ k.q = q /\ k.pid = ch[i].pid /\ k.n = ch[i].n
        /\ k.file = ch[i].file
    <3>1. q \in Nat
      BY Kept
    <3> QED
      BY <1>2, <3>1 DEF Child
  <2>3. ch' = [ch EXCEPT ![i] = k]
    BY <2>1
  <2> HIDE DEF k
  <2>4. Only(i) /\ ch'[i] = k
    BY <2>2, <2>3, ChildSet
  <2>5. Pending' = Pending /\ \A r \in Pending : r.id # i
    BY <1>1, <1>2, NotWaiting
  <2>6. ASSUME NEW c \in Clients, Fine(c)' PROVE Delivered(c)'
    <3>1. /\ Delivered(c) /\ cl'[c] = cl[c] /\ cl[c].id \in 1 .. MaxReq /\ Live(c)
          /\ cl[c].id \notin stale /\ cl[c].q = cl[c].id /\ cl[c] \in Client
      BY <1>1, <2>6, FineClient
    <3>2. Pmq => qname[c] = cl[c].id
      BY <3>1 DEF IInv, Queues
    <3>3. q = cl[c].id => i = cl[c].id
      <4>1. CASE Pmq
        <5>1. q = cl[c].id => ch[i].pid = c
          BY <1>2, <2>1, <3>2, <4>1, Kept DEF IInv, Queues
        <5> QED
          BY <1>2, <3>1, <4>1, <5>1 DEF IInv, Owned
      <4>2. CASE ~Pmq
        BY <1>2, <2>1, <4>2 DEF IInv, Queues
      <4> QED
        BY <4>1, <4>2
    <3>4. \A j \in 1 .. MaxReq : ch'[j].pc = "send" /\ ch'[j].q = cl[c].id => j = cl[c].id
      BY <2>2, <2>4, <3>1, <3>3 DEF Only, Delivered
    <3>5. CASE cl[c].id # i
      BY <1>1, <2>4, <2>5, <3>1, <3>4, <3>5, DeliveredKept DEF Only
    <3>6. CASE cl[c].id = i
      <4>1. q = i
        <5>1. ch[i].pid = c
          BY <1>2, <3>1, <3>6 DEF IInv, Asked
        <5>2. ~Pmq => ch[i].q = i
          BY <1>2 DEF IInv, Queues
        <5> QED
          BY <2>1, <3>2, <3>6, <5>1, <5>2
      <4>2. Stream(i, cl[c]) /\ cl[c].file \in Nat \cup {NULL}
        BY <3>1, <3>6 DEF Delivered, Client
      <4>3. Waits(i) /\ ~Waits(i)'
        BY <1>1, <2>2, <2>4, <2>5 DEF Waits
      <4>4. i \in DOMAIN box => /\ cl[c].got = <<>> /\ box[i] = <<>> /\ ch[i].n = 0
                                /\ ch[i].file = cl[c].file /\ Len(<<>>) = 0
        BY <1>1, <4>2, <4>3 DEF Stream
      <4>5. Within(1, cl[c].file)
        BY <4>2 DEF Within
      <4>6. Stream(i, cl[c])'
        BY <1>1, <2>2, <2>4, <3>1, <4>1, <4>3, <4>4, <4>5 DEF Stream
      <4> QED
        BY <3>1, <3>4, <3>6, <4>6 DEF Delivered, Pieces
    <3> QED
      BY <3>5, <3>6
  <2> QED
    BY <1>1, <1>2, <2>1, <2>2, <2>3, <2>6, ChildGoes
<1> QED
  BY <1>3, <1>4

\* What child i sends is a message, and the right one.
LEMMA MessageRight ==
    ASSUME NEW i \in Nat, ch[i] \in Child
    PROVE  /\ Message(i) \in Packet /\ Message(i) = Nth(i, ch[i].n + 1, ch[i].file)
           /\ Message(i).type = "DATA" => /\ ch[i].file \in Nat /\ ch[i].n # ch[i].file
<1>1. ch[i].n \in Nat /\ ch[i].file \in Nat \cup {NULL} /\ NULL \notin Nat
  BY FileAssumption DEF Child
<1>2. CASE ch[i].file = NULL
  BY <1>1, <1>2 DEF Message, Nth, Packet
<1>3. CASE ch[i].file \in Nat /\ ch[i].n = ch[i].file
  BY <1>1, <1>3 DEF Message, Nth, Packet
<1>4. CASE ch[i].file \in Nat /\ ch[i].n # ch[i].file
  BY <1>1, <1>4 DEF Message, Nth, Packet
<1> QED
  BY <1>1, <1>2, <1>3, <1>4

\* One message more.
LEMMA OneMore ==
    ASSUME NEW a \in Nat, NEW b \in Nat, NEW n, n = a + b
    PROVE  a + (b + 1) = n + 1 /\ n \in Nat
  OBVIOUS

\* A child sends the next message of its file, the last one and then ends, or
\* ends because the queue is gone.
LEMMA SendStep == ASSUME IInv, NEW i \in 1 .. MaxReq, serveRequest(i) PROVE IInv'
<1>1. /\ UNCHANGED <<prog, reqs, qname, cl, stale, done, badRead, sv, servers, sq, key, inherited>>
      /\ ch[i].pc = "send"
  BY DEF serveRequest, world, history
<1>2. ch[i] \in Child /\ Running(i) /\ ch[i].q \in 0 .. reqs /\ i \in Nat
  BY <1>1, Kept DEF IInv, Types, ChTypes, Ids, Running
<1>3. SqTypes' /\ Places' /\ Queued' \subseteq Queued /\ Found'
  BY <1>1, Unread
<1>4. CASE End(i) /\ UNCHANGED box
  BY <1>1, <1>3, <1>4, BoxKept, Kept, ChildEnds
<1>5. CASE /\ ch[i].q \in DOMAIN box /\ Fits(box[ch[i].q])
           /\ box' = [box EXCEPT ![ch[i].q] = Append(box[ch[i].q], Message(i))]
           /\ IF Message(i).type = "DATA"
              THEN ch' = [ch EXCEPT ![i].n = @ + 1, ![i].slow = FALSE]
              ELSE End(i)
  <2> DEFINE k == IF Message(i).type = "DATA"
                  THEN [ch[i] EXCEPT !.n = ch[i].n + 1, !.slow = FALSE] ELSE Ended
             q == ch[i].q
  <2>1. ch' = [ch EXCEPT ![i] = k]
    BY <1>5 DEF End
  <2>2. /\ k \in Child /\ k.pc \in {"none", "send"}
        /\ k.pc = "none" \/ (/\ Message(i).type = "DATA" /\ k.pid = ch[i].pid /\ k.q = ch[i].q
                             /\ k.file = ch[i].file /\ k.n = ch[i].n + 1 /\ k.pc = "send")
    <3>1. Ended \in Child /\ Ended.pc = "none"
      BY DEF Ended, Child
    <3>2. ch[i].n + 1 \in Nat
      BY <1>2 DEF Child
    <3> QED
      BY <1>1, <1>2, <3>1, <3>2 DEF Child
  <2> HIDE DEF k
  <2>3. Only(i) /\ ch'[i] = k
    BY <2>1, <2>2, ChildSet
  <2>4. /\ Message(i) \in Packet /\ Message(i) = Nth(i, ch[i].n + 1, ch[i].file)
        /\ Message(i).type = "DATA" => ch[i].file \in Nat /\ ch[i].n # ch[i].file
    BY <1>2, MessageRight
  <2>5. /\ BoxTypes' /\ DOMAIN box' = DOMAIN box
        /\ \A x \in DOMAIN box : x # q => box'[x] = box[x]
        /\ Len(box[q]) \in Nat /\ Len(box'[q]) = Len(box[q]) + 1
        /\ box'[q][Len(box[q]) + 1] = Message(i)
        /\ \A j \in 1 .. Len(box[q]) : box'[q][j] = box[q][j]
    BY <1>5, <2>4, BoxKept, BoxWritten
  <2>6. Pending' = Pending /\ \A r \in Pending : r.id # i
    BY <1>1, <1>2, NotWaiting
  <2>7. ASSUME NEW c \in Clients, Fine(c)' PROVE Delivered(c)'
    <3>1. /\ Delivered(c) /\ cl'[c] = cl[c] /\ cl[c].id \in 1 .. MaxReq /\ Live(c)
          /\ cl[c] \in Client
      BY <1>1, <2>7, FineClient
    <3>2. \A j \in 1 .. MaxReq : ch'[j].pc = "send" /\ ch'[j].q = cl[c].id => j = cl[c].id
      BY <1>1, <2>2, <2>3, <3>1 DEF Only, Delivered
    <3>3. q = cl[c].id => i = cl[c].id
      BY <1>1, <3>1 DEF Delivered
    <3>4. CASE cl[c].id # i
      BY <2>3, <2>5, <2>6, <3>1, <3>2, <3>3, <3>4, DeliveredKept DEF Only
    <3>5. CASE cl[c].id = i
      <4>1. Stream(i, cl[c])
        BY <3>1, <3>5 DEF Delivered
      <4>2. i \in DOMAIN box' => i = q
        BY <1>1, <2>5, <4>1 DEF Stream
      <4>3. ~Waits(i)' /\ cl[c].pc # "send"
        BY <1>2, <2>2, <2>3, <2>6, <3>1, <3>5 DEF Waits, IInv, Asked
      <4>4. Stream(i, cl[c])'
        <5> SUFFICES ASSUME i \in DOMAIN box, q = i PROVE Stream(i, cl[c])'
          BY <2>5, <4>2 DEF Stream
        <5>1. /\ \A j \in 1 .. Len(box[i]) : /\ box[i][j] = Nth(i, Len(cl[c].got) + j, cl[c].file)
                                             /\ Within(Len(cl[c].got) + j, cl[c].file)
              /\ ch[i].file = cl[c].file /\ ch[i].n = Len(cl[c].got) + Len(box[i])
              /\ Within(ch[i].n + 1, cl[c].file)
          BY <1>1, <4>1 DEF Stream
        <5>2. Len(cl[c].got) \in Nat /\ cl[c].file \in Nat \cup {NULL} /\ Len(box[i]) \in Nat
          BY <2>5, <3>1 DEF Client
        <5>6. ch[i].n = Len(cl[c].got) + Len(box[i]) /\ Len(box'[i]) = Len(box[i]) + 1
          BY <2>5, <5>1
        <5>7. Len(cl[c].got) + Len(box'[i]) = ch[i].n + 1
          <6>1. Len(cl[c].got) + (Len(box[i]) + 1) = ch[i].n + 1
            BY <5>2, <5>6, OneMore
          <6> QED
            BY <5>6, <6>1
        <5>3. \A j \in 1 .. Len(box'[i]) : /\ box'[i][j] = Nth(i, Len(cl[c].got) + j, cl[c].file)
                                           /\ Within(Len(cl[c].got) + j, cl[c].file)
          <6>1. Len(cl[c].got) + (Len(box[i]) + 1) = ch[i].n + 1
            BY <5>6, <5>7
          <6>2. \A j \in 1 .. Len(box'[i]) : j \in 1 .. Len(box[i]) \/ j = Len(box[i]) + 1
            BY <2>5, <5>2
          <6> QED
            BY <2>4, <2>5, <5>1, <6>1, <6>2
        <5>4. ch'[i].pc = "send" => /\ ch'[i].q = i /\ ch'[i].file = cl[c].file
                                    /\ ch'[i].n = Len(cl[c].got) + Len(box'[i])
                                    /\ Within(ch'[i].n + 1, cl[c].file)
          <6> SUFFICES ASSUME k.pc = "send"
                       PROVE  /\ k.q = i /\ k.file = cl[c].file
                              /\ k.n = Len(cl[c].got) + Len(box'[i])
                              /\ Within(k.n + 1, cl[c].file)
            BY <2>3
          <6>1. k.n = ch[i].n + 1 /\ k.file = ch[i].file /\ ch[i].n # ch[i].file /\ k.q = ch[i].q
            BY <2>2, <2>4
          <6>2. k.n = Len(cl[c].got) + Len(box'[i])
            BY <5>7, <6>1
          <6>3. Within(k.n + 1, cl[c].file)
            <7>1. cl[c].file # NULL /\ ch[i].n # cl[c].file /\ ch[i].n + 1 <= cl[c].file + 1
              BY <2>2, <2>4, <5>1, FileAssumption DEF Within
            <7>2. k.n + 1 <= cl[c].file + 1
              <8>1. ch[i].n \in Nat /\ cl[c].file \in Nat
                BY <5>2, <7>1, <1>2 DEF Child
              <8>2. \A a, b \in Nat : a # b /\ a + 1 <= b + 1 => (a + 1) + 1 <= b + 1
                OBVIOUS
              <8> QED
                BY <6>1, <7>1, <8>1, <8>2
            <7> QED
              BY <7>1, <7>2 DEF Within
          <6> QED
            BY <5>1, <6>1, <6>2, <6>3
        <5>5. ch'[i].pc # "open"
          BY <2>2, <2>3
        <5> QED
          BY <3>1, <4>3, <5>3, <5>4, <5>5 DEF Stream
      <4> QED
        BY <3>1, <3>2, <3>5, <4>4 DEF Delivered, Pieces
    <3> QED
      BY <3>4, <3>5
  <2>8. CASE k.pc = "send"
    BY <1>1, <1>2, <2>1, <2>2, <2>5, <2>7, <2>8, ChildGoes
  <2>9. CASE k.pc = "none"
    <3>1. Once' /\ Pending' \subseteq Pending /\ SvTypes'
      BY <1>1, <1>3, <2>3, <2>9, OnceChild DEF Running
    <3> QED
      BY <1>1, <1>3, <2>3, <2>5, <2>7, <2>9, <3>1, Kept, ChildFrame
  <2> QED
    BY <2>2, <2>8, <2>9
<1> QED
  BY <1>4, <1>5 DEF serveRequest

\* The timeout of mod_e removes the queue with what is in it.
LEMMA SafeStep == ASSUME IInv, NEW i \in 1 .. MaxReq, safeMsgsnd(i) PROVE IInv'
<1>1. /\ UNCHANGED <<prog, reqs, qname, cl, stale, done, badRead, sv, servers, sq, key, inherited>>
      /\ box' = Without(box, ch[i].q) /\ End(i)
  BY DEF safeMsgsnd, world, history
<1>2. SqTypes' /\ Places' /\ Queued' \subseteq Queued /\ Found'
  BY <1>1, Unread
<1>3. BoxTypes' /\ \A q \in DOMAIN box' : q \in DOMAIN box /\ box'[q] = box[q]
  BY <1>1, BoxKept, BoxRemoved
<1> QED
  BY <1>1, <1>2, <1>3, Kept, ChildEnds
-----------------------------------------------------------------------------
(* The clients, step by step.                                              *)

\* Two clients that are there have different ids and different queues.
LEMMA Different ==
    ASSUME IInv, NEW c \in Clients, NEW d \in Clients, c # d, Live(c), Fine(d)
    PROVE  cl[d].id # cl[c].id /\ cl[d].id # cl[c].q
<1>1. Live(d) /\ cl[d].id \notin stale
  BY DEF Fine
<1>2. cl[d].id # cl[c].id
  BY <1>1 DEF IInv, Ids
<1>3. CASE Pmq
  <2>1. qname[c] = cl[c].q /\ qname[d] = cl[d].id
    BY <1>1, <1>3 DEF IInv, Queues
  <2>2. qname[d] # NULL
    BY <1>1, <2>1, Kept DEF IInv, Ids
  <2> QED
    BY <1>2, <2>1, <2>2 DEF IInv, Queues
<1>4. CASE ~Pmq
  BY <1>1, <1>2, <1>4 DEF IInv, Queues
<1> QED
  BY <1>2, <1>3, <1>4

\* A client that is there goes on as k, or is gone; its request may have been
\* queued, and only its own queue changed.
LEMMA ClientFrame ==
    ASSUME IInv, UNCHANGED <<prog, sv, key, servers, inherited, ch, badRead, reqs, stale>>,
           NEW c \in Clients, Live(c), NEW k \in Client, cl' = [cl EXCEPT ![c] = k],
           \/ k.pc = "none"
           \/ /\ k.id = cl[c].id /\ k.q = cl[c].q /\ k.file = cl[c].file
              /\ k.pc = cl[c].pc \/ (k.pc = "recv" /\ qname' = qname),
           SqTypes', Once', DOMAIN sq' = DOMAIN sq,
           \A r \in Pending' : \/ r \in Pending
                               \/ /\ r.id = cl[c].id /\ r.pid = c /\ r.q = cl[c].q
                                  /\ r.file = cl[c].file /\ k.pc = "recv",
           BoxTypes', \A x \in DOMAIN box' : x # cl[c].q => x \in DOMAIN box /\ box'[x] = box[x],
           qname' = qname \/ (k.pc = "none" /\ qname' = [qname EXCEPT ![c] = NULL]),
           k.pc # "none" /\ Fine(c) => Delivered(c)', WholeFile'
    PROVE  IInv'
<1>1. /\ cl'[c] = k /\ \A d \in Clients : d # c => cl'[d] = cl[d]
      /\ cl' \in [Clients -> Client]
  BY DEF IInv, Types, ClTypes
<1>2. /\ Pmq' = Pmq /\ Live(c)' = (k.pc # "none")
      /\ \A d \in Clients : d # c => Live(d)' = Live(d)
      /\ \A i \in 1 .. MaxReq : Running(i)' = Running(i)
  BY <1>1 DEF Live, Running, Pmq
<1>3. /\ qname' \in [Clients -> 1 .. reqs \cup {NULL}]
      /\ \A d \in Clients : qname'[d] = qname[d] \/ (d = c /\ k.pc = "none" /\ qname'[d] = NULL)
  BY DEF IInv, Types, ClTypes
<1>4. Types'
  BY <1>1, <1>3 DEF IInv, Types, SvTypes, ClTypes, ChTypes, OtherTypes
<1>5. Found'
  BY DEF IInv, Found
<1>6. cl[c].id \in 1 .. reqs /\ cl[c].q \in 0 .. reqs /\ (~Pmq => cl[c].q = cl[c].id)
  <2>1. CASE Pmq
    BY <2>1, Kept DEF IInv, Ids, Queues, Types, ClTypes, Client
  <2>2. CASE ~Pmq
    BY <2>2, Kept DEF IInv, Ids, Queues
  <2> QED
    BY <2>1, <2>2
<1>13. \A d \in Clients : Live(d)' =>
          Live(d) /\ cl'[d].id = cl[d].id /\ cl'[d].q = cl[d].q /\ qname'[d] = qname[d]
  BY <1>1, <1>2, <1>3
<1>7. Ids'
  <2>1. \A r \in Pending' : r.id \in 1 .. reqs /\ r.q \in 0 .. reqs
    BY <1>6 DEF IInv, Ids
  <2> QED
    BY <1>2, <1>13, <2>1 DEF IInv, Ids
<1>8. Queues'
  <2>1. \A d, e \in Clients : qname'[d] # NULL /\ qname'[d] = qname'[e] => d = e
    BY <1>3 DEF IInv, Queues
  <2>2. ~Pmq => \A r \in Pending' : r.q = r.id
    BY <1>6 DEF IInv, Queues
  <2> QED
    BY <1>2, <1>13, <2>1, <2>2 DEF IInv, Queues
<1>9. Asked'
  BY <1>1, <1>2 DEF IInv, Asked, Ids, Live
<1>10. Owned'
  <2> SUFFICES ASSUME NEW d \in Clients, Pmq, Live(d)', cl'[d].id \notin stale
               PROVE  /\ \A r \in Pending' : r.pid = d => r.id = cl'[d].id
                      /\ \A i \in 1 .. MaxReq : Running(i)' /\ ch'[i].pid = d => i = cl'[d].id
    BY <1>2 DEF Owned
  <2>1. Live(d) /\ cl'[d].id = cl[d].id
    BY <1>13
  <2>2. /\ \A r \in Pending : r.pid = d => r.id = cl[d].id
        /\ \A i \in 1 .. MaxReq : Running(i) /\ ch[i].pid = d => i = cl[d].id
    BY <2>1 DEF IInv, Owned
  <2> QED
    BY <1>2, <2>1, <2>2
<1>11. ASSUME NEW d \in Clients, Fine(d)' PROVE Delivered(d)'
  <2>1. CASE d = c
    BY <1>1, <1>2, <1>11, <2>1 DEF Fine
  <2>2. CASE d # c
    <3>1. Fine(d) /\ Delivered(d) /\ cl'[d] = cl[d]
      BY <1>1, <1>2, <1>11, <2>2 DEF Fine, IInv, Delivery
    <3>2. cl[d].id # cl[c].id /\ cl[d].id # cl[c].q
      BY <2>2, <3>1, Different
    <3>3. \A j \in 1 .. MaxReq : ch'[j].pc = "send" /\ ch'[j].q = cl[d].id => j = cl[d].id
      BY <3>1 DEF Delivered
    <3> QED
      BY <3>1, <3>2, <3>3, DeliveredKept
  <2> QED
    BY <2>1, <2>2
<1>12. Delivery'
  BY <1>11 DEF Delivery
<1> QED
  BY <1>4, <1>5, <1>7, <1>8, <1>9, <1>10, <1>12 DEF IInv

\* Steps that leave the requests alone.
LEMMA NothingAsked ==
    ASSUME IInv, UNCHANGED <<sv, sq, ch>>
    PROVE  SqTypes' /\ Once' /\ Pending' = Pending /\ Queued' = Queued /\ Places'
<1>1. Queued' = Queued /\ Places' /\ SqTypes'
  BY Kept DEF Queued, Places, SqTypes
<1>2. Pending' = Pending
  BY <1>1 DEF Pending
<1> QED
  BY <1>1, <1>2, Kept DEF Once, Running

\* A client that ends.
LEMMA Leaves ==
    ASSUME IInv, UNCHANGED <<prog, sv, key, servers, inherited, ch, badRead, reqs, stale, sq>>,
           NEW c \in Clients, Live(c), WholeFile',
           Exit(c) \/ (cl' = [cl EXCEPT ![c] = Gone] /\ UNCHANGED <<qname, box>>)
    PROVE  IInv'
<1>1. Gone \in Client /\ Gone.pc = "none"
  BY DEF Gone, Client
<1>2. cl' = [cl EXCEPT ![c] = Gone]
  BY DEF Exit
<1>3. BoxTypes' /\ \A x \in DOMAIN box' : x # cl[c].q => x \in DOMAIN box /\ box'[x] = box[x]
  <2>1. CASE UNCHANGED box
    BY <2>1, BoxKept
  <2>2. CASE box' = Without(box, cl[c].q)
    BY <2>2, BoxKept, BoxRemoved
  <2> QED
    BY <2>1, <2>2 DEF Exit, removeQueue
<1>4. qname' = qname \/ qname' = [qname EXCEPT ![c] = NULL]
  BY DEF Exit, removeQueue
<1>5. SqTypes' /\ Once' /\ Pending' = Pending
  BY NothingAsked
<1> QED
  BY <1>1, <1>2, <1>3, <1>4, <1>5, ClientFrame

\* A client whose queue is gone, that gives up or is killed reports nothing.
LEMMA LeaveStep ==
    ASSUME IInv, NEW c \in Clients, ClientReceiveFails(c) \/ ClientTimeout(c) \/ ClientDies(c)
    PROVE  IInv'
<1>1. /\ UNCHANGED <<prog, sv, key, servers, inherited, ch, badRead, reqs, stale, sq, done>>
      /\ Live(c)
      /\ Exit(c) \/ (cl' = [cl EXCEPT ![c] = Gone] /\ UNCHANGED <<qname, box>>)
  BY DEF ClientReceiveFails, ClientTimeout, ClientDies, world, history, Live
<1>2. WholeFile'
  BY <1>1 DEF IInv, WholeFile
<1> QED
  BY <1>1, <1>2, Leaves

\* A client goes on and has what it had.
LEMMA GoesOn ==
    ASSUME IInv, UNCHANGED <<prog, sv, key, servers, inherited, ch, badRead, reqs, stale, sq, done,
                             box, qname>>,
           NEW c \in Clients, Live(c), NEW k \in Client, cl' = [cl EXCEPT ![c] = k],
           k.id = cl[c].id, k.q = cl[c].q, k.file = cl[c].file, k.got = cl[c].got,
           k.pc = cl[c].pc \/ k.pc = "recv"
    PROVE  IInv'
<1>1. SqTypes' /\ Once' /\ Pending' = Pending
  BY NothingAsked
<1>2. cl'[c] = k
  BY DEF IInv, Types, ClTypes
<1>3. ASSUME Fine(c) PROVE Delivered(c)'
  <2>1. Delivered(c)
    BY <1>3 DEF IInv, Delivery
  <2>2. \A x : Waits(x)' = Waits(x)
    BY <1>1 DEF Waits
  <2>3. Stream(k.id, k)'
    BY <2>1, <2>2 DEF Delivered, Stream
  <2> QED
    BY <1>2, <2>1, <2>3 DEF Delivered, Pieces
<1>4. WholeFile'
  BY DEF IInv, WholeFile
<1> QED
  BY <1>1, <1>3, <1>4, BoxKept, ClientFrame

\* A lost alarm changes nothing that a client has.
LEMMA ClientSlowStep == ASSUME IInv, NEW c \in Clients, ClientSlow(c) PROVE IInv'
<1>1. /\ UNCHANGED <<prog, sv, key, servers, inherited, ch, badRead, reqs, stale, sq, done, box, qname>>
      /\ Live(c) /\ cl' = [cl EXCEPT ![c] = [cl[c] EXCEPT !.slow = TRUE]]
  BY DEF ClientSlow, world, history, Live
<1> DEFINE k == [cl[c] EXCEPT !.slow = TRUE]
<1>2. cl[c] \in Client
  BY DEF IInv, Types, ClTypes
<1>3. /\ k \in Client /\ k.id = cl[c].id /\ k.q = cl[c].q /\ k.file = cl[c].file
      /\ k.got = cl[c].got /\ k.pc = cl[c].pc
  BY <1>2 DEF Client
<1> HIDE DEF k
<1> QED
  BY <1>1, <1>3, GoesOn DEF k

\* The request is the first and only one with its id.
LEMMA AskStep == ASSUME IInv, NEW c \in Clients, ClientSend(c) PROVE IInv'
<1>1. /\ UNCHANGED <<prog, sv, key, servers, inherited, ch, badRead, reqs, stale, done>>
      /\ Live(c) /\ cl[c].pc = "send"
  BY DEF ClientSend, world, history, Live
<1>2. cl[c] \in Client
  BY DEF IInv, Types, ClTypes
<1>3. CASE Exit(c) /\ UNCHANGED sq
  <2>1. WholeFile'
    BY <1>1 DEF IInv, WholeFile
  <2> QED
    BY <1>1, <1>3, <2>1, Leaves
<1>4. CASE cl' = [cl EXCEPT ![c].pc = "recv"] /\ UNCHANGED <<sq, qname, box>>
  <2> DEFINE k == [cl[c] EXCEPT !.pc = "recv"]
  <2>1. /\ k \in Client /\ k.id = cl[c].id /\ k.q = cl[c].q /\ k.file = cl[c].file
        /\ k.got = cl[c].got /\ k.pc = "recv"
    BY <1>2 DEF Client
  <2>2. cl' = [cl EXCEPT ![c] = k]
    BY <1>4
  <2> HIDE DEF k
  <2> QED
    BY <1>1, <1>4, <2>1, <2>2, GoesOn
<1>5. ASSUME NEW g, g \in DOMAIN sq, Fits(sq[g]),
             sq' = [sq EXCEPT ![g] = Append(@, [id |-> cl[c].id, pid |-> c, q |-> cl[c].q,
                                                file |-> cl[c].file])],
             cl' = [cl EXCEPT ![c].pc = "recv", ![c].slow = FALSE],
             UNCHANGED <<qname, box>>
      PROVE  IInv'
  <2>1. PICK k \in Client :
           /\ cl' = [cl EXCEPT ![c] = k] /\ k.id = cl[c].id /\ k.q = cl[c].q
           /\ k.file = cl[c].file /\ k.got = cl[c].got /\ k.pc = "recv"
    <3> DEFINE k == [cl[c] EXCEPT !.pc = "recv", !.slow = FALSE]
    <3>1. /\ k \in Client /\ k.id = cl[c].id /\ k.q = cl[c].q /\ k.file = cl[c].file
          /\ k.got = cl[c].got /\ k.pc = "recv"
      BY <1>2 DEF Client
    <3>2. cl' = [cl EXCEPT ![c] = k]
      BY <1>5
    <3> HIDE DEF k
    <3> QED
      BY <3>1, <3>2
  <2>2. PICK r \in Request :
           /\ sq' = [sq EXCEPT ![g] = Append(sq[g], r)]
           /\ r.id = cl[c].id /\ r.pid = c /\ r.q = cl[c].q /\ r.file = cl[c].file
    <3> DEFINE r == [id |-> cl[c].id, pid |-> c, q |-> cl[c].q, file |-> cl[c].file]
    <3>1. r \in Request /\ r.id = cl[c].id /\ r.pid = c /\ r.q = cl[c].q /\ r.file = cl[c].file
      BY <1>2 DEF Client, Request
    <3>2. sq' = [sq EXCEPT ![g] = Append(sq[g], r)]
      BY <1>5
    <3> HIDE DEF r
    <3> QED
      BY <3>1, <3>2
  <2>4. /\ \A x \in Pending : x.id # r.id
        /\ \A i \in 1 .. MaxReq : Running(i) => i # r.id
    BY <1>1, <2>2 DEF IInv, Asked
  <2>5. SqTypes' /\ Places' /\ Queued' = Queued \cup {r} /\ DOMAIN sq' = DOMAIN sq
    <3>1. \A x \in Queued : x.id # r.id
      BY <2>4 DEF Pending
    <3>2. SqTypes /\ Places
      BY Kept
    <3> QED
      BY <1>5, <2>2, <3>1, <3>2, SqWritten
  <2>6. Pending' = Pending \cup {r} /\ sv' = sv /\ r \notin Pending
    BY <1>1, <2>4, <2>5 DEF Pending
  <2>7. Once'
    <3>1. sv.req # NULL => sv.req \in Pending
      BY DEF Pending
    <3>2. sv.req # NULL => \A x \in Queued' : x.id # sv.req.id
      BY <2>4, <2>5, <3>1, Kept DEF Once
    <3>3. \A i \in 1 .. MaxReq : Running(i)' = Running(i)
      BY <1>1 DEF Running
    <3>4. \A x \in Pending' : \A i \in 1 .. MaxReq : Running(i) => x.id # i
      BY <2>4, <2>6, Kept DEF Once
    <3> QED
      BY <2>5, <2>6, <3>2, <3>3, <3>4 DEF Once
  <2>8. ASSUME Fine(c) PROVE Delivered(c)'
    <3>1. Delivered(c) /\ cl[c].id \in 1 .. MaxReq
      BY <1>1, <2>8, Kept DEF IInv, Delivery, Ids
    <3>2. ch[cl[c].id].pc = "none"
      BY <2>2, <2>4, <3>1 DEF Running
    <3>3. Stream(k.id, k)'
      <4>1. Stream(cl[c].id, cl[c])
        BY <3>1 DEF Delivered
      <4>2. cl[c].id \in DOMAIN box => cl[c].got = <<>> /\ box[cl[c].id] = <<>>
        BY <1>1, <4>1 DEF Stream
      <4> QED
        BY <1>1, <1>5, <2>1, <3>2, <4>1, <4>2 DEF Stream
    <3>4. cl'[c] = k
      BY <2>1 DEF IInv, Types, ClTypes
    <3> QED
      BY <1>1, <2>1, <3>1, <3>3, <3>4 DEF Delivered, Pieces
  <2>9. WholeFile'
    BY <1>1 DEF IInv, WholeFile
  <2> QED
    <3>1. \A x \in Pending' : \/ x \in Pending
                              \/ /\ x.id = cl[c].id /\ x.pid = c /\ x.q = cl[c].q
                                 /\ x.file = cl[c].file /\ k.pc = "recv"
      BY <2>1, <2>2, <2>6
    <3>2. qname' = qname /\ BoxTypes' /\ \A x \in DOMAIN box' : x \in DOMAIN box /\ box'[x] = box[x]
      BY <1>5, BoxKept
    <3> QED
      BY <1>1, <2>1, <2>5, <2>7, <2>8, <2>9, <3>1, <3>2, ClientFrame
<1> QED
  BY <1>3, <1>4, <1>5 DEF ClientSend

\* The first message of a client that is fine is the one it has to get.
LEMMA NextPiece ==
    ASSUME IInv, NEW c \in Clients, Fine(c), cl[c].q \in DOMAIN box, box[cl[c].q] # <<>>
    PROVE  /\ cl[c].q = cl[c].id
           /\ Head(box[cl[c].q]) = Nth(cl[c].id, Len(cl[c].got) + 1, cl[c].file)
           /\ Within(Len(cl[c].got) + 1, cl[c].file)
           /\ Len(cl[c].got) \in Nat /\ cl[c].file \in Nat \cup {NULL}
<1>1. cl[c].q = cl[c].id /\ Delivered(c)
  BY DEF Fine, IInv, Queues, Delivery
<1>2. box[cl[c].q] \in Seq(Packet) /\ Len(box[cl[c].q]) \in Nat \ {0}
  BY BoxKept, EmptySeq DEF BoxTypes
<1>3. Head(box[cl[c].q]) = box[cl[c].q][1] /\ 1 \in 1 .. Len(box[cl[c].q])
  BY <1>2
<1>4. Len(cl[c].got) \in Nat /\ cl[c].file \in Nat \cup {NULL}
  BY DEF IInv, Types, ClTypes, Client
<1> QED
  BY <1>1, <1>3, <1>4 DEF Delivered, Stream

\* The pieces of a file and the next one.
LEMMA PiecesGrow ==
    ASSUME NEW i, NEW n \in Nat, NEW s, s = Pieces(i, n)
    PROVE  Append(s, [id |-> i, n |-> n + 1]) = Pieces(i, n + 1) /\ Len(Pieces(i, n + 1)) = n + 1
  BY DEF Pieces

\* A message goes from the queue to the client.
LEMMA Shift == \A a \in Nat, b \in Nat \ {0} : a + b = (a + 1) + (b - 1)
  OBVIOUS

\* What a client gets is the next piece of its file; at the end message it has all.
LEMMA GetStep == ASSUME IInv, NEW c \in Clients, ClientReceive(c) PROVE IInv'
<1>1. /\ UNCHANGED <<prog, sv, key, servers, inherited, ch, badRead, reqs, stale, sq>>
      /\ Live(c) /\ cl[c].pc = "recv" /\ cl[c].q \in DOMAIN box /\ box[cl[c].q] # <<>>
  BY DEF ClientReceive, world, Live
<1>2. cl[c] \in Client
  BY DEF IInv, Types, ClTypes
<1>3. Fine(c) => /\ cl[c].q = cl[c].id
                 /\ Head(box[cl[c].q]) = Nth(cl[c].id, Len(cl[c].got) + 1, cl[c].file)
                 /\ Within(Len(cl[c].got) + 1, cl[c].file)
                 /\ Len(cl[c].got) \in Nat /\ cl[c].file \in Nat \cup {NULL}
  BY <1>1, NextPiece
<1>4. CASE Exit(c) /\ UNCHANGED done
  <2>1. WholeFile'
    BY <1>1, <1>4 DEF IInv, WholeFile
  <2> QED
    BY <1>1, <1>4, <2>1, Leaves
<1>5. ASSUME NEW m, m = Head(box[cl[c].q]),
             m.type = "END" \/ (m.type = "FAILURE" /\ cl[c].got # <<>>),
             done' = done \cup {[id |-> cl[c].id, file |-> cl[c].file, got |-> cl[c].got]},
             Exit(c)
      PROVE  IInv'
  <2>1. ASSUME cl[c].id \notin badRead \cup stale
        PROVE  /\ cl[c].file # NULL
               /\ cl[c].got = [n \in 1 .. cl[c].file |-> [id |-> cl[c].id, n |-> n]]
    <3>1. Fine(c) /\ Delivered(c)
      BY <1>1, <2>1 DEF Fine, IInv, Delivery
    <3>2. cl[c].file # NULL
      <4>1. cl[c].file = NULL => m.type = "FAILURE"
        BY <1>3, <1>5, <3>1 DEF Nth
      <4>2. cl[c].file = NULL => cl[c].got = <<>>
        BY <3>1 DEF Delivered
      <4> QED
        BY <1>5, <4>1, <4>2
    <3>3. Len(cl[c].got) = cl[c].file
      BY <1>3, <1>5, <3>1, <3>2 DEF Nth
    <3> QED
      BY <3>1, <3>2, <3>3 DEF Delivered, Pieces
  <2>2. WholeFile'
    <3> SUFFICES ASSUME NEW d \in done', d.id \notin badRead \cup stale
                 PROVE  d.file # NULL /\ d.got = [n \in 1 .. d.file |-> [id |-> d.id, n |-> n]]
      BY <1>1 DEF WholeFile
    <3>1. CASE d \in done
      BY <3>1 DEF IInv, WholeFile
    <3>2. CASE d = [id |-> cl[c].id, file |-> cl[c].file, got |-> cl[c].got]
      <4>1. d.id = cl[c].id /\ d.file = cl[c].file /\ d.got = cl[c].got
        BY <3>2
      <4> QED
        BY <2>1, <4>1
    <3> QED
      BY <1>5, <3>1, <3>2
  <2> QED
    BY <1>1, <1>5, <2>2, Leaves
<1>6. ASSUME NEW m, m = Head(box[cl[c].q]), m.type = "DATA",
             cl' = [cl EXCEPT ![c].got = Append(@, [id |-> m.id, n |-> m.n]), ![c].slow = FALSE],
             box' = [box EXCEPT ![cl[c].q] = Tail(@)], UNCHANGED <<qname, done>>
      PROVE  IInv'
  <2>1. /\ BoxTypes' /\ DOMAIN box' = DOMAIN box
        /\ \A x \in DOMAIN box : x # cl[c].q => box'[x] = box[x]
        /\ m \in Packet /\ Len(box[cl[c].q]) \in Nat \ {0}
        /\ Len(box'[cl[c].q]) = Len(box[cl[c].q]) - 1
        /\ \A j \in 1 .. Len(box'[cl[c].q]) : box'[cl[c].q][j] = box[cl[c].q][j + 1]
    <3>1. box' = [box EXCEPT ![cl[c].q] = Tail(box[cl[c].q])] /\ BoxTypes
      BY <1>6, BoxKept
    <3> QED
      BY <1>1, <1>6, <3>1, BoxTaken
  <2>2. PICK k \in Client :
           /\ cl' = [cl EXCEPT ![c] = k] /\ k.id = cl[c].id /\ k.q = cl[c].q
           /\ k.file = cl[c].file /\ k.pc = "recv"
           /\ k.got = Append(cl[c].got, [id |-> m.id, n |-> m.n])
    <3> DEFINE p == [id |-> m.id, n |-> m.n]
               k == [cl[c] EXCEPT !.got = Append(cl[c].got, p), !.slow = FALSE]
    <3>1. Append(cl[c].got, p) \in Seq(Piece)
      BY <1>2, <2>1 DEF Client, Packet, Piece
    <3>2. /\ k \in Client /\ k.id = cl[c].id /\ k.q = cl[c].q /\ k.file = cl[c].file
          /\ k.got = Append(cl[c].got, p) /\ k.pc = "recv"
      BY <1>1, <1>2, <3>1 DEF Client
    <3>3. cl' = [cl EXCEPT ![c] = k]
      BY <1>6
    <3> HIDE DEF k
    <3> QED
      BY <3>2, <3>3
  <2>3. SqTypes' /\ Once' /\ Pending' = Pending
    BY <1>1, NothingAsked
  <2>4. ASSUME Fine(c), NEW x, x = cl[c].id PROVE Delivered(c)'
    <3>1. Delivered(c) /\ x = cl[c].q /\ x \in DOMAIN box
      BY <1>1, <1>3, <2>4 DEF IInv, Delivery
    <3>2. PICK n \in Nat : n = Len(cl[c].got)
      BY <1>3, <2>4
    <3>3. m = Nth(x, n + 1, k.file) /\ Within(n + 1, k.file) /\ k.file \in Nat \cup {NULL}
      BY <1>3, <1>6, <2>2, <2>4, <3>2
    <3>4. k.file \in Nat /\ n + 1 # k.file + 1 /\ m.id = x /\ m.n = n + 1 /\ n + 1 <= k.file + 1
      BY <1>6, <3>3, FileAssumption DEF Nth, Within
    <3>5. k.got = Pieces(x, n + 1) /\ Len(k.got) = n + 1
      <4>1. cl[c].got = Pieces(x, n)
        BY <2>4, <3>1, <3>2 DEF Delivered
      <4> QED
        BY <2>2, <3>4, <4>1, PiecesGrow
    <3>6. Len(k.got) <= k.file
      BY <3>4, <3>5
    <3>7. Stream(x, cl[c])
      BY <2>4, <3>1 DEF Delivered
    <3>8. ~Waits(x)
      BY <1>1, <3>1, <3>7 DEF Stream
    <3>16. PICK l \in Nat \ {0} : l = Len(box[x])
      BY <2>1, <3>1
    <3>17. Len(box'[x]) = l - 1
      BY <2>1, <3>1, <3>16
    <3>9. \A j \in 1 .. Len(box'[x]) : /\ box'[x][j] = Nth(x, Len(k.got) + j, k.file)
                                       /\ Within(Len(k.got) + j, k.file)
      <4> SUFFICES ASSUME NEW j \in 1 .. Len(box'[x])
                   PROVE  /\ box'[x][j] = Nth(x, Len(k.got) + j, k.file)
                          /\ Within(Len(k.got) + j, k.file)
        OBVIOUS
      <4>1. j + 1 \in 1 .. Len(box[x]) /\ Len(k.got) + j = n + (j + 1)
        BY <3>5, <3>16, <3>17
      <4>2. /\ box[x][j + 1] = Nth(x, n + (j + 1), k.file) /\ Within(n + (j + 1), k.file)
        BY <2>2, <3>1, <3>2, <3>7, <4>1 DEF Stream
      <4> QED
        BY <2>1, <3>1, <4>1, <4>2
    <3>10. ch[x].pc = "send" => /\ ch[x].q = x /\ ch[x].file = k.file
                                /\ ch[x].n = Len(k.got) + Len(box'[x])
                                /\ Within(ch[x].n + 1, k.file)
      <4>1. ch[x].pc = "send" => /\ ch[x].q = x /\ ch[x].file = k.file
                                 /\ ch[x].n = n + Len(box[x]) /\ Within(ch[x].n + 1, k.file)
        BY <2>2, <3>1, <3>2, <3>7 DEF Stream
      <4>2. n + l = (n + 1) + (l - 1)
        BY Shift
      <4> QED
        BY <3>5, <3>16, <3>17, <4>1, <4>2
    <3>11. ~Waits(x)' /\ ch'[x].pc # "open"
      BY <1>1, <2>3, <3>8 DEF Waits
    <3>12. Stream(x, k)'
      BY <1>1, <2>2, <3>9, <3>10, <3>11 DEF Stream
    <3>13. cl'[c] = k
      BY <2>2 DEF IInv, Types, ClTypes
    <3>14. \A j \in 1 .. MaxReq : ch'[j].pc = "send" /\ ch'[j].q = x => j = x
      BY <1>1, <2>4, <3>1 DEF Delivered
    <3>15. k.got = Pieces(x, Len(k.got)) /\ k.file # NULL /\ k.id = x
      BY <2>2, <2>4, <3>4, <3>5, FileAssumption
    <3> QED
      BY <3>6, <3>12, <3>13, <3>14, <3>15 DEF Delivered, Pieces
  <2>5. WholeFile'
    BY <1>1, <1>6 DEF IInv, WholeFile
  <2>6. /\ \A x \in DOMAIN box' : x # cl[c].q => x \in DOMAIN box /\ box'[x] = box[x]
        /\ BoxTypes' /\ DOMAIN sq' = DOMAIN sq /\ qname' = qname
    BY <1>1, <1>6, <2>1
  <2>7. Fine(c) => Delivered(c)'
    BY <2>4
  <2> QED
    BY <1>1, <2>2, <2>3, <2>5, <2>6, <2>7, ClientFrame
<1> QED
  BY <1>4, <1>5, <1>6 DEF ClientReceive

\* The next id is nobody's.
LEMMA Fresh ==
    ASSUME IInv, reqs < MaxReq, NEW x, x = reqs + 1
    PROVE  /\ x \in Nat /\ x \in 1 .. MaxReq /\ 1 .. reqs \subseteq 1 .. x /\ 0 .. reqs \subseteq 0 .. x
           /\ x \in 1 .. x /\ x \notin 0 .. reqs /\ x \in 0 .. x
           /\ \A c \in Clients : Live(c) => cl[c].id # x /\ cl[c].id \in 1 .. x
           /\ \A c \in Clients : qname[c] # x
           /\ \A r \in Pending : r.id # x
           /\ \A i \in 1 .. MaxReq : Running(i) => i # x /\ ch[i].q # x
<1>1. /\ x \in Nat /\ x \in 1 .. MaxReq /\ 1 .. reqs \subseteq 1 .. x /\ 0 .. reqs \subseteq 0 .. x
      /\ x \in 1 .. x /\ x \notin 0 .. reqs /\ x \notin 1 .. reqs /\ x \in 0 .. x /\ x # NULL
  BY Kept
<1>2. \A c \in Clients : qname[c] # x
  BY <1>1 DEF IInv, Types, ClTypes
<1> QED
  BY <1>1, <1>2 DEF IInv, Ids

\* A client makes its queue.  Its id is new; the queue is new too, unless the
\* POSIX name was left by another of the same pid, and then the id is in stale.
LEMMA NewStep == ASSUME IInv, NEW c \in Clients, NEW f \in Sizes, ClientOpen(c, f) PROVE IInv'
<1>1. /\ UNCHANGED <<prog, servers, badRead, sv, key, sq, ch, done, inherited>>
      /\ ~Live(c) /\ reqs < MaxReq /\ key \in Nat
  BY Kept DEF ClientOpen, world, Live
<1>2. PICK x : x = reqs + 1 /\ reqs' = x
  BY DEF ClientOpen
<1>3. /\ x \in Nat /\ x \in 1 .. MaxReq /\ 1 .. reqs \subseteq 1 .. x /\ 0 .. reqs \subseteq 0 .. x
      /\ x \in 1 .. x /\ x \notin 0 .. reqs /\ x \in 0 .. x
      /\ \A d \in Clients : Live(d) => cl[d].id # x /\ cl[d].id \in 1 .. x
      /\ \A d \in Clients : qname[d] # x
      /\ \A r \in Pending : r.id # x
      /\ \A i \in 1 .. MaxReq : Running(i) => i # x /\ ch[i].q # x
  BY <1>1, <1>2, Fresh
<1>4. PICK q : /\ IF Pmq /\ qname[c] # NULL THEN q = qname[c] /\ box' = box
                                            ELSE q = x /\ box' = With(box, x)
               /\ cl' = [cl EXCEPT ![c] = [Gone EXCEPT !.pc = "send", !.id = x, !.file = f,
                                                       !.q = q, !.g = key]]
               /\ qname' = IF Pmq THEN [qname EXCEPT ![c] = q] ELSE qname
  BY <1>2 DEF ClientOpen
<1>5. stale' = IF Pmq /\ Leftover(c) THEN stale \cup {x} ELSE stale
  BY <1>2 DEF ClientOpen
<1>6. q \in 1 .. x /\ q \in Nat /\ q # NULL
  BY <1>3, <1>4, Kept DEF IInv, Types, ClTypes
<1>7. PICK k \in Client : /\ cl' = [cl EXCEPT ![c] = k] /\ k.pc = "send" /\ k.id = x /\ k.file = f
                          /\ k.q = q /\ k.got = <<>>
  <2> DEFINE k == [Gone EXCEPT !.pc = "send", !.id = x, !.file = f, !.q = q, !.g = key]
  <2>1. Gone \in Client /\ Gone.got = <<>> /\ f \in Nat \cup {NULL}
    BY FileAssumption DEF Gone, Client
  <2>2. /\ k \in Client /\ k.pc = "send" /\ k.id = x /\ k.file = f /\ k.q = q /\ k.got = <<>>
    BY <1>1, <1>3, <1>6, <2>1 DEF Client
  <2>3. cl' = [cl EXCEPT ![c] = k]
    BY <1>4
  <2> HIDE DEF k
  <2> QED
    BY <2>2, <2>3
<1>8. /\ cl'[c] = k /\ cl' \in [Clients -> Client] /\ \A d \in Clients : d # c => cl'[d] = cl[d]
  BY <1>7 DEF IInv, Types, ClTypes
<1>9. /\ SqTypes' /\ Once' /\ Pending' = Pending /\ Pmq' = Pmq /\ stale \subseteq stale'
      /\ Live(c)' /\ \A d \in Clients : d # c => Live(d)' = Live(d)
      /\ \A i \in 1 .. MaxReq : Running(i)' = Running(i)
  BY <1>1, <1>5, <1>7, <1>8, NothingAsked DEF Live, Running, Pmq
<1>10. /\ BoxTypes' /\ (q = x => x \in DOMAIN box' /\ box'[x] = <<>>)
       /\ \A y \in DOMAIN box' : y # x => y \in DOMAIN box /\ box'[y] = box[y]
  <2>1. CASE Pmq /\ qname[c] # NULL
    BY <1>3, <1>4, <2>1, BoxKept
  <2>2. CASE ~(Pmq /\ qname[c] # NULL)
    <3>1. box' = With(box, x) /\ BoxTypes
      BY <1>4, <2>2, BoxKept
    <3>2. /\ BoxTypes' /\ DOMAIN box' = DOMAIN box \cup {x} /\ box'[x] = <<>>
          /\ \A y \in DOMAIN box : y # x => box'[y] = box[y]
      BY <3>1, BoxMade
    <3> QED
      BY <3>2
  <2> QED
    BY <2>1, <2>2
<1>11. Types'
  <2>1. qname' \in [Clients -> 1 .. x \cup {NULL}]
    BY <1>3, <1>4, <1>6 DEF IInv, Types, ClTypes
  <2>2. ClTypes'
    BY <1>2, <1>8, <2>1 DEF ClTypes
  <2>3. SvTypes' /\ ChTypes'
    BY <1>1 DEF IInv, Types, SvTypes, ChTypes
  <2>4. OtherTypes'
    BY <1>1, <1>2, <1>3, Kept DEF IInv, Types, OtherTypes
  <2> QED
    BY <1>9, <1>10, <2>2, <2>3, <2>4 DEF Types
<1>12. Found'
  BY <1>1 DEF IInv, Found
<1>13. Ids'
  <2>1. \A d \in Clients : Live(d)' => cl'[d].id \in 1 .. x
    BY <1>3, <1>7, <1>8, <1>9
  <2>2. \A d, e \in Clients : Live(d)' /\ Live(e)' /\ cl'[d].id = cl'[e].id => d = e
    BY <1>3, <1>7, <1>8, <1>9 DEF IInv, Ids
  <2>3. /\ \A r \in Pending : r.id \in 1 .. x /\ r.q \in 0 .. x
        /\ \A i \in 1 .. MaxReq : Running(i) => i \in 1 .. x /\ ch[i].q \in 0 .. x /\ ch[i].pid \in Clients
    BY <1>3 DEF IInv, Ids
  <2> QED
    BY <1>1, <1>2, <1>9, <2>1, <2>2, <2>3 DEF Ids
<1>14. x \notin stale' => q = x /\ (Pmq => ~Leftover(c))
  BY <1>4, <1>5 DEF Leftover
<1>15. /\ \A d \in Clients : d # c => qname'[d] = qname[d]
       /\ Pmq => qname'[c] = q
       /\ ~Pmq => qname' = qname /\ q = x
  BY <1>4 DEF IInv, Types, ClTypes
<1>16. Queues'
  <2>1. \A d, e \in Clients : qname'[d] # NULL /\ qname'[d] = qname'[e] => d = e
    <3>1. CASE ~Pmq
      BY <1>15, <3>1 DEF IInv, Queues
    <3>2. CASE Pmq
      <4>1. \A d \in Clients : d # c => qname[d] # q
        BY <1>3, <1>4, <1>6 DEF IInv, Queues
      <4> QED
        BY <1>15, <3>2, <4>1 DEF IInv, Queues
    <3> QED
      BY <3>1, <3>2
  <2>2. \A d \in Clients : Live(d)' => /\ cl'[d].id \notin stale' => cl'[d].q = cl'[d].id
                                       /\ IF Pmq THEN qname'[d] = cl'[d].q
                                                 ELSE cl'[d].q = cl'[d].id
    BY <1>7, <1>8, <1>9, <1>14, <1>15 DEF IInv, Queues
  <2> QED
    BY <1>1, <1>9, <2>1, <2>2 DEF IInv, Queues
<1>17. Asked'
  BY <1>1, <1>3, <1>7, <1>8, <1>9 DEF IInv, Asked
<1>18. Owned'
  <2>1. ASSUME Pmq, x \notin stale'
        PROVE  /\ \A r \in Pending : r.pid # c
               /\ \A i \in 1 .. MaxReq : Running(i) => ch[i].pid # c
    BY <1>14, <2>1 DEF Leftover, Pending, Queued, Running
  <2> QED
    BY <1>1, <1>7, <1>8, <1>9, <2>1 DEF IInv, Owned
<1>19. ASSUME NEW d \in Clients, Fine(d)' PROVE Delivered(d)'
  <2>1. CASE d # c
    <3>1. Fine(d) /\ Delivered(d) /\ cl'[d] = cl[d] /\ cl[d].id # x
      BY <1>1, <1>3, <1>8, <1>9, <1>19, <2>1 DEF Fine, IInv, Delivery
    <3>2. \A j \in 1 .. MaxReq : ch'[j].pc = "send" /\ ch'[j].q = cl[d].id => j = cl[d].id
      BY <1>1, <3>1 DEF Delivered
    <3> QED
      BY <1>1, <1>9, <1>10, <3>1, <3>2, DeliveredKept
  <2>2. CASE d = c
    <3>1. q = x /\ x \in DOMAIN box' /\ box'[x] = <<>>
      BY <1>7, <1>8, <1>10, <1>14, <1>19, <2>2 DEF Fine
    <3>2. Len(<<>>) = 0 /\ <<>> = Pieces(x, 0) /\ 1 .. 0 = {}
      BY DEF Pieces
    <3>3. IF k.file = NULL THEN k.got = <<>> ELSE Len(k.got) <= k.file
      BY <1>7, <3>2, FileAssumption
    <3>4. ch'[x].pc = "none" /\ \A j \in 1 .. MaxReq : ch'[j].pc = "send" => ch'[j].q # x
      BY <1>1, <1>3 DEF Running
    <3>5. Stream(x, k)'
      BY <1>7, <3>1, <3>2, <3>4 DEF Stream
    <3>6. k.got = Pieces(x, Len(k.got)) /\ k.id = x
      BY <1>7, <3>2
    <3> QED
      BY <1>8, <2>2, <3>3, <3>4, <3>5, <3>6 DEF Delivered, Pieces
  <2> QED
    BY <2>1, <2>2
<1>20. Delivery'
  BY <1>19 DEF Delivery
<1>21. WholeFile'
  BY <1>1, <1>9 DEF IInv, WholeFile
<1> QED
  BY <1>9, <1>11, <1>12, <1>13, <1>16, <1>17, <1>18, <1>20, <1>21 DEF IInv

\* The client that never reads has an id and a queue of its own.
LEMMA BadStep ==
    ASSUME IInv, NEW c \in Clients, NEW f \in Sizes, svmsg_bad_file_client(c, f)
    PROVE  IInv'
<1>1. /\ UNCHANGED <<prog, servers, badRead, sv, key, qname, cl, ch, done, stale, inherited>>
      /\ prog.keyfile /\ reqs < MaxReq /\ key \in DOMAIN sq /\ Fits(sq[key])
  BY DEF svmsg_bad_file_client, world, history
<1>2. PICK x : x = reqs + 1 /\ reqs' = x /\ box' = With(box, x)
  BY DEF svmsg_bad_file_client
<1>3. /\ x \in Nat /\ x \in 1 .. MaxReq /\ 1 .. reqs \subseteq 1 .. x /\ 0 .. reqs \subseteq 0 .. x
      /\ x \in 1 .. x /\ x \notin 0 .. reqs /\ x \in 0 .. x
      /\ \A d \in Clients : Live(d) => cl[d].id # x /\ cl[d].id \in 1 .. x
      /\ \A r \in Pending : r.id # x
      /\ \A i \in 1 .. MaxReq : Running(i) => i # x /\ ch[i].q # x
  BY <1>1, <1>2, Fresh
<1>4. PICK r \in Request : /\ sq' = [sq EXCEPT ![key] = Append(sq[key], r)]
                           /\ r.id = x /\ r.pid = c /\ r.q = x /\ r.file = f
  <2> DEFINE r == [id |-> x, pid |-> c, q |-> x, file |-> f]
  <2>1. r \in Request /\ r.id = x /\ r.pid = c /\ r.q = x /\ r.file = f
    BY <1>3, FileAssumption DEF Request
  <2>2. sq' = [sq EXCEPT ![key] = Append(sq[key], r)]
    BY <1>2 DEF svmsg_bad_file_client
  <2> HIDE DEF r
  <2> QED
    BY <2>1, <2>2
<1>5. SqTypes' /\ Places' /\ Queued' = Queued \cup {r} /\ DOMAIN sq' = DOMAIN sq
  <2>1. \A y \in Queued : y.id # r.id
    BY <1>3, <1>4 DEF Pending
  <2>2. SqTypes /\ Places
    BY Kept
  <2> QED
    BY <1>1, <1>4, <2>1, <2>2, SqWritten
<1>6. /\ Pending' = Pending \cup {r} /\ Pmq' = Pmq /\ ~Pmq
      /\ \A d \in Clients : Live(d)' = Live(d)
      /\ \A i \in 1 .. MaxReq : Running(i)' = Running(i)
  <2>1. ~Pmq
    BY <1>1, Pairs
  <2> QED
    BY <1>1, <1>5, <2>1 DEF Pending, Live, Running, Pmq
<1>7. Once'
  <2>1. sv.req # NULL => \A y \in Queued' : y.id # sv.req.id
    BY <1>3, <1>4, <1>5, Kept DEF Once, Pending
  <2>2. \A y \in Pending' : \A i \in 1 .. MaxReq : Running(i) => y.id # i
    BY <1>3, <1>4, <1>6, Kept DEF Once
  <2> QED
    BY <1>1, <1>5, <1>6, <2>1, <2>2 DEF Once
<1>8. /\ BoxTypes' /\ \A y \in DOMAIN box' : y # x => y \in DOMAIN box /\ box'[y] = box[y]
  <2>1. BoxTypes /\ box' = With(box, x)
    BY <1>2, BoxKept
  <2>2. /\ BoxTypes' /\ DOMAIN box' = DOMAIN box \cup {x}
        /\ \A y \in DOMAIN box : y # x => box'[y] = box[y]
    BY <2>1, BoxMade
  <2> QED
    BY <2>2
<1>9. Types'
  <2>1. SvTypes' /\ ChTypes'
    BY <1>1 DEF IInv, Types, SvTypes, ChTypes
  <2>2. ClTypes'
    BY <1>1, <1>2, <1>3 DEF IInv, Types, ClTypes
  <2>3. OtherTypes'
    BY <1>1, <1>2, <1>3, Kept DEF IInv, Types, OtherTypes
  <2> QED
    BY <1>5, <1>8, <2>1, <2>2, <2>3 DEF Types
<1>10. Found'
  BY <1>1, <1>5 DEF IInv, Found
<1>11. Ids'
  <2>1. /\ \A y \in Pending' : y.id \in 1 .. x /\ y.q \in 0 .. x
        /\ \A i \in 1 .. MaxReq : Running(i) => i \in 1 .. x /\ ch[i].q \in 0 .. x /\ ch[i].pid \in Clients
    BY <1>3, <1>4, <1>6 DEF IInv, Ids
  <2> QED
    BY <1>1, <1>2, <1>3, <1>6, <2>1 DEF IInv, Ids
<1>12. Queues'
  <2>1. \A y \in Pending' : y.q = y.id
    BY <1>4, <1>6 DEF IInv, Queues
  <2> QED
    BY <1>1, <1>6, <2>1 DEF IInv, Queues
<1>13. Asked'
  BY <1>1, <1>3, <1>4, <1>6 DEF IInv, Asked
<1>14. Owned'
  BY <1>6 DEF Owned
<1>15. ASSUME NEW d \in Clients, Fine(d)' PROVE Delivered(d)'
  <2>1. Fine(d) /\ Delivered(d) /\ cl'[d] = cl[d] /\ cl[d].id # x
    BY <1>1, <1>3, <1>6, <1>15 DEF Fine, IInv, Delivery
  <2>2. \A j \in 1 .. MaxReq : ch'[j].pc = "send" /\ ch'[j].q = cl[d].id => j = cl[d].id
    BY <1>1, <2>1 DEF Delivered
  <2> QED
    BY <1>1, <1>4, <1>6, <1>8, <2>1, <2>2, DeliveredKept
<1>16. Delivery'
  BY <1>15 DEF Delivery
<1>17. WholeFile'
  BY <1>1 DEF IInv, WholeFile
<1> QED
  BY <1>7, <1>9, <1>10, <1>11, <1>12, <1>13, <1>14, <1>16, <1>17 DEF IInv
-----------------------------------------------------------------------------
\* Nothing is there initially.
LEMMA InitInv == Init => IInv
<1> SUFFICES ASSUME Init PROVE IInv
  OBVIOUS
<1> USE DEF Init
<1>1. Queued = {} /\ Pending = {} /\ DOMAIN sq = {} /\ DOMAIN box = {}
  BY DEF Queued, Pending, Down
<1>2. /\ \A c \in Clients : ~Live(c) /\ qname[c] = NULL
      /\ \A i \in 1 .. MaxReq : ~Running(i)
  BY DEF Live, Running, Gone, Ended
<1>3. Types
  <2>1. SvTypes
    BY DEF SvTypes, Server, Down
  <2>2. ClTypes
    <3>1. Gone \in Client
      BY DEF Gone, Client
    <3> QED
      BY <3>1 DEF ClTypes
  <2>3. ChTypes
    <3>1. Ended \in Child
      BY DEF Ended, Child
    <3> QED
      BY <3>1 DEF ChTypes
  <2>4. SqTypes /\ BoxTypes
    BY <1>1 DEF SqTypes, BoxTypes
  <2>5. OtherTypes
    BY FileAssumption DEF OtherTypes
  <2> QED
    BY <2>1, <2>2, <2>3, <2>4, <2>5 DEF Types
<1>4. Found
  BY FileAssumption DEF Found, Down
<1>5. Ids /\ Queues /\ Asked /\ Owned
  BY <1>1, <1>2 DEF Ids, Queues, Asked, Owned
<1>6. Once
  BY <1>1, <1>2 DEF Once, Places, Down
<1>7. Delivery /\ WholeFile
  BY <1>2 DEF Delivery, Fine, WholeFile
<1> QED
  BY <1>3, <1>4, <1>5, <1>6, <1>7 DEF IInv

\* Steps of nobody.
LEMMA StutterInv == ASSUME IInv, UNCHANGED vars PROVE IInv'
<1>1. UNCHANGED <<prog, reqs, qname, cl, ch, stale, badRead, box, done, sv, key, servers, sq, inherited>>
  BY DEF vars
<1>2. SqTypes' /\ Once' /\ Pending' = Pending
  BY <1>1, NothingAsked
<1>3. SvTypes' /\ Found'
  BY <1>1 DEF IInv, Types, SvTypes, Found
<1> QED
  BY <1>1, <1>2, <1>3, Kept, ServerFrame

\* Every step keeps the invariant.
LEMMA NextInv == ASSUME IInv, [Next]_vars PROVE IInv'
<1>1. CASE ServerStart
  BY <1>1, StartStep
<1>2. CASE ServerStep
  BY <1>2, KeyStep, ReceiveStep, ForkStep DEF ServerStep
<1>3. CASE ServerForkFails \/ termHandler \/ ServerKilled
  BY <1>3, EndStep
<1>4. ASSUME NEW i \in 1 .. MaxReq, ChildStep(i) \/ ChildSlow(i) \/ ReadFails(i) \/ ChildSignal(i)
      PROVE  IInv'
  BY <1>4, OpenStep, SendStep, SafeStep, SlowStep, SignalStep DEF ChildStep
<1>5. ASSUME NEW c \in Clients, NEW f \in Sizes, ClientOpen(c, f) \/ svmsg_bad_file_client(c, f)
      PROVE  IInv'
  BY <1>5, NewStep, BadStep
<1>6. ASSUME NEW c \in Clients, ClientStep(c) \/ ClientSlow(c) \/ ClientDies(c)
      PROVE  IInv'
  BY <1>6, AskStep, GetStep, LeaveStep, ClientSlowStep DEF ClientStep
<1>7. CASE UNCHANGED vars
  BY <1>7, StutterInv
<1> QED
  BY <1>1, <1>2, <1>3, <1>4, <1>5, <1>6, <1>7 DEF Next

\* The inductive invariant holds throughout.
THEOREM Invariant == Spec => []IInv
  BY InitInv, NextInv, PTL DEF Spec

\* Server, clients and children are at steps of their programs and no queue holds
\* more than it can, for every pair of programs.
THEOREM TypeCorrect == Spec => []TypeOK
<1>1. IInv => TypeOK
  BY DEF IInv, Types, SvTypes, ClTypes, ChTypes, SqTypes, BoxTypes, OtherTypes, TypeOK, Server,
         Client, Child
<1> QED
  BY <1>1, Invariant, PTL

\* For every pair of programs, over kills and restarts, clients find the running
\* server's queue where they look for it, until a child runs termHandler().
THEOREM ServerFound == Spec => []KeyNamesServer
<1>1. IInv => KeyNamesServer
  BY DEF IInv, Found, KeyNamesServer
<1> QED
  BY <1>1, Invariant, PTL

\* A client that reports a file as received has all of it, in order and nothing
\* else, for every pair of programs, any number of clients and requests, every size
\* of file and queue, whoever is killed, times out or is restarted.
THEOREM FilesWhole == Spec => []WholeFile
<1>1. IInv => WholeFile
  BY DEF IInv
<1> QED
  BY <1>1, Invariant, PTL
=============================================================================
