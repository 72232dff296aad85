------------------------- MODULE SeqnumServerProofs -------------------------
(***************************************************************************)
(* Proofs about SeqnumServer for all pairs of programs, any number of      *)
(* clients, requests, deaths and servers, and every queue size.  What a    *)
(* client printed is disjoint because of what is still under way: Given    *)
(* holds the printed ranges and those that wait in the inbox of a client   *)
(* that is there.  Apart says that they are disjoint and all lie below     *)
(* Limit, the number the next answer will carry, be it from this server or *)
(* from the next.  Between the answer and the update the range of the      *)
(* request counts already; a server that ends leaves the file at Limit     *)
(* unless there was a lapse (Saved).  An answer is paired with the length  *)
(* its client asked for, so Identities and Owned tie each request on its   *)
(* way to the client with its id and, where no pid was reused, its pid.    *)
(***************************************************************************)
EXTENDS SeqnumServer, FiniteSetTheorems, SequenceTheorems, TLAPS

Points  == {"down", "read", "line", "open", "send", "update", "trunc", "write"}
Busy    == {"line", "open", "send", "update"}
Request == [pid : Clients, id : Nat, len : Nat \cup {NULL}]
Server  == [pc : Points, seq : Nat, req : Request \cup {NULL}, fds : 0 .. NOFILE,
            tries : 0 .. MAX_RETRIES]
Client  == [pc : {"none", "start", "conn", "sent", "opening"}, id : Nat,
            len : Nat \cup {NULL}]
Answer  == [id : Nat, start : Nat, len : Nat]

\* The answers in the queue of msg_seqnum, by their place.
Slots == UNION {{c} \X (1 .. Len(inbox[c])) : c \in Clients}

ServerTypes == sv \in Server /\ (sv.pc \in Busy <=> sv.req # NULL)

ClientTypes == /\ cl \in [Clients -> Client] /\ inbox \in [Clients -> Seq(Nat)]
               /\ name \subseteq Clients /\ eof \subseteq Clients

OtherTypes == /\ prog \in Programs /\ file \in Nat \cup {NULL} /\ reqq \in Seq(Request)
              /\ printed \subseteq Answer /\ reqs \in Nat

Types == ServerTypes /\ ClientTypes /\ OtherTypes

\* The one queue is not overfull.
Capacity == IsFiniteSet(Slots) /\ (prog.via = "svmsg" => Queued <= QCAP)

Live(c) == cl[c].pc # "none"

Sent(q) == {q[i] : i \in 1 .. Len(q)}

\* The requests on their way, the one the server works on included.
InFlight == Sent(reqq) \cup ({sv.req} \ {NULL})

\* What a request has to do with a client that is still there.
Matches(r, k, c) ==
    r.id = k.id => /\ r.pid = c /\ r.len \in {NULL, k.len}
                   /\ k.pc # "start" /\ (k.pc = "conn" => r.len = NULL)

Identities ==
    /\ \A c \in Clients : Live(c) => cl[c].id \in 1 .. reqs /\ cl[c].len \in Nat
    /\ \A c, d \in Clients : Live(c) /\ Live(d) /\ cl[c].id = cl[d].id => c = d
    /\ \A r \in InFlight : /\ r.id \in 1 .. reqs
                           /\ \A c \in Clients : Live(c) => Matches(r, cl[c], c)
                           /\ ~Sock => r.len # NULL
    /\ sv.pc \in {"open", "send", "update"} => sv.req.len \in Nat

\* A pid stands for one client.
Owned == ~reused => \A r \in InFlight : \A c \in Clients :
            Live(c) /\ r.pid = c => r.id = cl[c].id

\* The file has the number except between the answer and write().
Saved == /\ prog.persist /\ sv.pc \in {"read", "line", "open", "send"} => sv.seq = read_seq
         /\ prog.via = "svmsg" /\ sv.pc # "down" => exists

\* The ranges that clients printed or may still print.
Given == printed \cup
    {r \in Answer : \E c \in Clients : /\ Live(c) /\ r.id = cl[c].id /\ r.len = cl[c].len
                                      /\ r.start \in Sent(inbox[c])}

\* The number below which all of them are, as long as there can be a server.
Limit == CASE sv.pc = "update" -> sv.seq + sv.req.len
           [] sv.pc = "down"   -> read_seq
           [] OTHER            -> sv.seq
Serves == sv.pc # "down" \/ prog.via # "svmsg" \/ ~exists

Apart == /\ \A r \in Given : Serves => r.start + r.len <= Limit
         /\ \A r, q \in Given : r # q => Numbers(r) \cap Numbers(q) = {}

IInv == /\ Types /\ Capacity /\ Identities /\ Owned /\ Saved
        /\ ~lapse /\ ~reused => Apart
-----------------------------------------------------------------------------
(* Sequences.                                                              *)

\* What Head and Tail leave of a queue.
LEMMA SentTail ==
    ASSUME NEW S, NEW q \in Seq(S), q # <<>>
    PROVE  /\ Head(q) \in S /\ Head(q) \in Sent(q) /\ Tail(q) \in Seq(S)
           /\ Len(Tail(q)) = Len(q) - 1 /\ Len(q) \in Nat \ {0} /\ Sent(Tail(q)) \subseteq Sent(q)
<1>1. Len(q) \in Nat \ {0} /\ Head(q) = q[1] /\ Head(q) \in S
  BY EmptySeq
<1>2. /\ Tail(q) \in Seq(S) /\ Len(Tail(q)) = Len(q) - 1
      /\ \A i \in 1 .. Len(Tail(q)) : Tail(q)[i] = q[i + 1]
  BY <1>1
<1> QED
  BY <1>1, <1>2 DEF Sent

\* What Append adds to a queue.
LEMMA SentAppend ==
    ASSUME NEW S, NEW q \in Seq(S), NEW r \in S
    PROVE  /\ Append(q, r) \in Seq(S) /\ Len(Append(q, r)) = Len(q) + 1
           /\ Len(q) \in Nat /\ Sent(Append(q, r)) = Sent(q) \cup {r}
<1>1. /\ Append(q, r) \in Seq(S) /\ Len(Append(q, r)) = Len(q) + 1 /\ Len(q) \in Nat
      /\ \A i \in 1 .. Len(q) : Append(q, r)[i] = q[i]
      /\ Append(q, r)[Len(q) + 1] = r
  OBVIOUS
<1>2. Sent(Append(q, r)) \subseteq Sent(q) \cup {r}
  BY <1>1 DEF Sent
<1>3. Sent(q) \cup {r} \subseteq Sent(Append(q, r))
  BY <1>1 DEF Sent
<1> QED
  BY <1>1, <1>2, <1>3

\* An empty queue has nothing in it.
LEMMA SentEmpty == \A S : <<>> \in Seq(S) /\ Len(<<>>) = 0 /\ Sent(<<>>) = {}
<1>1. \A S : <<>> \in Seq(S)
  OBVIOUS
<1>2. Len(<<>>) = 0
  OBVIOUS
<1> QED
  BY <1>1, <1>2 DEF Sent
-----------------------------------------------------------------------------
(* What is needed of a step.                                               *)

\* The queue stays within its size when nothing, or one message, is added.
LEMMA CapacityKept ==
    ASSUME Types, Types', Capacity, prog' = prog, Slots' \subseteq Slots,
           \/ Len(reqq') <= Len(reqq)
           \/ Len(reqq') = Len(reqq) + 1 /\ (prog.via = "svmsg" => Queued < QCAP)
    PROVE  Capacity'
<1>1. Len(reqq) \in Nat /\ Len(reqq') \in Nat
  BY DEF Types, OtherTypes
<1>2. /\ IsFiniteSet(Slots') /\ Cardinality(Slots') <= Cardinality(Slots)
      /\ Cardinality(Slots) \in Nat /\ Cardinality(Slots') \in Nat
  BY FS_Subset, FS_CardinalityType DEF Capacity
<1>3. Queued = Len(reqq) + Cardinality(Slots) /\ Queued' = Len(reqq') + Cardinality(Slots')
  BY DEF Queued, Slots
<1> QED
  BY <1>1, <1>2, <1>3, SeqAssumption DEF Capacity

\* An answer is added.
LEMMA CapacityAnswer ==
    ASSUME Types, Capacity, UNCHANGED <<prog, reqq>>, NEW x, Slots' = Slots \cup {x},
           x \notin Slots, prog.via = "svmsg" => Queued < QCAP
    PROVE  Capacity'
<1>1. Len(reqq) \in Nat
  BY DEF Types, OtherTypes
<1>2. /\ IsFiniteSet(Slots') /\ Cardinality(Slots') = Cardinality(Slots) + 1
      /\ Cardinality(Slots) \in Nat
  BY FS_AddElement, FS_CardinalityType DEF Capacity
<1>3. Queued = Len(reqq) + Cardinality(Slots) /\ Queued' = Len(reqq') + Cardinality(Slots')
  BY DEF Queued, Slots
<1> QED
  BY <1>1, <1>2, <1>3, SeqAssumption DEF Capacity

\* What was given and can be given stays apart when nothing is given.
LEMMA ApartKept ==
    ASSUME Apart, Given' \subseteq Given, Serves' => Serves /\ Limit' = Limit
    PROVE  Apart'
  BY DEF Apart, Numbers

\* Steps of a server that give no number away.
LEMMA ServerFrame ==
    ASSUME IInv, Types', UNCHANGED <<prog, cl, reqs, reused, printed, inbox>>,
           Len(reqq') <= Len(reqq), InFlight' \subseteq InFlight, Saved',
           sv'.pc \in {"open", "send", "update"} => sv'.req.len \in Nat,
           ~lapse' => ~lapse /\ (Serves' => Serves /\ Limit' = Limit)
    PROVE  IInv'
<1>1. Capacity'
  <2>1. Slots' = Slots
    BY DEF Slots
  <2> QED
    BY <2>1, CapacityKept DEF IInv
<1>2. \A c \in Clients : Live(c)' = Live(c)
  BY DEF Live
<1>3. Identities'
  BY <1>2 DEF IInv, Identities, Matches, Sock
<1>4. Owned'
  BY <1>2 DEF IInv, Owned
<1>5. Given' = Given
  BY <1>2 DEF Given
<1>6. ~lapse' /\ ~reused' => Apart'
  BY <1>5, ApartKept DEF IInv
<1> QED
  BY <1>1, <1>3, <1>4, <1>6 DEF IInv
-----------------------------------------------------------------------------
(* How a step of the server writes its state.                              *)

\* The server after the step.
Serving(l, n, r, f, k) == /\ sv' \in Server /\ sv'.pc = l /\ sv'.seq = n /\ sv'.req = r
                          /\ sv'.fds = f /\ sv'.tries = k

\* Only the point in the program changes.
LEMMA SetPc ==
    ASSUME sv \in Server, NEW l \in Points, sv' = [sv EXCEPT !.pc = l]
    PROVE  Serving(l, sv.seq, sv.req, sv.fds, sv.tries)
  BY DEF Server, Serving

\* The server is done with its request.
LEMMA SetPcReq ==
    ASSUME sv \in Server, NEW l \in Points, sv' = [sv EXCEPT !.pc = l, !.req = NULL]
    PROVE  Serving(l, sv.seq, NULL, sv.fds, sv.tries)
  BY DEF Server, Serving

\* The server takes a request.
LEMMA SetRequest ==
    ASSUME sv \in Server, NEW l \in Points, NEW r \in Request,
           sv' = [sv EXCEPT !.req = r, !.tries = 0, !.pc = l]
    PROVE  Serving(l, sv.seq, r, sv.fds, 0)
<1>1. 0 \in 0 .. MAX_RETRIES
  BY SeqAssumption
<1> QED
  BY <1>1 DEF Server, Serving

\* The server is done with its request and the number advances.
LEMMA SetSeq ==
    ASSUME sv \in Server, NEW l \in Points, NEW n \in Nat,
           sv' = [sv EXCEPT !.seq = n, !.req = NULL, !.pc = l]
    PROVE  Serving(l, n, NULL, sv.fds, sv.tries)
  BY DEF Server, Serving

\* save_seq() takes a descriptor; the bound of fds is its guard.
LEMMA SetFds ==
    ASSUME sv \in Server, NEW l \in Points, sv.fds < NOFILE,
           sv' = [sv EXCEPT !.pc = l, !.fds = sv.fds + 1]
    PROVE  Serving(l, sv.seq, sv.req, sv.fds + 1, sv.tries)
<1>1. sv.fds \in 0 .. NOFILE
  BY DEF Server
<1>2. sv.fds + 1 \in 0 .. NOFILE
  BY <1>1, SeqAssumption
<1> QED
  BY <1>2 DEF Server, Serving

\* Another try to open the FIFO; the bound of tries is its guard.
LEMMA SetTries ==
    ASSUME sv \in Server, sv.tries < MAX_RETRIES, sv' = [sv EXCEPT !.tries = sv.tries + 1]
    PROVE  Serving(sv.pc, sv.seq, sv.req, sv.fds, sv.tries + 1)
  BY SeqAssumption DEF Server, Serving

\* The server is gone.
LEMMA SetDown ==
    ASSUME sv' = Down
    PROVE  Serving("down", 0, NULL, 0, 0)
  BY SeqAssumption DEF Server, Serving, Down, Points

\* A server starts from the number in the file.
LEMMA SetUp ==
    ASSUME NEW n \in Nat, sv' = [Down EXCEPT !.pc = "read", !.seq = n]
    PROVE  Serving("read", n, NULL, 0, 0)
<1>1. Down \in Server /\ Down.req = NULL /\ Down.fds = 0 /\ Down.tries = 0 /\ "read" \in Points
  BY SeqAssumption DEF Server, Down, Points
<1> QED
  BY <1>1 DEF Server, Serving

\* A request is a request.
LEMMA NotNull == NULL \notin Request
  BY SeqAssumption DEF Request

\* The types when only the server's state, the queue of requests, the file and
\* the ends of file change.
LEMMA ServerTypesKept ==
    ASSUME Types, UNCHANGED <<prog, cl, name, inbox, printed, reqs>>,
           sv' \in Server, sv'.pc \in Busy <=> sv'.req # NULL,
           reqq' \in Seq(Request), file' \in Nat \cup {NULL}, eof' \subseteq Clients
    PROVE  Types'
  BY DEF Types, ServerTypes, ClientTypes, OtherTypes
-----------------------------------------------------------------------------
(* The server, step by step.                                               *)

\* The number in the file is a number.
LEMMA ReadSeqType == ASSUME Types PROVE read_seq \in Nat
  BY DEF Types, OtherTypes, read_seq

\* A server starts: from the file, or with nothing given before it.
LEMMA StartStep == ASSUME IInv, ServerStart PROVE IInv'
<1>1. Types /\ sv \in Server /\ sv.pc = "down" /\ read_seq \in Nat /\ sv.req = NULL
  BY ReadSeqType DEF IInv, Types, ServerTypes, ServerStart, Busy
<1>2. Serving("read", read_seq, NULL, 0, 0)
  BY <1>1, SetUp DEF ServerStart
<1>3. /\ UNCHANGED <<prog, cl, name, inbox, printed, reqs, reqq, file, eof, reused, lapse>>
      /\ exists' = TRUE
  BY DEF ServerStart, history, bounds
<1>4. Types'
  <2>1. reqq' \in Seq(Request) /\ file' \in Nat \cup {NULL} /\ eof' \subseteq Clients
    BY <1>1, <1>3 DEF Types, OtherTypes, ClientTypes
  <2> QED
    BY <1>1, <1>2, <1>3, <2>1, ServerTypesKept DEF Serving, Busy
<1>5. InFlight' \subseteq InFlight
  BY <1>2, <1>3 DEF InFlight, Serving
<1>6. Saved'
  BY <1>2, <1>3 DEF Saved, Serving, read_seq
<1>7. Serves /\ Limit' = Limit
  BY <1>1, <1>2 DEF Serves, Limit, Serving, ServerStart
<1>8. Len(reqq') <= Len(reqq)
  BY <1>1, <1>3 DEF Types, OtherTypes
<1> QED
  BY <1>2, <1>3, <1>4, <1>5, <1>6, <1>7, <1>8, ServerFrame DEF Serving

\* A request moves from the queue to the server.
LEMMA ReadStep == ASSUME IInv, ServerRead PROVE IInv'
<1>1. Types /\ sv \in Server /\ sv.pc = "read" /\ sv.req = NULL /\ reqq \in Seq(Request)
  BY DEF IInv, Types, ServerTypes, OtherTypes, ServerRead, Busy
<1>2. /\ Head(reqq) \in Request /\ Head(reqq) \in Sent(reqq) /\ Tail(reqq) \in Seq(Request)
      /\ Len(Tail(reqq)) <= Len(reqq) /\ Sent(Tail(reqq)) \subseteq Sent(reqq)
  BY <1>1, SentTail DEF ServerRead
<1>3. PICK l \in {"open", "send", "line"} :
         /\ Serving(l, sv.seq, Head(reqq), sv.fds, 0)
         /\ l = "line" => Sock
         /\ l # "line" => ~Sock
  <2> DEFINE l == CASE prog.via \in {"fifo", "pmq"} -> "open"
                    [] prog.via = "svmsg"           -> "send"
                    [] OTHER                        -> "line"
  <2>1. prog \in AllPrograms
    BY <1>1, ProgramsAssumption DEF Types, OtherTypes
  <2>2. prog.via \in {"fifo", "svmsg", "pmq", "us", "is"}
    BY <2>1 DEF AllPrograms, Pair, fifo_seqnum_server, fifo_seqnum_server_mod,
       fifo_seqnum_server_mod2, fifo_seqnum_server_mod3, fifo_seqnum_client_mod,
       msg_seqnum_server, pmq_seqnum_server, us_seqnum_server, is_seqnum_sv,
       is_seqnum_sv_mod, is_seqnum_sv_mod2
  <2>3. l \in {"open", "send", "line"} /\ (l = "line" <=> Sock)
    BY <2>2 DEF Sock
  <2>4. sv' = [sv EXCEPT !.req = Head(reqq), !.tries = 0, !.pc = l]
    BY DEF ServerRead
  <2> HIDE DEF l
  <2>5. l \in Points
    BY <2>3 DEF Points
  <2>6. Serving(l, sv.seq, Head(reqq), sv.fds, 0)
    BY <1>1, <1>2, <2>4, <2>5, SetRequest
  <2> QED
    BY <2>3, <2>6
<1>4. /\ UNCHANGED <<prog, cl, name, inbox, printed, reqs, file, eof, reused, lapse, exists>>
      /\ reqq' = Tail(reqq)
  BY DEF ServerRead, history, bounds
<1>5. Types'
  <2>1. file' \in Nat \cup {NULL} /\ eof' \subseteq Clients
    BY <1>1, <1>4 DEF Types, OtherTypes, ClientTypes
  <2> QED
    BY <1>1, <1>2, <1>3, <1>4, <2>1, NotNull, ServerTypesKept DEF Serving, Busy
<1>6. InFlight' \subseteq InFlight
  BY <1>2, <1>3, <1>4 DEF InFlight, Serving
<1>7. Saved'
  BY <1>1, <1>3, <1>4 DEF IInv, Saved, Serving, read_seq
<1>8. Serves /\ Limit' = Limit
  BY <1>1, <1>3 DEF Serves, Limit, Serving
<1>9. sv'.pc \in {"open", "send", "update"} => sv'.req.len \in Nat
  <2>1. ~Sock => Head(reqq).len # NULL
    BY <1>2 DEF IInv, Identities, InFlight
  <2> QED
    BY <1>2, <1>3, <2>1 DEF Serving, Request
<1> QED
  BY <1>2, <1>4, <1>5, <1>6, <1>7, <1>8, <1>9, ServerFrame

\* A step of a running server that takes no request and gives no number away.
LEMMA ServerMove ==
    ASSUME IInv, UNCHANGED <<prog, cl, name, inbox, printed, reqs, reqq, reused, lapse>>,
           NEW l, NEW n, NEW r \in {sv.req, NULL}, NEW f, NEW k, Serving(l, n, r, f, k),
           l \in Busy <=> r # NULL,
           l \in {"open", "send", "update"} => r.len \in Nat,
           file' \in Nat \cup {NULL}, eof' \subseteq Clients,
           Saved', Serves' => Serves /\ Limit' = Limit
    PROVE  IInv'
<1>1. Types /\ reqq' \in Seq(Request) /\ Len(reqq') <= Len(reqq)
  BY DEF IInv, Types, OtherTypes
<1>2. Types'
  BY <1>1, ServerTypesKept DEF Serving
<1>3. InFlight' \subseteq InFlight
  BY DEF InFlight, Serving
<1> QED
  BY <1>1, <1>2, <1>3, ServerFrame DEF Serving

\* The types of what the steps below leave alone.
LEMMA Kept ==
    ASSUME IInv
    PROVE  /\ Types /\ sv \in Server /\ sv.seq \in Nat /\ sv.req \in Request \cup {NULL}
           /\ (sv.pc \in Busy <=> sv.req # NULL) /\ sv.pc \in Points
           /\ file \in Nat \cup {NULL} /\ eof \subseteq Clients
           /\ reqq \in Seq(Request) /\ Saved
  BY DEF IInv, Types, ServerTypes, OtherTypes, ClientTypes, Server

\* The line is good, bad or never comes.
LEMMA LineStep == ASSUME IInv, ServerLine PROVE IInv'
<1>1. /\ sv.pc = "line" /\ sv.req \in Request /\ sv.req # NULL
      /\ UNCHANGED <<prog, cl, name, inbox, printed, reqs, reqq, reused, lapse, exists, file>>
  BY Kept, NotNull DEF ServerLine, Busy, history, bounds
<1>2. eof' \subseteq Clients /\ file' \in Nat \cup {NULL}
  BY <1>1, Kept DEF ServerLine, Request
<1>3. ASSUME NEW l \in {"read", "send"}, NEW r, Serving(l, sv.seq, r, sv.fds, sv.tries)
      PROVE  Saved' /\ Serves /\ Limit' = Limit
  BY <1>1, <1>3, Kept DEF Saved, read_seq, Serves, Limit, Serving
<1>4. CASE sv' = [sv EXCEPT !.pc = "read", !.req = NULL]
  <2>1. Serving("read", sv.seq, NULL, sv.fds, sv.tries)
    BY <1>4, Kept, SetPcReq DEF Points
  <2> QED
    BY <1>1, <1>2, <1>3, <2>1, ServerMove DEF Busy
<1>5. CASE sv' = [sv EXCEPT !.pc = "send"] /\ sv.req.len \notin {NULL, 0}
  <2>1. Serving("send", sv.seq, sv.req, sv.fds, sv.tries)
    BY <1>5, Kept, SetPc DEF Points
  <2>2. sv.req.len \in Nat
    BY <1>1, <1>5 DEF Request
  <2> QED
    BY <1>1, <1>2, <1>3, <2>1, <2>2, ServerMove DEF Busy
<1> QED
  BY <1>4, <1>5 DEF ServerLine

\* The client's FIFO or queue is opened, tried again or given up.
LEMMA OpenStep == ASSUME IInv, ServerOpen PROVE IInv'
<1>1. /\ sv.pc = "open" /\ sv.req \in Request /\ sv.req # NULL
      /\ UNCHANGED <<prog, cl, name, inbox, printed, reqs, reqq, reused, lapse, exists, file, eof>>
  BY Kept, NotNull DEF ServerOpen, Busy, bounds
<1>2. eof' \subseteq Clients /\ file' \in Nat \cup {NULL} /\ sv.req.len \in Nat
  BY <1>1, Kept DEF IInv, Identities
<1>3. ASSUME NEW l \in {"read", "open", "send"}, NEW r, NEW k, Serving(l, sv.seq, r, sv.fds, k)
      PROVE  Saved' /\ Serves /\ Limit' = Limit
  BY <1>1, <1>3, Kept DEF Saved, read_seq, Serves, Limit, Serving
<1>4. CASE Skip
  <2>1. Serving("read", sv.seq, NULL, sv.fds, sv.tries)
    BY <1>4, Kept, SetPcReq DEF Points, Skip
  <2> QED
    BY <1>1, <1>2, <1>3, <2>1, ServerMove DEF Busy
<1>5. CASE sv' = [sv EXCEPT !.pc = "send"]
  <2>1. Serving("send", sv.seq, sv.req, sv.fds, sv.tries)
    BY <1>5, Kept, SetPc DEF Points
  <2> QED
    BY <1>1, <1>2, <1>3, <2>1, ServerMove DEF Busy
<1>6. CASE sv.tries < MAX_RETRIES /\ sv' = [sv EXCEPT !.tries = @ + 1]
  <2>1. sv' = [sv EXCEPT !.tries = sv.tries + 1]
    BY <1>6
  <2>2. Serving("open", sv.seq, sv.req, sv.fds, sv.tries + 1)
    BY <1>1, <1>6, <2>1, Kept, SetTries
  <2> QED
    BY <1>1, <1>2, <1>3, <2>2, ServerMove DEF Busy
<1> QED
  BY <1>4, <1>5, <1>6 DEF ServerOpen

\* The number advances past the range just given.
LEMMA UpdateStep == ASSUME IInv, ServerUpdate PROVE IInv'
<1>1. /\ sv.pc = "update"
      /\ UNCHANGED <<prog, cl, name, inbox, printed, reqs, reqq, reused, lapse, exists, file, eof>>
  BY DEF ServerUpdate, history, bounds
<1>2. eof' \subseteq Clients /\ file' \in Nat \cup {NULL} /\ sv.seq + sv.req.len \in Nat
  BY <1>1, Kept DEF IInv, Identities
<1>3. PICK l \in {"trunc", "read"} : /\ Serving(l, sv.seq + sv.req.len, NULL, sv.fds, sv.tries)
                                     /\ l = "read" <=> ~prog.persist
  <2> DEFINE l == IF prog.persist THEN "trunc" ELSE "read"
  <2>1. sv' = [sv EXCEPT !.seq = sv.seq + sv.req.len, !.req = NULL, !.pc = l]
    BY DEF ServerUpdate
  <2>2. l \in {"trunc", "read"} /\ l \in Points /\ (l = "read" <=> ~prog.persist)
    BY DEF Points
  <2> HIDE DEF l
  <2>3. Serving(l, sv.seq + sv.req.len, NULL, sv.fds, sv.tries)
    BY <1>2, <2>1, <2>2, Kept, SetSeq
  <2> QED
    BY <2>2, <2>3
<1>4. Saved' /\ Serves /\ Limit' = Limit
  BY <1>1, <1>3, Kept DEF Saved, read_seq, Serves, Limit, Serving
<1> QED
  BY <1>1, <1>2, <1>3, <1>4, ServerMove DEF Busy

\* The file has the number again.
LEMMA WriteStep == ASSUME IInv, SaveWrite PROVE IInv'
<1>1. /\ sv.pc = "write" /\ file' = sv.seq
      /\ UNCHANGED <<prog, cl, name, inbox, printed, reqs, reqq, reused, lapse, exists, eof>>
  BY DEF SaveWrite, history, bounds
<1>2. eof' \subseteq Clients /\ file' \in Nat \cup {NULL} /\ file' # NULL /\ sv.req = NULL
  BY <1>1, Kept, SeqAssumption DEF Busy
<1>3. Serving("read", sv.seq, NULL, sv.fds, sv.tries)
  BY <1>2, Kept, SetPc DEF SaveWrite, Points
<1>4. Saved' /\ Serves /\ Limit' = Limit
  BY <1>1, <1>2, <1>3, Kept DEF Saved, read_seq, Serves, Limit, Serving
<1> QED
  BY <1>1, <1>2, <1>3, <1>4, ServerMove DEF Busy

\* The server ends.  With a file and nothing given since it was written, the
\* next server goes on from the same number; the one queue has no next server.
LEMMA EndStep ==
    ASSUME IInv, sv.pc # "down", NEW removed \in BOOLEAN, End(removed),
           removed => prog.handled,
           UNCHANGED <<prog, file, cl, name, inbox, printed, reqs, reused>>
    PROVE  IInv'
<1>1. Serving("down", 0, NULL, 0, 0)
  BY SetDown DEF End
<1>2. reqq' \in Seq(Request) /\ Len(reqq') <= Len(reqq) /\ Sent(reqq') \subseteq Sent(reqq)
  <2>1. CASE reqq' = reqq
    BY <2>1, Kept
  <2>2. CASE reqq' = <<>>
    BY <2>2, Kept, SentEmpty
  <2> QED
    BY <2>1, <2>2 DEF End
<1>3. Types'
  <2>1. eof' \subseteq Clients /\ file' \in Nat \cup {NULL}
    BY Kept DEF End
  <2> QED
    BY <1>1, <1>2, <2>1, Kept, ServerTypesKept DEF Serving, Busy
<1>4. InFlight' \subseteq InFlight
  BY <1>1, <1>2 DEF InFlight, Serving
<1>5. Saved'
  BY <1>1 DEF Saved, Serving
<1>6. ~lapse' => ~lapse /\ (Serves' => Serves /\ Limit' = Limit)
  <2>1. SUFFICES ASSUME ~lapse', Serves' PROVE ~lapse /\ Serves /\ Limit' = Limit
    BY DEF End
  <2>2. ~lapse /\ Serves
    BY <2>1 DEF End, Serves
  <2>3. prog.via = "svmsg" => FALSE
    <3>1. prog.handled => prog.via = "fifo"
      <4>1. prog \in AllPrograms
        BY Kept, ProgramsAssumption DEF Types, OtherTypes
      <4> QED
        BY <4>1 DEF AllPrograms, Pair, fifo_seqnum_server, fifo_seqnum_server_mod,
           fifo_seqnum_server_mod2, fifo_seqnum_server_mod3, fifo_seqnum_client_mod,
           msg_seqnum_server, pmq_seqnum_server, us_seqnum_server, is_seqnum_sv,
           is_seqnum_sv_mod, is_seqnum_sv_mod2
    <3>2. prog.via = "svmsg" => exists /\ ~removed
      BY <3>1, Kept DEF Saved
    <3> QED
      BY <1>1, <2>1, <3>2 DEF End, Serves, Serving
  <2>4. prog.persist /\ sv.pc \notin {"update", "trunc", "write"}
    BY <2>1, <2>3 DEF End
  <2>5. sv.seq = read_seq /\ Limit = sv.seq
    BY <2>4, Kept DEF Saved, Points, Limit
  <2> QED
    BY <1>1, <2>2, <2>5 DEF Limit, Serving, read_seq
<1> QED
  BY <1>1, <1>2, <1>3, <1>4, <1>5, <1>6, ServerFrame DEF Serving

\* A signal ends the server, handled or not.
LEMMA KilledStep == ASSUME IInv, ServerKilled \/ handler PROVE IInv'
  BY EndStep DEF ServerKilled, handler

\* save_seq() truncates the file, or finds no descriptor and exits.
LEMMA TruncStep == ASSUME IInv, SaveOpen PROVE IInv'
<1>1. /\ sv.pc = "trunc" /\ sv.req = NULL
      /\ UNCHANGED <<prog, cl, name, inbox, printed, reqs, reused>>
  BY Kept DEF SaveOpen, Busy
<1>2. CASE sv.fds = NOFILE /\ End(FALSE) /\ UNCHANGED file
  BY <1>1, <1>2, EndStep
<1>3. CASE /\ sv.fds < NOFILE /\ file' = NULL
           /\ sv' = [sv EXCEPT !.pc = "write", !.fds = @ + 1]
           /\ UNCHANGED <<exists, reqq, eof, downs, lapse>>
  <2>1. sv' = [sv EXCEPT !.pc = "write", !.fds = sv.fds + 1]
    BY <1>3
  <2>2. Serving("write", sv.seq, NULL, sv.fds + 1, sv.tries)
    BY <1>1, <1>3, <2>1, Kept, SetFds DEF Points
  <2>3. Saved' /\ Serves /\ Limit' = Limit
    BY <1>1, <1>3, <2>2, Kept DEF Saved, read_seq, Serves, Limit, Serving
  <2>4. eof' \subseteq Clients /\ file' \in Nat \cup {NULL}
    BY <1>3, Kept
  <2> QED
    BY <1>1, <1>3, <2>2, <2>3, <2>4, ServerMove DEF Busy
<1> QED
  BY <1>2, <1>3 DEF SaveOpen

\* The next number is a number, and so is what was given.
LEMMA GivenTypes == ASSUME IInv PROVE Limit \in Nat /\ Given \subseteq Answer
<1>1. Limit \in Nat
  BY Kept, ReadSeqType DEF Limit, IInv, Identities
<1> QED
  BY <1>1, Kept DEF Given, Types, OtherTypes

\* A range from the next number on is apart from all that were given before.
LEMMA ApartGrows ==
    ASSUME IInv, Apart, Serves, NEW x \in Answer, x.start = Limit,
           Limit' = Limit + x.len, Given' \subseteq Given \cup {x}
    PROVE  Apart'
<1>1. Limit \in Nat /\ Given \subseteq Answer /\ x.len \in Nat /\ x.start \in Nat
  BY GivenTypes DEF Answer
<1>2. \A r \in Given : r.start \in Nat /\ r.len \in Nat /\ r.start + r.len <= Limit
  BY <1>1 DEF Answer, Apart
<1>3. \A r \in Given' : r.start + r.len <= Limit'
  BY <1>1, <1>2
<1>4. \A r \in Given : Numbers(r) \cap Numbers(x) = {}
  BY <1>1, <1>2 DEF Numbers
<1>5. \A r, q \in Given' : r # q => Numbers(r) \cap Numbers(q) = {}
  BY <1>4 DEF Apart
<1> QED
  BY <1>3, <1>5 DEF Apart, Numbers

\* An answer is put into the inbox of c.
LEMMA InboxAppend ==
    ASSUME IInv, NEW c \in Clients, NEW n \in Nat,
           inbox' = [inbox EXCEPT ![c] = Append(inbox[c], n)]
    PROVE  /\ inbox' \in [Clients -> Seq(Nat)]
           /\ Sent(inbox'[c]) = Sent(inbox[c]) \cup {n}
           /\ \A d \in Clients \ {c} : inbox'[d] = inbox[d]
           /\ \E x : x \notin Slots /\ Slots' = Slots \cup {x}
<1>1. inbox \in [Clients -> Seq(Nat)] /\ inbox[c] \in Seq(Nat)
  BY DEF IInv, Types, ClientTypes
<1>2. /\ Append(inbox[c], n) \in Seq(Nat) /\ Len(Append(inbox[c], n)) = Len(inbox[c]) + 1
      /\ Len(inbox[c]) \in Nat /\ Sent(Append(inbox[c], n)) = Sent(inbox[c]) \cup {n}
  BY <1>1, SentAppend
<1>3. inbox'[c] = Append(inbox[c], n) /\ \A d \in Clients \ {c} : inbox'[d] = inbox[d]
  BY <1>1
<1>4. inbox' \in [Clients -> Seq(Nat)]
  BY <1>1, <1>2
<1> DEFINE k == Len(inbox[c]) + 1
           x == <<c, k>>
<1>5. x \notin Slots
  <2>1. k \notin 1 .. Len(inbox[c])
    BY <1>2
  <2> QED
    BY <2>1 DEF Slots
<1>6. 1 .. Len(inbox'[c]) = (1 .. Len(inbox[c])) \cup {k}
  BY <1>2, <1>3
<1>7. Slots' = Slots \cup {x}
  <2>1. \A d \in Clients \ {c} : Len(inbox'[d]) = Len(inbox[d])
    BY <1>3
  <2> HIDE DEF k
  <2>2. \A y : y \in Slots' <=> \E d \in Clients : y \in {d} \X (1 .. Len(inbox'[d]))
    BY DEF Slots
  <2>3. \A y : y \in Slots <=> \E d \in Clients : y \in {d} \X (1 .. Len(inbox[d]))
    BY DEF Slots
  <2>4. {c} \X (1 .. Len(inbox'[c])) = ({c} \X (1 .. Len(inbox[c]))) \cup {x}
    BY <1>6
  <2> QED
    BY <2>1, <2>2, <2>3, <2>4
<1> QED
  BY <1>2, <1>3, <1>4, <1>5, <1>7

\* The answer.  The number it carries is above all that were given, and it goes
\* to the client that asked.
LEMMA SendStep == ASSUME IInv, ServerSend PROVE IInv'
<1>1. /\ sv.pc = "send" /\ sv.req \in Request /\ sv.req # NULL /\ sv.req.len \in Nat
      /\ UNCHANGED <<prog, file, cl, name, printed, reqs, reused>>
  BY Kept, NotNull DEF ServerSend, Busy, IInv, Identities
<1>2. CASE End(FALSE) /\ UNCHANGED inbox
  BY <1>1, <1>2, EndStep
<1> DEFINE c == sv.req.pid
           x == [id |-> sv.req.id, start |-> sv.seq, len |-> sv.req.len]
<1>3. ASSUME sv' = [sv EXCEPT !.pc = "update"], UNCHANGED <<exists, reqq, eof, downs, lapse>>,
             inbox' \in [Clients -> Seq(Nat)], Capacity',
             \A d \in Clients \ {c} : inbox'[d] = inbox[d],
             Sent(inbox'[c]) \subseteq Sent(inbox[c]) \cup {sv.seq}
      PROVE  IInv'
  <2>1. Serving("update", sv.seq, sv.req, sv.fds, sv.tries)
    BY <1>3, Kept, SetPc DEF Points
  <2>2. c \in Clients /\ x \in Answer /\ sv.req \in InFlight
    BY <1>1, Kept DEF Request, Answer, InFlight
  <2>3. Types'
    BY <1>1, <1>3, <2>1, Kept DEF Types, ServerTypes, ClientTypes, OtherTypes, Serving, Busy
  <2>4. InFlight' = InFlight /\ \A d \in Clients : Live(d)' = Live(d)
    BY <1>1, <1>3, <2>1 DEF InFlight, Serving, Live
  <2>5. Identities'
    BY <1>1, <2>1, <2>4 DEF IInv, Identities, Matches, Sock, Serving
  <2>6. Owned'
    BY <1>1, <2>4 DEF IInv, Owned
  <2>7. Saved'
    BY <1>1, <1>3, <2>1, Kept DEF Saved, Serving
  <2>8. Serves /\ Limit = sv.seq /\ Limit' = Limit + x.len
    BY <1>1, <2>1 DEF Serves, Limit, Serving
  <2>9. ASSUME ~lapse', ~reused' PROVE Apart'
    <3>1. Live(c) => cl[c].id = sv.req.id
      BY <1>1, <2>2, <2>9 DEF IInv, Owned
    <3>2. Live(c) => cl[c].len = sv.req.len
      <4>1. Live(c) => Matches(sv.req, cl[c], c)
        BY <2>2 DEF IInv, Identities
      <4> QED
        BY <1>1, <3>1, <4>1, SeqAssumption DEF Matches
    <3>3. Given' \subseteq Given \cup {x}
      <4> SUFFICES ASSUME NEW r \in Given' PROVE r \in Given \cup {x}
        OBVIOUS
      <4>1. CASE r \in printed
        BY <4>1 DEF Given
      <4>2. ASSUME NEW d \in Clients, r \in Answer, Live(d), r.id = cl[d].id, r.len = cl[d].len,
                   r.start \in Sent(inbox'[d])
            PROVE  r \in Given \cup {x}
        <5>1. CASE r.start \in Sent(inbox[d])
          BY <4>2, <5>1 DEF Given
        <5>2. CASE d = c /\ r.start = sv.seq
          <6>1. r.id = x.id /\ r.len = x.len /\ r.start = x.start
            BY <3>1, <3>2, <4>2, <5>2
          <6>2. r = x
            BY <2>2, <4>2, <6>1 DEF Answer
          <6> QED
            BY <6>2
        <5> QED
          BY <1>3, <4>2, <5>1, <5>2
      <4> QED
        BY <1>1, <2>4, <4>1, <4>2 DEF Given
    <3>4. Apart
      BY <1>1, <1>3, <2>9 DEF IInv
    <3> HIDE DEF x
    <3>5. x.start = Limit
      BY <2>8 DEF x
    <3> QED
      BY <2>2, <2>8, <3>3, <3>4, <3>5, ApartGrows
  <2> QED
    BY <1>3, <2>3, <2>5, <2>6, <2>7, <2>9 DEF IInv
<1>4. CASE /\ sv' = [sv EXCEPT !.pc = "update"]
           /\ UNCHANGED <<exists, reqq, eof, inbox, downs, lapse>>
  <2>1. Capacity'
    <3>1. Slots' = Slots /\ Queued' = Queued
      BY <1>4 DEF Slots, Queued
    <3> QED
      BY <1>1, <3>1 DEF IInv, Capacity
  <2>2. inbox' \in [Clients -> Seq(Nat)]
    BY <1>4, Kept DEF Types, ClientTypes
  <2> QED
    BY <1>3, <1>4, <2>1, <2>2
<1>5. CASE /\ prog.via = "svmsg" => Queued < QCAP
           /\ inbox' = [inbox EXCEPT ![c] = Append(@, sv.seq)]
           /\ sv' = [sv EXCEPT !.pc = "update"]
           /\ UNCHANGED <<exists, reqq, eof, downs, lapse>>
  <2>1. c \in Clients /\ sv.seq \in Nat
    BY <1>1, Kept DEF Request
  <2> HIDE DEF c
  <2>2. inbox' = [inbox EXCEPT ![c] = Append(inbox[c], sv.seq)]
    BY <1>5
  <2>3. /\ inbox' \in [Clients -> Seq(Nat)]
        /\ Sent(inbox'[c]) = Sent(inbox[c]) \cup {sv.seq}
        /\ \A d \in Clients \ {c} : inbox'[d] = inbox[d]
        /\ \E y : y \notin Slots /\ Slots' = Slots \cup {y}
    BY <2>1, <2>2, InboxAppend
  <2>4. Capacity'
    BY <1>1, <1>5, <2>3, Kept, CapacityAnswer DEF IInv
  <2> QED
    BY <1>3, <1>5, <2>3, <2>4
<1> QED
  BY <1>2, <1>4, <1>5 DEF ServerSend
-----------------------------------------------------------------------------
(* The clients, step by step.                                              *)

\* The types when the server's state, the queue of requests and the state of
\* the clients change.
LEMMA ClientTypesKept ==
    ASSUME Types, UNCHANGED <<prog, file>>, ServerTypes', reqq' \in Seq(Request),
           cl' \in [Clients -> Client], inbox' \in [Clients -> Seq(Nat)],
           name' \subseteq Clients, eof' \subseteq Clients, printed' \subseteq Answer,
           reqs' \in Nat
    PROVE  Types'
  BY DEF Types, ClientTypes, OtherTypes

\* Shorter inboxes take no more places.
LEMMA SlotsShrink ==
    ASSUME inbox \in [Clients -> Seq(Nat)], inbox' \in [Clients -> Seq(Nat)],
           \A d \in Clients : Len(inbox'[d]) <= Len(inbox[d])
    PROVE  Slots' \subseteq Slots
<1>1. \A d \in Clients : Len(inbox'[d]) \in Nat /\ Len(inbox[d]) \in Nat
  OBVIOUS
<1>2. \A d \in Clients : 1 .. Len(inbox'[d]) \subseteq 1 .. Len(inbox[d])
  BY <1>1
<1>3. \A d \in Clients : {d} \X (1 .. Len(inbox'[d])) \subseteq {d} \X (1 .. Len(inbox[d]))
  BY <1>2
<1> QED
  BY <1>3 DEF Slots

\* Saved says nothing of clients.
LEMMA SavedKept ==
    ASSUME Saved, UNCHANGED <<prog, file, exists>>, sv'.pc = sv.pc, sv'.seq = sv.seq
    PROVE  Saved' /\ Serves' = Serves
  BY DEF Saved, Serves, read_seq

\* A client exits or is killed.  What it printed had been given to it.
LEMMA ClientGone ==
    ASSUME IInv, NEW c \in Clients,
           UNCHANGED <<prog, sv, exists, file, eof, lapse, reused, reqs>>,
           cl' = [cl EXCEPT ![c] = Gone], name' \subseteq Clients,
           reqq' \in {reqq, <<>>}, inbox' \in [Clients -> Seq(Nat)],
           \A d \in Clients : /\ Len(inbox'[d]) <= Len(inbox[d])
                              /\ Sent(inbox'[d]) \subseteq Sent(inbox[d]),
           printed' \subseteq Given
    PROVE  IInv'
<1>1. cl \in [Clients -> Client] /\ Gone \in Client /\ Gone.pc = "none" /\ Gone.id \in Nat
  BY DEF IInv, Types, ClientTypes, Client, Gone
<1>2. /\ cl' \in [Clients -> Client] /\ cl'[c].pc = "none"
      /\ \A d \in Clients : d # c => cl'[d] = cl[d]
  BY <1>1
<1>3. \A d \in Clients : Live(d)' => Live(d) /\ cl'[d] = cl[d]
  BY <1>2 DEF Live
<1>4. /\ reqq' \in Seq(Request) /\ Len(reqq') <= Len(reqq) /\ Sent(reqq') \subseteq Sent(reqq)
  <2>1. CASE reqq' = reqq
    BY <2>1, Kept
  <2>2. CASE reqq' = <<>>
    BY <2>2, Kept, SentEmpty
  <2> QED
    BY <2>1, <2>2
<1>5. InFlight' \subseteq InFlight
  BY <1>4 DEF InFlight
<1>6. printed' \subseteq Answer
  BY GivenTypes
<1>7. Types'
  <2>1. ServerTypes' /\ eof' \subseteq Clients /\ reqs' \in Nat
    BY DEF IInv, Types, ServerTypes, ClientTypes, OtherTypes
  <2> QED
    BY <1>2, <1>4, <1>6, <2>1, Kept, ClientTypesKept
<1>8. Capacity'
  <2>1. Slots' \subseteq Slots
    BY SlotsShrink DEF IInv, Types, ClientTypes
  <2> QED
    BY <1>4, <1>7, <2>1, CapacityKept DEF IInv
<1>9. Identities'
  BY <1>3, <1>5 DEF IInv, Identities, Matches, Sock
<1>10. Owned'
  BY <1>3, <1>5 DEF IInv, Owned
<1>11. Saved' /\ Serves' = Serves /\ Limit' = Limit
  BY Kept, SavedKept DEF Limit, read_seq
<1>12. Given' \subseteq Given
  <2>1. \A r \in Given' : r \in printed' \/ r \in Given
    BY <1>3 DEF Given
  <2> QED
    BY <2>1
<1>13. ~lapse' /\ ~reused' => Apart'
  BY <1>11, <1>12, ApartKept DEF IInv
<1> QED
  BY <1>7, <1>8, <1>9, <1>10, <1>11, <1>13 DEF IInv

\* An inbox that is emptied.
LEMMA InboxEmptied ==
    ASSUME IInv, NEW c \in Clients, inbox' \in {inbox, [inbox EXCEPT ![c] = <<>>]}
    PROVE  /\ inbox' \in [Clients -> Seq(Nat)]
           /\ \A d \in Clients : /\ Len(inbox'[d]) <= Len(inbox[d])
                                 /\ Sent(inbox'[d]) \subseteq Sent(inbox[d])
<1>1. inbox \in [Clients -> Seq(Nat)] /\ \A d \in Clients : Len(inbox[d]) \in Nat
  BY DEF IInv, Types, ClientTypes
<1>2. CASE inbox' = inbox
  BY <1>1, <1>2
<1>3. CASE inbox' = [inbox EXCEPT ![c] = <<>>]
  <2>1. \A d \in Clients : inbox'[d] = inbox[d] \/ inbox'[d] = <<>>
    BY <1>1, <1>3
  <2>2. inbox' \in [Clients -> Seq(Nat)]
    BY <1>1, <1>3, SentEmpty
  <2> QED
    BY <1>1, <2>1, <2>2, SentEmpty
<1> QED
  BY <1>2, <1>3

\* A client exits without an answer.
LEMMA LeaveStep ==
    ASSUME IInv, NEW c \in Clients, ClientRefused(c) \/ ClientEof(c) \/ ClientDies(c)
    PROVE  IInv'
<1>1. /\ UNCHANGED <<prog, sv, exists, file, eof, lapse, reused, reqs, printed>>
      /\ cl' = [cl EXCEPT ![c] = Gone]
  BY DEF ClientRefused, ClientEof, ClientDies, Leave, history, bounds
<1>2. reqq' \in {reqq, <<>>} /\ inbox' \in {inbox, [inbox EXCEPT ![c] = <<>>]}
  BY DEF ClientRefused, ClientEof, ClientDies, Leave, Held
<1>3. name' \subseteq Clients
  BY DEF ClientRefused, ClientEof, ClientDies, Leave, IInv, Types, ClientTypes
<1>4. printed' \subseteq Given
  BY <1>1 DEF Given
<1> QED
  BY <1>1, <1>2, <1>3, <1>4, InboxEmptied, ClientGone

\* A client prints the answer and exits.
LEMMA ReceiveStep == ASSUME IInv, NEW c \in Clients, ClientReceive(c) PROVE IInv'
<1>1. /\ UNCHANGED <<prog, sv, exists, file, eof, lapse, reused, reqs>>
      /\ cl' = [cl EXCEPT ![c] = Gone] /\ reqq' \in {reqq, <<>>} /\ inbox[c] # <<>>
  BY DEF ClientReceive, Held, bounds
<1>2. name' \subseteq Clients /\ inbox \in [Clients -> Seq(Nat)] /\ inbox[c] \in Seq(Nat)
  BY DEF ClientReceive, IInv, Types, ClientTypes
<1>3. /\ Head(inbox[c]) \in Nat /\ Head(inbox[c]) \in Sent(inbox[c]) /\ Tail(inbox[c]) \in Seq(Nat)
      /\ Len(Tail(inbox[c])) <= Len(inbox[c]) /\ Sent(Tail(inbox[c])) \subseteq Sent(inbox[c])
  BY <1>1, <1>2, SentTail
<1>4. /\ inbox' \in [Clients -> Seq(Nat)]
      /\ \A d \in Clients : /\ Len(inbox'[d]) <= Len(inbox[d])
                            /\ Sent(inbox'[d]) \subseteq Sent(inbox[d])
  <2>1. CASE inbox' = [inbox EXCEPT ![c] = Tail(inbox[c])]
    <3>1. inbox'[c] = Tail(inbox[c]) /\ \A d \in Clients : d # c => inbox'[d] = inbox[d]
      BY <1>2, <2>1
    <3>2. inbox' \in [Clients -> Seq(Nat)] /\ \A d \in Clients : Len(inbox[d]) \in Nat
      BY <1>2, <1>3, <2>1
    <3>3. ASSUME NEW d \in Clients
          PROVE  Len(inbox'[d]) <= Len(inbox[d]) /\ Sent(inbox'[d]) \subseteq Sent(inbox[d])
      <4>1. CASE d = c
        BY <1>3, <3>1, <4>1
      <4>2. CASE d # c
        BY <3>1, <3>2, <4>2
      <4> QED
        BY <4>1, <4>2
    <3> QED
      BY <3>2, <3>3
  <2>2. CASE inbox' = [inbox EXCEPT ![c] = <<>>]
    BY <2>2, InboxEmptied
  <2>3. CASE prog.via = "svmsg"
    <3>1. inbox' = [inbox EXCEPT ![c] = Tail(inbox[c])]
      BY <2>3 DEF ClientReceive
    <3> QED
      BY <2>1, <3>1
  <2>4. CASE prog.via # "svmsg"
    <3>1. inbox' = [inbox EXCEPT ![c] = <<>>]
      BY <2>4 DEF ClientReceive
    <3> QED
      BY <2>2, <3>1
  <2> QED
    BY <2>3, <2>4
<1>5. Live(c) /\ cl[c].id \in Nat /\ cl[c].len \in Nat
  <2>1. Live(c) /\ cl[c] \in Client
    BY DEF ClientReceive, CanRead, Live, IInv, Types, ClientTypes
  <2> QED
    BY <2>1 DEF IInv, Identities, Client
<1> DEFINE x == [id |-> cl[c].id, start |-> Head(inbox[c]), len |-> cl[c].len]
<1>6. x \in Given
  BY <1>3, <1>5 DEF Given, Answer
<1>7. printed' \subseteq Given
  <2>1. printed' = printed \cup {x}
    BY DEF ClientReceive
  <2> HIDE DEF x
  <2>2. printed \subseteq Given
    BY DEF Given
  <2> QED
    BY <1>6, <2>1, <2>2
<1> QED
  BY <1>1, <1>2, <1>4, <1>7, ClientGone

\* What a client's move to another point of its program does to it.
Moves(c, p) == /\ cl' \in [Clients -> Client] /\ cl'[c].pc = p
               /\ \A d \in Clients : /\ cl'[d].id = cl[d].id /\ cl'[d].len = cl[d].len
                                     /\ d # c => cl'[d].pc = cl[d].pc

\* cl is written at one field of one client.
LEMMA MovesFields ==
    ASSUME IInv, NEW c \in Clients, NEW p \in {"conn", "sent", "opening"},
           cl' = [cl EXCEPT ![c].pc = p]
    PROVE  Moves(c, p)
<1>1. cl \in [Clients -> Client] /\ cl[c] \in Client
  BY DEF IInv, Types, ClientTypes
<1> DEFINE k == [cl[c] EXCEPT !.pc = p]
<1>2. k \in Client /\ k.pc = p /\ k.id = cl[c].id /\ k.len = cl[c].len
  BY <1>1 DEF Client
<1>3. cl' = [cl EXCEPT ![c] = k]
  OBVIOUS
<1> HIDE DEF k
<1>4. cl' \in [Clients -> Client] /\ cl'[c] = k /\ \A d \in Clients : d # c => cl'[d] = cl[d]
  BY <1>1, <1>2, <1>3
<1> QED
  BY <1>2, <1>4 DEF Moves

\* A client that is there moves and gets nothing.
LEMMA MoveFrame ==
    ASSUME IInv, NEW c \in Clients, NEW p \in {"conn", "sent", "opening"}, Live(c), Moves(c, p),
           UNCHANGED <<prog, exists, file, name, inbox, eof, lapse, reused, printed, reqs>>,
           ServerTypes', sv'.pc = sv.pc, sv'.seq = sv.seq, Limit' = Limit,
           reqq' \in Seq(Request), Capacity', Identities', Owned'
    PROVE  IInv'
<1>1. Types'
  BY Kept, ClientTypesKept DEF Moves, IInv, Types, ClientTypes, OtherTypes
<1>2. Saved' /\ Serves' = Serves
  BY Kept, SavedKept
<1>3. Given' = Given
  <2>1. \A d \in Clients : Live(d)' = Live(d)
    BY DEF Moves, Live
  <2> QED
    BY <2>1 DEF Given, Moves
<1>4. ~lapse' /\ ~reused' => Apart'
  BY <1>2, <1>3, ApartKept DEF IInv
<1> QED
  BY <1>1, <1>2, <1>4 DEF IInv

\* A client waits for the server to open its FIFO.
LEMMA WaitStep == ASSUME IInv, NEW c \in Clients, ClientOpen(c) PROVE IInv'
<1>1. /\ cl[c].pc = "sent" /\ cl' = [cl EXCEPT ![c].pc = "opening"]
      /\ UNCHANGED <<prog, sv, exists, file, reqq, name, inbox, eof, lapse, reused, printed, reqs>>
  BY DEF ClientOpen, history, bounds
<1>2. Moves(c, "opening") /\ Live(c)
  BY <1>1, MovesFields DEF Live
<1>3. /\ InFlight' = InFlight /\ Limit' = Limit /\ Slots' = Slots
      /\ \A d \in Clients : Live(d)' = Live(d)
  BY <1>1, <1>2 DEF InFlight, Limit, Slots, read_seq, Moves, Live
<1>4. Identities'
  BY <1>1, <1>2, <1>3 DEF IInv, Identities, Matches, Sock, Moves
<1>5. Owned'
  BY <1>1, <1>2, <1>3 DEF IInv, Owned, Moves
<1>6. Capacity'
  BY <1>1, <1>3 DEF IInv, Capacity, Queued
<1>7. ServerTypes'
  BY <1>1 DEF IInv, Types, ServerTypes
<1> QED
  BY <1>1, <1>2, <1>3, <1>4, <1>5, <1>6, <1>7, Kept, MoveFrame

\* A request is added to the queue.
LEMMA RequestAdded ==
    ASSUME IInv, NEW r \in Request, reqq' = Append(reqq, r), UNCHANGED sv
    PROVE  /\ reqq' \in Seq(Request) /\ Len(reqq') = Len(reqq) + 1
           /\ InFlight' = InFlight \cup {r}
<1>1. /\ reqq' \in Seq(Request) /\ Len(reqq') = Len(reqq) + 1 /\ Sent(reqq') = Sent(reqq) \cup {r}
  BY Kept, SentAppend
<1> QED
  BY <1>1 DEF InFlight

\* A client asks or connects: its first request is the only one with its id.
LEMMA AskStep ==
    ASSUME IInv, NEW c \in Clients, NEW p \in {"conn", "sent"}, NEW n \in {NULL, cl[c].len},
           cl[c].pc = "start", cl' = [cl EXCEPT ![c].pc = p],
           reqq' = Append(reqq, [pid |-> c, id |-> cl[c].id, len |-> n]),
           p = "conn" => n = NULL, ~Sock => n # NULL,
           prog.via = "svmsg" => Queued < QCAP,
           UNCHANGED <<prog, sv, exists, file, name, inbox, eof, lapse, reused, printed, reqs>>
    PROVE  IInv'
<1>1. Moves(c, p) /\ Live(c)
  BY MovesFields DEF Live
<1> DEFINE r == [pid |-> c, id |-> cl[c].id, len |-> n]
<1>2. cl[c].id \in 1 .. reqs /\ cl[c].len \in Nat /\ cl[c].id \in Nat /\ reqs \in Nat
  BY <1>1 DEF IInv, Identities, Types, OtherTypes, ClientTypes, Client
<1>3. r \in Request /\ r.pid = c /\ r.id = cl[c].id /\ r.len = n
  BY <1>2 DEF Request
<1>4. reqq' = Append(reqq, r)
  OBVIOUS
<1> HIDE DEF r
<1>5. reqq' \in Seq(Request) /\ Len(reqq') = Len(reqq) + 1 /\ InFlight' = InFlight \cup {r}
  BY <1>3, <1>4, RequestAdded
<1>6. Limit' = Limit /\ Slots' = Slots /\ \A d \in Clients : Live(d)' = Live(d)
  BY <1>1 DEF Limit, Slots, read_seq, Moves, Live
<1>7. Types'
  <2>1. ServerTypes'
    BY DEF IInv, Types, ServerTypes
  <2> QED
    BY <1>1, <1>5, <2>1, Kept, ClientTypesKept DEF Moves, IInv, Types, ClientTypes, OtherTypes
<1>8. Capacity'
  BY <1>5, <1>6, <1>7, Kept, CapacityKept DEF IInv
<1>9. Identities'
  <2>1. \A d \in Clients : Live(d)' => cl'[d].id \in 1 .. reqs' /\ cl'[d].len \in Nat
    BY <1>1, <1>6 DEF IInv, Identities, Moves
  <2>2. \A d, e \in Clients : Live(d)' /\ Live(e)' /\ cl'[d].id = cl'[e].id => d = e
    BY <1>1, <1>6 DEF IInv, Identities, Moves
  <2>3. \A q \in InFlight : q.id # cl[c].id
    BY <1>1 DEF IInv, Identities, Matches
  <2>4. \A q \in InFlight : \A d \in Clients : Live(d)' => Matches(q, cl'[d], d)
    BY <1>1, <1>6, <2>3 DEF IInv, Identities, Matches, Moves
  <2>5. \A d \in Clients : Live(d)' => Matches(r, cl'[d], d)
    <3>1. \A d \in Clients : Live(d)' /\ cl'[d].id = r.id => d = c
      BY <1>1, <1>3, <1>6 DEF IInv, Identities, Moves
    <3> QED
      BY <1>1, <1>3, <3>1 DEF Matches, Moves
  <2>6. \A q \in InFlight' : /\ q.id \in 1 .. reqs'
                             /\ \A d \in Clients : Live(d)' => Matches(q, cl'[d], d)
                             /\ ~Sock' => q.len # NULL
    BY <1>2, <1>3, <1>5, <2>4, <2>5 DEF IInv, Identities, Sock
  <2> QED
    BY <2>1, <2>2, <2>6 DEF IInv, Identities, Matches
<1>10. Owned'
  BY <1>1, <1>3, <1>5, <1>6 DEF IInv, Owned, Moves
<1> QED
  BY <1>1, <1>5, <1>6, <1>7, <1>8, <1>9, <1>10, MoveFrame DEF Types

\* What a client writes on its connection.
Written(r, k) == IF r.id = k.id THEN [r EXCEPT !.len = k.len] ELSE r

\* Only the length of the client's own request is written.
LEMMA WrittenFields ==
    ASSUME NEW r \in Request, NEW k, k.len \in Nat
    PROVE  /\ Written(r, k) \in Request /\ Written(r, k).id = r.id /\ Written(r, k).pid = r.pid
           /\ Written(r, k).len = IF r.id = k.id THEN k.len ELSE r.len
           /\ r.id # k.id => Written(r, k) = r
  BY DEF Request, Written

\* The request is written: the connection may wait in the backlog or be the one
\* that the server works on, which waits for the line then.
LEMMA LineWritten ==
    ASSUME IInv, NEW c \in Clients, Sock, cl[c].pc = "conn", ClientSend(c)
    PROVE  IInv'
<1>1. /\ UNCHANGED <<prog, exists, file, name, inbox, eof, lapse, reused, printed, reqs>>
      /\ cl' = [cl EXCEPT ![c].pc = "sent"]
  BY DEF ClientSend, history, bounds
<1>2. Moves(c, "sent") /\ Live(c)
  BY <1>1, MovesFields DEF Live
<1> DEFINE k == cl[c]
<1>3. /\ reqq' = [i \in 1 .. Len(reqq) |-> Written(reqq[i], k)]
      /\ sv' = IF sv.req # NULL /\ sv.req.id = k.id THEN [sv EXCEPT !.req.len = k.len] ELSE sv
  BY DEF ClientSend, Written
<1>4. k.len \in Nat /\ reqq \in Seq(Request) /\ Len(reqq) \in Nat
      /\ \A i \in 1 .. Len(reqq) : reqq[i] \in Request
  BY <1>2, Kept DEF IInv, Identities
<1> HIDE DEF k
<1>5. \A i \in 1 .. Len(reqq) : Written(reqq[i], k) \in Request
  BY <1>4, WrittenFields
<1>6. reqq' \in Seq(Request) /\ Len(reqq') = Len(reqq)
      /\ \A i \in 1 .. Len(reqq) : reqq'[i] = Written(reqq[i], k)
  BY <1>3, <1>4, <1>5
<1>7. /\ sv' \in Server /\ sv'.pc = sv.pc /\ sv'.seq = sv.seq
      /\ sv'.req = IF sv.req # NULL THEN Written(sv.req, k) ELSE NULL
  <2>1. CASE sv.req # NULL /\ sv.req.id = k.id
    <3>1. sv.req \in Request /\ Written(sv.req, k) = [sv.req EXCEPT !.len = k.len]
          /\ Written(sv.req, k) \in Request
      BY <1>4, <2>1, Kept, WrittenFields DEF Written
    <3>2. sv' = [sv EXCEPT !.req = Written(sv.req, k)]
      BY <1>3, <2>1, <3>1
    <3> QED
      BY <2>1, <3>1, <3>2, Kept DEF Server
  <2>2. CASE ~(sv.req # NULL /\ sv.req.id = k.id)
    <3>1. sv' = sv
      BY <1>3, <2>2
    <3> QED
      BY <2>2, <3>1, Kept DEF Written
  <2> QED
    BY <2>1, <2>2
<1>8. ServerTypes'
  <2>1. sv.req # NULL => sv'.req # NULL
    BY <1>4, <1>7, Kept, NotNull, WrittenFields
  <2> QED
    BY <1>7, <2>1, Kept DEF ServerTypes
<1>9. \A q \in InFlight' : \E r \in InFlight : r \in Request /\ q = Written(r, k)
  <2>1. ASSUME NEW q \in InFlight' PROVE q \in Sent(reqq') \/ (q = sv'.req /\ q # NULL)
    BY <2>1 DEF InFlight
  <2>2. ASSUME NEW q \in Sent(reqq') PROVE \E r \in Sent(reqq) : r \in Request /\ q = Written(r, k)
    BY <1>4, <1>6, <2>2 DEF Sent
  <2>3. ASSUME sv'.req # NULL
        PROVE  sv.req \in InFlight /\ sv.req \in Request /\ sv'.req = Written(sv.req, k)
    BY <1>7, <2>3, Kept DEF InFlight
  <2> QED
    BY <2>1, <2>2, <2>3 DEF InFlight
<1>10. \A r \in InFlight : \A d \in Clients :
          Live(d) => Matches(r, cl[d], d)
  BY DEF IInv, Identities
<1>11. \A d \in Clients : Live(d)' = Live(d) /\ (Live(d) /\ cl[d].id = k.id => d = c)
  BY <1>2 DEF Moves, Live, IInv, Identities, k
<1>12. \A q \in InFlight' :
          /\ q.id \in 1 .. reqs'
          /\ \A d \in Clients : Live(d)' => Matches(q, cl'[d], d)
          /\ ~reused' => \A d \in Clients : Live(d)' /\ q.pid = d => q.id = cl'[d].id
  <2> SUFFICES ASSUME NEW q \in InFlight'
               PROVE  /\ q.id \in 1 .. reqs'
                      /\ \A d \in Clients : Live(d)' => Matches(q, cl'[d], d)
                      /\ ~reused' => \A d \in Clients : Live(d)' /\ q.pid = d => q.id = cl'[d].id
    OBVIOUS
  <2>1. PICK r \in InFlight : r \in Request /\ q = Written(r, k)
    BY <1>9
  <2>2. /\ q.id = r.id /\ q.pid = r.pid /\ q.len = IF r.id = k.id THEN k.len ELSE r.len
    BY <1>4, <2>1, WrittenFields
  <2>3. q.id \in 1 .. reqs'
    BY <1>1, <2>2 DEF IInv, Identities
  <2>4. ASSUME NEW d \in Clients, Live(d) PROVE Matches(q, cl'[d], d)
    <3>1. Matches(r, cl[d], d)
      BY <1>10, <2>4
    <3>2. CASE d = c
      BY <1>2, <2>2, <3>1, <3>2 DEF Matches, Moves, k
    <3>3. CASE d # c
      <4>1. cl[d].id # k.id
        BY <1>11, <2>4, <3>3
      <4>2. cl'[d].id = cl[d].id /\ cl'[d].len = cl[d].len /\ cl'[d].pc = cl[d].pc
        BY <1>2, <3>3 DEF Moves
      <4> QED
        BY <2>2, <3>1, <4>1, <4>2 DEF Matches
    <3> QED
      BY <3>2, <3>3
  <2>5. ~reused' => \A d \in Clients : Live(d) /\ q.pid = d => q.id = cl'[d].id
    <3>1. ~reused' => \A d \in Clients : Live(d) /\ r.pid = d => r.id = cl[d].id
      BY <1>1, <2>1 DEF IInv, Owned
    <3>2. \A d \in Clients : cl'[d].id = cl[d].id
      BY <1>2 DEF Moves
    <3> QED
      BY <2>2, <3>1, <3>2
  <2> QED
    BY <1>11, <2>3, <2>4, <2>5
<1>13. sv.pc \in {"open", "send", "update"} => sv'.req = sv.req /\ sv.req.len \in Nat
  <2> SUFFICES ASSUME sv.pc \in {"open", "send", "update"}
               PROVE  sv'.req = sv.req /\ sv.req.len \in Nat
    OBVIOUS
  <2>1. sv.req \in Request /\ sv.req # NULL /\ sv.req.len \in Nat /\ sv.req \in InFlight
    BY Kept DEF Busy, InFlight, IInv, Identities
  <2>2. sv.req.id # k.id
    BY <1>2, <1>10, <2>1, SeqAssumption DEF Matches, k
  <2> QED
    BY <1>4, <1>7, <2>1, <2>2, WrittenFields
<1>14. Identities'
  <2>1. \A d \in Clients : Live(d)' => cl'[d].id \in 1 .. reqs' /\ cl'[d].len \in Nat
    BY <1>1, <1>2, <1>11 DEF IInv, Identities, Moves
  <2>2. \A d, e \in Clients : Live(d)' /\ Live(e)' /\ cl'[d].id = cl'[e].id => d = e
    BY <1>2, <1>11 DEF IInv, Identities, Moves
  <2>3. Sock'
    BY <1>1 DEF Sock
  <2>4. sv'.pc \in {"open", "send", "update"} => sv'.req.len \in Nat
    BY <1>7, <1>13
  <2> QED
    BY <1>12, <2>1, <2>2, <2>3, <2>4 DEF Identities, Matches
<1>15. Owned'
  BY <1>12 DEF Owned
<1>16. Limit' = Limit
  BY <1>1, <1>7, <1>13 DEF Limit, read_seq
<1>17. Capacity'
  <2>1. Slots' = Slots
    BY <1>1 DEF Slots
  <2> QED
    BY <1>1, <1>6, <2>1 DEF IInv, Capacity, Queued
<1> QED
  BY <1>1, <1>2, <1>6, <1>7, <1>8, <1>14, <1>15, <1>16, <1>17, MoveFrame

\* A client asks.
LEMMA ConnectStep ==
    ASSUME IInv, NEW c \in Clients, ClientConnect(c) \/ ClientSend(c)
    PROVE  IInv'
<1>1. UNCHANGED <<prog, exists, file, name, inbox, eof, lapse, reused, printed, reqs>>
  BY DEF ClientConnect, ClientSend, history, bounds
<1>2. CASE ClientConnect(c)
  <2>1. Sock /\ prog.via # "svmsg"
    BY <1>2 DEF ClientConnect, Sock
  <2> QED
    BY <1>1, <1>2, <2>1, AskStep DEF ClientConnect
<1>3. CASE ClientSend(c) /\ Sock /\ cl[c].pc = "conn"
  BY <1>3, LineWritten
<1>4. CASE /\ ~Sock /\ cl[c].pc = "start" /\ Room
           /\ reqq' = Append(reqq, [pid |-> c, id |-> cl[c].id, len |-> cl[c].len])
           /\ UNCHANGED sv /\ cl' = [cl EXCEPT ![c].pc = "sent"]
  <2>1. prog.via = "svmsg" => Queued < QCAP
    BY <1>4 DEF Room
  <2>2. cl[c].len # NULL
    BY <1>4, SeqAssumption DEF IInv, Identities, Live
  <2> QED
    BY <1>1, <1>4, <2>1, <2>2, AskStep
<1> QED
  BY <1>2, <1>3, <1>4 DEF ClientSend

\* A client starts.  Its id is new, and nothing waits for its pid unless the
\* pid is reused too early.
LEMMA BeginStep ==
    ASSUME IInv, NEW c \in Clients, NEW n \in Lens, ClientStart(c, n)
    PROVE  IInv'
<1>1. /\ UNCHANGED <<prog, sv, exists, file, reqq, inbox, printed, lapse>>
      /\ reqs' = reqs + 1 /\ cl[c].pc = "none" /\ reused' = (reused \/ Leftover(c))
  BY DEF ClientStart
<1> DEFINE k == [pc |-> "start", id |-> reqs + 1, len |-> n]
<1>2. reqs \in Nat /\ cl \in [Clients -> Client] /\ n \in Nat /\ n # NULL
  BY SeqAssumption DEF IInv, Types, OtherTypes, ClientTypes
<1>3. k \in Client /\ k.pc = "start" /\ k.id = reqs + 1 /\ k.len = n
  BY <1>2 DEF Client
<1>4. cl' = [cl EXCEPT ![c] = k]
  BY DEF ClientStart
<1> HIDE DEF k
<1>5. cl' \in [Clients -> Client] /\ cl'[c] = k /\ \A d \in Clients : d # c => cl'[d] = cl[d]
  BY <1>2, <1>3, <1>4
<1>6. ~Live(c) /\ Live(c)' /\ \A d \in Clients : d # c => Live(d)' = Live(d)
  BY <1>1, <1>3, <1>5 DEF Live
<1>7. /\ InFlight' = InFlight /\ Slots' = Slots /\ Limit' = Limit
  BY <1>1 DEF InFlight, Slots, Limit, read_seq
<1>8. Types'
  <2>1. ServerTypes' /\ inbox' \in [Clients -> Seq(Nat)] /\ printed' \subseteq Answer
    BY <1>1 DEF IInv, Types, ServerTypes, ClientTypes, OtherTypes
  <2>2. name' \subseteq Clients /\ eof' \subseteq Clients
    BY DEF IInv, Types, ClientTypes, ClientStart
  <2>3. reqq' \in Seq(Request) /\ reqs' \in Nat
    BY <1>1, <1>2, Kept
  <2> QED
    BY <1>1, <1>5, <2>1, <2>2, <2>3, Kept, ClientTypesKept
<1>9. Capacity'
  BY <1>1, <1>7 DEF IInv, Capacity, Queued
<1>10. Identities'
  <2>1. \A d \in Clients : Live(d)' => cl'[d].id \in 1 .. reqs' /\ cl'[d].len \in Nat
    <3>1. k.id \in 1 .. reqs' /\ k.len \in Nat
      BY <1>1, <1>2, <1>3
    <3>2. \A d \in Clients : d # c /\ Live(d)' => cl'[d].id \in 1 .. reqs /\ cl'[d].len \in Nat
      BY <1>5, <1>6 DEF IInv, Identities
    <3> QED
      BY <1>1, <1>2, <1>5, <3>1, <3>2
  <2>2. \A d \in Clients : d # c /\ Live(d)' => cl'[d].id # k.id
    BY <1>2, <1>3, <1>5, <1>6 DEF IInv, Identities
  <2>3. \A d, e \in Clients : Live(d)' /\ Live(e)' /\ cl'[d].id = cl'[e].id => d = e
    BY <1>5, <1>6, <2>2 DEF IInv, Identities
  <2>4. \A q \in InFlight : q.id \in 1 .. reqs' /\ q.id # k.id
    BY <1>1, <1>2, <1>3 DEF IInv, Identities
  <2>5. \A q \in InFlight : \A d \in Clients : Live(d)' => Matches(q, cl'[d], d)
    BY <1>5, <1>6, <2>4 DEF IInv, Identities, Matches
  <2>6. (\A q \in InFlight' : ~Sock' => q.len # NULL)
        /\ (sv'.pc \in {"open", "send", "update"} => sv'.req.len \in Nat)
    BY <1>1, <1>7 DEF IInv, Identities, Sock
  <2> QED
    BY <1>7, <2>1, <2>3, <2>4, <2>5, <2>6 DEF Identities, Matches
<1>11. ASSUME ~reused' PROVE inbox[c] = <<>> /\ \A r \in InFlight : r.pid # c
  BY <1>1, <1>11 DEF Leftover, InFlight, Sent
<1>12. Owned'
  <2>1. ASSUME ~reused', NEW r \in InFlight, NEW d \in Clients, Live(d)', r.pid = d
        PROVE  r.id = cl'[d].id
    BY <1>1, <1>5, <1>6, <1>11, <2>1 DEF IInv, Owned
  <2> QED
    BY <1>7, <2>1 DEF Owned
<1>13. Saved' /\ Serves' = Serves
  BY <1>1, Kept, SavedKept
<1>14. ASSUME ~lapse', ~reused' PROVE Apart'
  <2>1. Sent(inbox[c]) = {}
    BY <1>11, <1>14, SentEmpty
  <2>2. Given' \subseteq Given
    BY <1>1, <1>5, <1>6, <2>1 DEF Given
  <2> QED
    BY <1>1, <1>7, <1>13, <1>14, <2>2, ApartKept DEF IInv
<1> QED
  BY <1>8, <1>9, <1>10, <1>12, <1>13, <1>14 DEF IInv

\* bad_client asks and is gone.
LEMMA BadStep == ASSUME IInv, NEW c \in Clients, bad_client(c) PROVE IInv'
<1>1. /\ UNCHANGED <<prog, sv, exists, file, cl, inbox, eof, printed, lapse>>
      /\ Fifo /\ cl[c].pc = "none" /\ reqs' = reqs + 1 /\ name' = name \cup {c}
      /\ ~reused' => ~reused
  BY DEF bad_client
<1> DEFINE r == [pid |-> c, id |-> reqs + 1, len |-> 1]
<1>2. reqs \in Nat /\ 1 # NULL
  BY SeqAssumption DEF IInv, Types, OtherTypes
<1>3. r \in Request /\ r.pid = c /\ r.id = reqs + 1 /\ r.len # NULL
  BY <1>2 DEF Request
<1>4. reqq' = Append(reqq, r)
  BY DEF bad_client
<1> HIDE DEF r
<1>5. reqq' \in Seq(Request) /\ Len(reqq') = Len(reqq) + 1 /\ InFlight' = InFlight \cup {r}
  BY <1>1, <1>3, <1>4, RequestAdded
<1>6. Limit' = Limit /\ Slots' = Slots /\ ~Live(c) /\ \A d \in Clients : Live(d)' = Live(d)
  BY <1>1 DEF Limit, Slots, read_seq, Live
<1>7. Types'
  <2>1. ServerTypes' /\ cl' \in [Clients -> Client] /\ inbox' \in [Clients -> Seq(Nat)]
        /\ name' \subseteq Clients /\ eof' \subseteq Clients /\ printed' \subseteq Answer
    BY <1>1 DEF IInv, Types, ServerTypes, ClientTypes, OtherTypes
  <2> QED
    BY <1>1, <1>2, <1>5, <2>1, Kept, ClientTypesKept
<1>8. Capacity'
  <2>1. prog.via # "svmsg"
    BY <1>1 DEF Fifo
  <2> QED
    BY <1>1, <1>5, <1>6, <1>7, <2>1, Kept, CapacityKept DEF IInv
<1>9. Identities'
  <2>1. \A d \in Clients : Live(d) => cl[d].id \in 1 .. reqs' /\ cl[d].id # r.id /\ cl[d].len \in Nat
    BY <1>1, <1>2, <1>3 DEF IInv, Identities
  <2>2. \A q \in InFlight' : q.id \in 1 .. reqs'
    <3>1. \A q \in InFlight : q.id \in 1 .. reqs
      BY DEF IInv, Identities
    <3> QED
      BY <1>1, <1>2, <1>3, <1>5, <3>1
  <2>3. \A q \in InFlight' : /\ \A d \in Clients : Live(d) => Matches(q, cl[d], d)
                             /\ ~Sock => q.len # NULL
    BY <1>3, <1>5, <2>1 DEF IInv, Identities, Matches
  <2>4. Sock' = Sock
    BY <1>1 DEF Sock
  <2> QED
    BY <1>1, <1>6, <2>1, <2>2, <2>3, <2>4 DEF IInv, Identities, Matches
<1>10. Owned'
  BY <1>1, <1>3, <1>5, <1>6 DEF IInv, Owned
<1>11. Saved' /\ Serves' = Serves
  BY <1>1, Kept, SavedKept
<1>12. Given' = Given
  BY <1>1, <1>6 DEF Given
<1>13. ~lapse' /\ ~reused' => Apart'
  BY <1>1, <1>6, <1>11, <1>12, ApartKept DEF IInv
<1> QED
  BY <1>7, <1>8, <1>9, <1>10, <1>11, <1>13 DEF IInv
-----------------------------------------------------------------------------
(* The theorems.                                                           *)

\* Nothing is under way at first.
LEMMA InitInv == Init => IInv
<1> SUFFICES ASSUME Init PROVE IInv
  OBVIOUS
<1>1. /\ prog \in Programs /\ sv = Down /\ exists = FALSE /\ file = NULL /\ reqq = <<>>
      /\ cl = [c \in Clients |-> Gone] /\ name = {} /\ inbox = [c \in Clients |-> <<>>]
      /\ eof = {} /\ printed = {} /\ reqs = 0
  BY DEF Init
<1>2. /\ Down \in Server /\ Down.req = NULL /\ Down.pc = "down" /\ Gone \in Client
      /\ Gone.pc = "none"
  BY SeqAssumption DEF Server, Down, Points, Client, Gone
<1>3. Types
  BY <1>1, <1>2, SentEmpty DEF Types, ServerTypes, ClientTypes, OtherTypes, Busy
<1>4. InFlight = {}
  BY <1>1, <1>2, SentEmpty DEF InFlight
<1>5. \A c \in Clients : ~Live(c)
  BY <1>1, <1>2 DEF Live
<1>6. Given = {}
  BY <1>1, <1>5 DEF Given
<1>7. Slots = {}
  <2>1. \A c \in Clients : Len(inbox[c]) = 0
    BY <1>1, SentEmpty
  <2>2. \A c \in Clients : 1 .. Len(inbox[c]) = {}
    BY <2>1
  <2> QED
    BY <2>2 DEF Slots
<1>8. Capacity
  <2>1. IsFiniteSet(Slots) /\ Cardinality(Slots) = 0
    BY <1>7, FS_EmptySet
  <2>2. Queued = Len(reqq) + Cardinality(Slots)
    BY DEF Queued, Slots
  <2>3. Len(reqq) = 0
    BY <1>1, SentEmpty
  <2> QED
    BY <2>1, <2>2, <2>3, SeqAssumption DEF Capacity
<1> QED
  BY <1>1, <1>2, <1>3, <1>4, <1>5, <1>6, <1>8 DEF IInv, Identities, Owned, Saved, Apart

\* Every step keeps the invariant.
LEMMA NextInv == IInv /\ [Next]_vars => IInv'
<1> SUFFICES ASSUME IInv, [Next]_vars PROVE IInv'
  OBVIOUS
<1>1. CASE ServerStart
  BY <1>1, StartStep
<1>2. CASE ServerStep
  BY <1>2, ReadStep, LineStep, OpenStep, SendStep, UpdateStep, TruncStep, WriteStep DEF ServerStep
<1>3. CASE ServerKilled \/ handler
  BY <1>3, KilledStep
<1>4. ASSUME NEW c \in Clients,
             (\E n \in Lens : ClientStart(c, n)) \/ ClientStep(c) \/ ClientDies(c) \/ bad_client(c)
      PROVE  IInv'
  BY <1>4, BeginStep, ConnectStep, WaitStep, ReceiveStep, LeaveStep, BadStep DEF ClientStep
<1>5. CASE UNCHANGED vars
  <2>1. /\ Types' /\ Identities' /\ Owned' /\ Saved' /\ (~lapse' /\ ~reused' => Apart')
    BY <1>5 DEF vars, IInv, Types, ServerTypes, ClientTypes, OtherTypes, Identities, Matches,
       Sock, Owned, InFlight, Live, Saved, read_seq, Apart, Given, Serves, Limit, Numbers
  <2>2. Capacity'
    BY <1>5 DEF vars, IInv, Capacity, Queued, Slots
  <2> QED
    BY <2>1, <2>2 DEF IInv
<1> QED
  BY <1>1, <1>2, <1>3, <1>4, <1>5 DEF Next

\* The inductive invariant holds always.
LEMMA Invariant == Spec => []IInv
  BY InitInv, NextInv, PTL DEF Spec

\* The server is at a step of its program, uses no more descriptors and tries than
\* there are, and the queue of msg_seqnum, written from both sides, is never
\* overfull.
THEOREM TypeCorrect == Spec => []TypeOK
<1>1. IInv => TypeOK
  BY DEF IInv, Types, ServerTypes, ClientTypes, OtherTypes, Capacity, Server, Points, TypeOK
<1> QED
  BY <1>1, Invariant, PTL

\* Two clients never print a number twice, over every transport and any number
\* of servers, unless a server ended between an answer and the saved number or a
\* pid was used again with its old request or answer still on its way.
THEOREM NumbersUnique == Spec => []UniqueNumbers
<1>1. IInv => UniqueNumbers
  BY DEF IInv, Apart, Given, UniqueNumbers, Disjoint, Numbers
<1> QED
  BY <1>1, Invariant, PTL
=============================================================================
