--------------------------- MODULE KvServerProofs ---------------------------
(***************************************************************************)
(* Proofs about KvServer.  The threads of kv_server.c reach the store only *)
(* through the calls of kv_store.h, with keys and values of the right type *)
(* even after a failed read() let a dirty header through; so every server  *)
(* step is a step of KvStore or leaves the store alone, and what is proved *)
(* of KvStore holds of the server.                                         *)
(***************************************************************************)
EXTENDS KvServer, KvStoreProofs

\* What a client's socket may hold.
Wire == {htonl(STATUS[r]) : r \in Results} \cup {RES_STATUS_ERR_INVALID_REQ}
          \cup Values

ClType == [pc : {"wait", "done"}, req : Requests \cup {NULL}, in : Seq(Wire)]

SvType == [pc  : {"none", "accept", "op", "reply", "data"},
           hdr : Header \cup {NULL}, ptr : Ptrs \cup {NULL},
           res : Results \cup {NULL}, val : Values \cup {NULL}]

\* What a thread holds where it uses it: a request to read, a decoded header,
\* a result to encode, a record to send.
Held(c) == /\ sv[c].pc = "accept" => cl[c].req \in Requests
           /\ sv[c].pc = "op"     => sv[c].hdr \in Header
           /\ sv[c].pc = "reply"  => sv[c].res \in Results
           /\ sv[c].pc = "data"   => sv[c].ptr \in Ptrs

Threads == /\ cl \in [Clients -> ClType]
           /\ sv \in [Clients -> SvType]
           /\ \A c \in Clients : Held(c)

ServerIInv == IInv /\ Threads

\* Updating one connection keeps the others as they are.
LEMMA OneConnection ==
    ASSUME Threads, NEW c \in Clients, NEW x \in ClType, NEW y \in SvType,
           cl' = [cl EXCEPT ![c] = x], sv' = [sv EXCEPT ![c] = y],
           y.pc = "accept" => x.req \in Requests,
           y.pc = "op"     => y.hdr \in Header,
           y.pc = "reply"  => y.res \in Results,
           y.pc = "data"   => y.ptr \in Ptrs
    PROVE  Threads'
<1>1. cl' \in [Clients -> ClType] /\ sv' \in [Clients -> SvType]
  BY DEF Threads
<1>2. cl'[c] = x /\ sv'[c] = y
  BY DEF Threads
<1>3. \A d \in Clients \ {c} : cl'[d] = cl[d] /\ sv'[d] = sv[d]
  BY DEF Threads
<1>4. ASSUME NEW d \in Clients PROVE Held(d)'
  <2>1. CASE d = c
    BY <1>2, <2>1 DEF Held
  <2>2. CASE d # c
    BY <1>3, <2>2 DEF Held, Threads
  <2> QED
    BY <2>1, <2>2
<1> QED
  BY <1>1, <1>4 DEF Threads

\* The constructors build records of the right type.
LEMMA ConnType ==
    ASSUME NEW pc \in {"wait", "done"}, NEW r \in Requests \cup {NULL},
           NEW in \in Seq(Wire)
    PROVE  Conn(pc, r, in) \in ClType /\ Conn(pc, r, in).req = r
  BY DEF Conn, ClType

\* A thread's record is built field by field.
LEMMA ThreadType ==
    ASSUME NEW pc \in {"none", "accept", "op", "reply", "data"},
           NEW h \in Header \cup {NULL}, NEW p \in Ptrs \cup {NULL},
           NEW r \in Results \cup {NULL}, NEW v \in Values \cup {NULL}
    PROVE  LET t == Thread(pc, h, p, r, v)
           IN  t \in SvType /\ t.pc = pc /\ t.hdr = h /\ t.ptr = p /\ t.res = r
  BY DEF Thread, SvType

\* No connection: the client has nothing to send or to read,
LEMMA NoClientType == NoClient \in ClType
<1>1. <<>> \in Seq(Wire)
  OBVIOUS
<1> QED
  BY <1>1, ConnType DEF NoClient

\* and no thread serves it.
LEMMA NoThreadType == NoThread \in SvType /\ NoThread.pc = "none"
  BY ThreadType DEF NoThread

\* The server starts with an empty store and no connection.
LEMMA ServerInitInv == ServerInit => ServerIInv
<1> SUFFICES ASSUME ServerInit PROVE ServerIInv
  OBVIOUS
<1>1. IInv
  BY InitIInv DEF ServerInit
<1>2. NoClient \in ClType
  BY NoClientType
<1>3. cl \in [Clients -> ClType] /\ sv \in [Clients -> SvType]
  BY <1>2, NoThreadType DEF ServerInit
<1>4. \A c \in Clients : sv[c].pc = "none"
  BY NoThreadType DEF ServerInit
<1> QED
  BY <1>1, <1>3, <1>4 DEF ServerIInv, Threads, Held

\* Whatever read_exact() did, the header handed on is one a client may send,
LEMMA ParsedHeader ==
    ASSUME NEW req \in Requests, NEW p \in parse_request_header(req)
    PROVE  p.h \in Requests
  BY DEF parse_request_header

\* and the body read after it has a key and a value of the right type.
LEMMA BodyType ==
    ASSUME NEW p, p.h \in Requests, NEW h \in ReadBody(p)
    PROVE  h \in Header
<1>1. p.h \in Header
  BY ServerAssumption
<1>2. p.h.op \in Nat /\ p.h.key \in Keys /\ p.h.value \in Values
        /\ p.h.klen \in Nat /\ p.h.vlen \in Nat
  BY <1>1 DEF Header
<1>3. \E k \in Keys, v \in Values : h = Request(p.h.op, k, v, p.h.klen, p.h.vlen)
  BY <1>2 DEF ReadBody
<1> QED
  BY <1>2, <1>3 DEF Request, Header

\* A client's request reaches its thread, which has nothing yet.
LEMMA ConnectStep ==
    ASSUME ServerIInv, NEW c \in Clients, NEW r \in Requests, Connect(c, r)
    PROVE  Threads'
<1> DEFINE x == Conn("wait", r, <<>>)
           y == Thread("accept", NULL, NULL, NULL, NULL)
<1>1. x \in ClType /\ x.req = r
  <2>1. <<>> \in Seq(Wire)
    OBVIOUS
  <2> QED
    BY <2>1, ConnType
<1>2. y \in SvType /\ y.pc = "accept"
  BY ThreadType
<1>3. cl' = [cl EXCEPT ![c] = x] /\ sv' = [sv EXCEPT ![c] = y]
  BY DEF Connect
<1> HIDE DEF x, y
<1> QED
  BY <1>1, <1>2, <1>3, OneConnection DEF ServerIInv

\* Assigning a variable its own value at c is an update of c.
LEMMA SameConnection ==
    ASSUME Threads, NEW c \in Clients
    PROVE  /\ cl[c] \in ClType /\ sv[c] \in SvType
           /\ cl = [cl EXCEPT ![c] = cl[c]] /\ sv = [sv EXCEPT ![c] = sv[c]]
  BY DEF Threads

\* The client that reads its response is done.
LEMMA ResponseStep ==
    ASSUME ServerIInv, NEW c \in Clients, handle_response(c)
    PROVE  Threads'
<1>1. NoClient \in ClType
  BY NoClientType
<1>2. cl' = [cl EXCEPT ![c] = NoClient] /\ sv' = [sv EXCEPT ![c] = sv[c]]
  BY SameConnection DEF handle_response, ServerIInv
<1>3. sv[c] \in SvType /\ sv[c].pc = "none"
  BY SameConnection DEF handle_response, ServerIInv
<1> QED
  BY <1>1, <1>2, <1>3, OneConnection DEF ServerIInv

\* A request is refused, answered as invalid, or decoded.
LEMMA ClientStepTypes ==
    ASSUME ServerIInv, NEW c \in Clients, handle_client(c)
    PROVE  Threads'
<1>0. Threads /\ cl[c] \in ClType /\ cl[c].req \in Requests
  BY SameConnection DEF ServerIInv, handle_client, Threads, Held
<1> DEFINE z == [cl[c] EXCEPT !.req = NULL]
<1>1. z \in ClType
  BY <1>0 DEF ClType
<1>2. ASSUME cl' = [cl EXCEPT ![c].req = NULL] PROVE cl' = [cl EXCEPT ![c] = z]
  BY <1>2
<1> HIDE DEF z
<1>3. CASE CloseConnection(c) /\ cl' = [cl EXCEPT ![c].req = NULL]
  BY <1>0, <1>1, <1>2, <1>3, NoThreadType, OneConnection DEF CloseConnection
<1>4. ASSUME NEW p \in parse_request_header(cl[c].req), HeaderStatus(p.h) # 0,
             cl' = [cl EXCEPT ![c] = Conn(@.pc, NULL, <<HeaderStatus(p.h)>>)],
             CloseConnection(c)
      PROVE  Threads'
  <2> DEFINE x == Conn(cl[c].pc, NULL, <<HeaderStatus(p.h)>>)
  <2>1. <<HeaderStatus(p.h)>> \in Seq(Wire)
    BY <1>4 DEF HeaderStatus, Wire
  <2>2. cl[c].pc \in {"wait", "done"}
    BY <1>0 DEF ClType
  <2>3. x \in ClType
    BY <2>1, <2>2, ConnType
  <2>4. cl' = [cl EXCEPT ![c] = x] /\ sv' = [sv EXCEPT ![c] = NoThread]
    BY <1>4 DEF CloseConnection
  <2> HIDE DEF x
  <2> QED
    BY <1>0, <2>3, <2>4, NoThreadType, OneConnection
<1>5. ASSUME NEW p \in parse_request_header(cl[c].req), NEW h \in ReadBody(p),
             sv' = [sv EXCEPT ![c] = Thread("op", h, NULL, NULL, NULL)],
             cl' = [cl EXCEPT ![c].req = NULL]
      PROVE  Threads'
  <2> DEFINE y == Thread("op", h, NULL, NULL, NULL)
  <2>1. p.h \in Requests
    BY <1>0, ParsedHeader
  <2>2. h \in Header
    BY <2>1, BodyType
  <2>3. y \in SvType /\ y.pc = "op" /\ y.hdr = h
    BY <2>2, ThreadType
  <2>4. cl' = [cl EXCEPT ![c] = z] /\ sv' = [sv EXCEPT ![c] = y]
    BY <1>2, <1>5
  <2> HIDE DEF y
  <2> QED
    BY <1>0, <1>1, <2>2, <2>3, <2>4, OneConnection
<1> QED
  BY <1>3, <1>4, <1>5 DEF handle_client

\* The call a thread makes is a call of kv_store.h with typed arguments.
LEMMA CallIsStoreCall ==
    ASSUME ServerIInv, NEW c \in Clients, CallStore(c)
    PROVE  \E k \in Keys, v \in Values, a \in {AddrOf(c)} :
              \/ kv_store_get(k)
              \/ kv_store_set(k, v, a)
              \/ kv_store_delete(k, a)
<1>1. sv[c].hdr \in Header
  BY DEF ServerIInv, Threads, Held, CallStore
<1>2. sv[c].hdr.key \in Keys /\ sv[c].hdr.value \in Values
  BY <1>1 DEF Header
<1> QED
  BY <1>2 DEF CallStore

\* Every step of the server is a step of the store or leaves it alone.
LEMMA ServerStepsAreStoreSteps ==
    ASSUME ServerIInv, [ServerNext]_vars
    PROVE  [Next]_store
<1>1. ASSUME NEW c \in Clients, CallStore(c) PROVE Next
  <2>1. AddrOf(c) \in Addrs
    BY ServerAssumption
  <2> QED
    BY <1>1, <2>1, CallIsStoreCall DEF Next
<1>2. ASSUME NEW c \in Clients, send_response(c) PROVE Next
  BY <1>2 DEF send_response, Next
<1>3. ASSUME NEW c \in Clients,
             handle_client(c) \/ SendValue(c) \/ ClientStep(c)
      PROVE  UNCHANGED store
  BY <1>3 DEF handle_client, SendValue, ClientStep, Connect, handle_response
<1>4. CASE UNCHANGED vars
  BY <1>4 DEF vars
<1> QED
  BY <1>1, <1>2, <1>3, <1>4 DEF ServerNext, ServerStep

\* The thread keeps the result of its call, and a pointer only to a record.
LEMMA CallStep ==
    ASSUME ServerIInv, IInv', NEW c \in Clients, CallStore(c)
    PROVE  Threads'
<1> DEFINE val == IF ret'.ptr = NULL THEN NULL ELSE heap[ret'.ptr].value
           y == Thread("reply", NULL, ret'.ptr, ret'.res, val)
<1>1. ret'.res \in Results /\ ret'.ptr \in Ptrs \cup {NULL}
  BY DEF IInv, TypeOK
<1>2. ret'.ptr # NULL => heap[ret'.ptr] # NULL
  <2>1. PICK k \in Keys, v \in Values, a \in {AddrOf(c)} :
              kv_store_get(k) \/ kv_store_set(k, v, a) \/ kv_store_delete(k, a)
    BY CallIsStoreCall
  <2>2. CASE kv_store_get(k)
    <3>1. IInv
      BY DEF ServerIInv
    <3> QED
      BY <2>2, <3>1, ScanIsDict DEF kv_store_get, Return
  <2>3. CASE kv_store_set(k, v, a) \/ kv_store_delete(k, a)
    BY <2>3 DEF kv_store_set, kv_store_delete, Return
  <2> QED
    BY <2>1, <2>2, <2>3
<1>3. val \in Values \cup {NULL}
  <2>1. CASE ret'.ptr # NULL
    <3>1. heap[ret'.ptr] \in Record
      BY <1>1, <1>2, <2>1 DEF ServerIInv, IInv, TypeOK
    <3> QED
      BY <2>1, <3>1 DEF Record
  <2> QED
    BY <2>1
<1> HIDE DEF val
<1>4. y \in SvType /\ y.pc = "reply" /\ y.res = ret'.res
  <2>1. NULL \in Header \cup {NULL} /\ ret'.res \in Results \cup {NULL}
    BY <1>1
  <2> QED
    BY <1>1, <1>3, <2>1, ThreadType
<1>5. Threads /\ cl[c] \in ClType /\ cl' = [cl EXCEPT ![c] = cl[c]]
  BY SameConnection DEF ServerIInv, CallStore
<1>6. sv' = [sv EXCEPT ![c] = y]
  BY DEF CallStore, val
<1> HIDE DEF y
<1> QED
  BY <1>1, <1>4, <1>5, <1>6, OneConnection

\* The response is the status of one of the store's results.
LEMMA SendStep ==
    ASSUME ServerIInv, NEW c \in Clients, send_response(c)
    PROVE  Threads'
<1> DEFINE x == [cl[c] EXCEPT !.in = <<htonl(STATUS[sv[c].res])>>]
           y == [sv[c] EXCEPT !.pc = "data"]
<1>1. Threads /\ cl[c] \in ClType /\ sv[c] \in SvType /\ sv[c].res \in Results
  BY SameConnection DEF ServerIInv, Threads, Held, send_response
<1>2. <<htonl(STATUS[sv[c].res])>> \in Seq(Wire)
  BY <1>1 DEF Wire
<1>3. x \in ClType
  BY <1>1, <1>2 DEF ClType
<1>4. cl' = [cl EXCEPT ![c] = x]
  BY DEF send_response
<1>5. CASE sv[c].ptr # NULL
  <2>1. y \in SvType /\ y.pc = "data" /\ y.ptr = sv[c].ptr
    BY <1>1 DEF SvType
  <2>2. sv[c].ptr \in Ptrs
    BY <1>1, <1>5 DEF SvType
  <2>3. sv' = [sv EXCEPT ![c] = y]
    BY <1>5 DEF send_response
  <2> HIDE DEF x, y
  <2> QED
    BY <1>1, <1>3, <1>4, <2>1, <2>2, <2>3, OneConnection
<1>6. CASE sv[c].ptr = NULL
  <2>1. sv' = [sv EXCEPT ![c] = NoThread]
    BY <1>6 DEF send_response, CloseConnection
  <2> HIDE DEF x
  <2> QED
    BY <1>1, <1>3, <1>4, <2>1, NoThreadType, OneConnection
<1> QED
  BY <1>5, <1>6

\* The value sent is some value, even when the record was freed.
LEMMA ValueStep ==
    ASSUME ServerIInv, NEW c \in Clients, SendValue(c)
    PROVE  Threads'
<1>1. Threads /\ cl[c] \in ClType /\ sv[c].ptr \in Ptrs
  BY SameConnection DEF ServerIInv, Threads, Held, SendValue
<1>2. PICK v \in ReadRecord(sv[c].ptr) : cl' = [cl EXCEPT ![c].in = Append(@, v)]
  BY DEF SendValue
<1>3. v \in Values
  <2>1. heap[sv[c].ptr] \in Record \cup {NULL}
    BY <1>1 DEF ServerIInv, IInv, TypeOK
  <2> QED
    BY <1>2, <2>1 DEF ReadRecord, Record
<1> DEFINE x == [cl[c] EXCEPT !.in = Append(cl[c].in, v)]
<1>4. Append(cl[c].in, v) \in Seq(Wire)
  <2>1. cl[c].in \in Seq(Wire) /\ v \in Wire
    BY <1>1, <1>3 DEF ClType, Wire
  <2> QED
    BY <2>1
<1>5. x \in ClType
  BY <1>1, <1>4 DEF ClType
<1>6. cl' = [cl EXCEPT ![c] = x]
  BY <1>2
<1>7. sv' = [sv EXCEPT ![c] = NoThread]
  BY DEF SendValue, CloseConnection
<1> HIDE DEF x
<1> QED
  BY <1>1, <1>5, <1>6, <1>7, NoThreadType, OneConnection

\* The invariant is inductive: the store's part by KvStoreProofs, the threads'
\* part connection by connection.
LEMMA ServerNextInv == ServerIInv /\ [ServerNext]_vars => ServerIInv'
<1> SUFFICES ASSUME ServerIInv, [ServerNext]_vars PROVE ServerIInv'
  OBVIOUS
<1>1. IInv'
  <2>1. [Next]_store /\ IInv
    BY ServerStepsAreStoreSteps DEF ServerIInv
  <2> QED
    BY <2>1, NextIInv
<1>2. ASSUME NEW c \in Clients, ServerStep(c) PROVE Threads'
  BY <1>1, <1>2, ClientStepTypes, CallStep, SendStep, ValueStep DEF ServerStep
<1>3. ASSUME NEW c \in Clients, ClientStep(c) PROVE Threads'
  BY <1>3, ConnectStep, ResponseStep DEF ClientStep
<1>4. ASSUME UNCHANGED vars PROVE Threads'
  BY <1>4 DEF vars, ServerIInv, Threads, Held
<1> QED
  <2>1. Threads'
    BY <1>2, <1>3, <1>4 DEF ServerNext
  <2> QED
    BY <1>1, <2>1 DEF ServerIInv

\* The invariant holds in every state of the server.
LEMMA ServerInvariant == ServerSpec => []ServerIInv
  BY ServerInitInv, ServerNextInv, PTL DEF ServerSpec

\* For any clients, requests and interleaving of connection threads, and
\* whatever reads fail: the count stays within records[], every thread's kept
\* pointer is an address and every store call has a key and a value.
THEOREM ServerTypeCorrect == ServerSpec => []ServerTypeOK
<1>1. ServerIInv => ServerTypeOK
  <2> SUFFICES ASSUME ServerIInv PROVE ServerTypeOK
    OBVIOUS
  <2>1. \A c \in Clients : cl[c] \in ClType /\ sv[c] \in SvType
    BY DEF ServerIInv, Threads
  <2> QED
    BY <2>1 DEF ServerIInv, IInv, ServerTypeOK, ClType, SvType
<1> QED
  BY <1>1, ServerInvariant, PTL

\* The array of records stays sound under the server: no connection thread
\* reads or frees a freed record inside the store, and none is leaked.
THEOREM ServerStoreSound == ServerSpec => []StoreSound
<1>1. ServerIInv => StoreSound
  BY DEF ServerIInv, IInv
<1> QED
  BY <1>1, ServerInvariant, PTL

\* The server's store implements the map, whatever its threads do: every server
\* step is a step of KvMap or changes neither the content nor the last reply.
THEOREM ServerImplementsMap == ServerSpec => ImplementsMap
<1>1. ServerInit => Map!Init
  BY InitRefines DEF ServerInit
<1>2. ServerIInv /\ [ServerNext]_vars => [Map!Next]_<<Dict, LastReply>>
  BY ServerStepsAreStoreSteps, StepRefines DEF ServerIInv
<1> QED
  BY <1>1, <1>2, ServerInvariant, PTL DEF ServerSpec, ImplementsMap, Map!Spec

\* A call of the map by a host changes only entries that host created, except
\* that it may add an absent one.
LEMMA MapCallByHost ==
    ASSUME IInv, NEW k \in Keys, NEW v \in Values, NEW a \in Addrs,
           Map!Get(k) \/ Map!Set(k, v, a) \/ Map!Delete(k, a),
           NEW j \in Keys, Dict[j] # NULL, Dict'[j] # Dict[j]
    PROVE  same_ip_address(a, Dict[j].addr)
<1>1. Dict \in [Keys -> [value : Values, addr : Addrs] \cup {NULL}]
  BY HeapLemma DEF HeapIsDict
<1>2. CASE Map!Get(k)
  BY <1>2 DEF Map!Get
<1>3. CASE Map!Set(k, v, a)
  BY <1>1, <1>3 DEF Map!Set
<1>4. CASE Map!Delete(k, a)
  BY <1>1, <1>4 DEF Map!Delete
<1> QED
  BY <1>2, <1>3, <1>4

\* Only the creator's host changes or removes an entry, for any number of
\* clients and any interleaving of their threads.
THEOREM OnlyTheCreator == ServerSpec => CreatorOnly
<1> DEFINE A == \A k \in Keys : Dict[k] # NULL /\ Dict'[k] # Dict[k] =>
                   \E c \in Clients : /\ sv[c].pc = "op" /\ sv'[c].pc = "reply"
                                      /\ same_ip_address(AddrOf(c), Dict[k].addr)
<1>1. ASSUME ServerIInv, ServerNext PROVE A
  <2> SUFFICES ASSUME NEW j \in Keys, Dict[j] # NULL, Dict'[j] # Dict[j]
               PROVE  \E c \in Clients : /\ sv[c].pc = "op" /\ sv'[c].pc = "reply"
                                         /\ same_ip_address(AddrOf(c), Dict[j].addr)
    OBVIOUS
  <2>1. ASSUME UNCHANGED <<records, record_cnt, heap>> PROVE FALSE
    BY <2>1, DictUnchanged
  <2>2. ASSUME NEW c \in Clients, \/ handle_client(c) \/ send_response(c)
                                  \/ SendValue(c) \/ ClientStep(c)
        PROVE  FALSE
    BY <2>1, <2>2 DEF handle_client, send_response, SendValue, ClientStep,
                      Connect, handle_response, ResultTaken, store
  <2>3. PICK c \in Clients : CallStore(c)
    BY <1>1, <2>2 DEF ServerNext, ServerStep
  <2>4. sv[c].pc = "op" /\ sv'[c].pc = "reply"
    <3>1. sv'[c] = Thread("reply", NULL, ret'.ptr, ret'.res,
                     IF ret'.ptr = NULL THEN NULL ELSE heap[ret'.ptr].value)
      BY <1>1, <2>3 DEF CallStore, ServerIInv, Threads
    <3>2. sv[c].pc = "op"
      BY <2>3 DEF CallStore
    <3> QED
      BY <3>1, <3>2 DEF Thread
  <2>5. AddrOf(c) \in Addrs /\ IInv
    BY <1>1, ServerAssumption DEF ServerIInv
  <2>6. PICK k \in Keys, v \in Values, a \in {AddrOf(c)} :
              kv_store_get(k) \/ kv_store_set(k, v, a) \/ kv_store_delete(k, a)
    BY <1>1, <2>3, CallIsStoreCall
  <2>7. Map!Get(k) \/ Map!Set(k, v, a) \/ Map!Delete(k, a)
    BY <2>5, <2>6, GetRefines, SetRefines, DeleteRefines
  <2>8. same_ip_address(a, Dict[j].addr)
    BY <2>5, <2>6, <2>7, MapCallByHost
  <2> QED
    BY <2>4, <2>6, <2>8
<1>2. ServerIInv /\ [ServerNext]_vars => [A]_vars
  BY <1>1
<1> QED
  BY <1>2, ServerInvariant, PTL DEF ServerSpec, CreatorOnly
=============================================================================
