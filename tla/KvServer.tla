------------------------------ MODULE KvServer ------------------------------
(***************************************************************************)
(* chapter_59/kv_server.c and kv_client.c: one detached thread per         *)
(* connection reads a header, a key and, for SET, a value with             *)
(* read_exact(), calls the store and writes the response.                  *)
(***************************************************************************)
EXTENDS KvStore, Sequences

CONSTANTS Clients,      \* client hosts, one connection at a time each
          AddrOf(_),    \* the address its sockets are bound to
          Requests,     \* what a client may send: [op, key, value, klen, vlen]
          HDR_LEN, MAX_KEY_LEN, MAX_VALUE_LEN,
          SIZE_MAX      \* the largest size_t, what (size_t) -1 is

\* struct request_hdr, with the key and the value that follow it.
Request(op, k, v, klen, vlen) ==
    [op |-> op, key |-> k, value |-> v, klen |-> klen, vlen |-> vlen]

Header == [op : Nat, key : Keys, value : Values, klen : Nat, vlen : Nat]

ASSUME ServerAssumption == /\ HDR_LEN \in Nat \ {0}
                           /\ SIZE_MAX \in Nat /\ SIZE_MAX > HDR_LEN
                           /\ Requests \subseteq Header
                           /\ \A c \in Clients : AddrOf(c) \in Addrs

VARIABLES cl,   \* the client process and what its socket holds: [pc, req, in]
          sv    \* the thread that serves it

vars == <<store, cl, sv>>

OP == [GET |-> 1, SET |-> 2, DELETE |-> 3]
STATUS == [KV_OK |-> 0, KV_ERR_FULL |-> 1, KV_ERR_NOTFOUND |-> 2,
           KV_ERR_NOMEM |-> 3, KV_ERR_PERM |-> 4]
RES_STATUS_ERR_INVALID_REQ == 5

\* htonl() and ntohl() of a value below 256 and of its image, on a
\* little-endian host.
htonl(x) == IF x < 256 THEN x * 2^24 ELSE x \div 2^24

Conn(pc, req, in) == [pc |-> pc, req |-> req, in |-> in]

\* val is a history: the value kv_store_get() found.
Thread(pc, hdr, ptr, res, val) ==
    [pc |-> pc, hdr |-> hdr, ptr |-> ptr, res |-> res, val |-> val]

NoClient == Conn("done", NULL, <<>>)
NoThread == Thread("none", NULL, NULL, NULL, NULL)

ServerInit == /\ Init
              /\ cl = [c \in Clients |-> NoClient]
              /\ sv = [c \in Clients |-> NoThread]
-----------------------------------------------------------------------------
(* The client: kv_client.c.                                                *)

\* main(): bind, connect and write the header, the key and the value.
Connect(c, r) ==
    /\ cl[c].pc = "done" /\ sv[c].pc = "none"
    /\ cl' = [cl EXCEPT ![c] = Conn("wait", r, <<>>)]
    /\ sv' = [sv EXCEPT ![c] = Thread("accept", NULL, NULL, NULL, NULL)]
    /\ UNCHANGED store

\* handle_response(): reads the status and, after a GET's OK, the value; an
\* EOF instead of it ends the client too.
handle_response(c) ==
    /\ cl[c].pc = "wait" /\ sv[c].pc = "none"
    /\ cl' = [cl EXCEPT ![c] = NoClient]
    /\ UNCHANGED <<store, sv>>
-----------------------------------------------------------------------------
(* The server.                                                             *)

CloseConnection(c) == sv' = [sv EXCEPT ![c] = NoThread]

\* What read_exact() returns for n bytes and whether they are the n bytes
\* the peer sent.  EOF returns 0.  total_cnt += (size_t) -1 takes a failed
\* read() one byte back: before any byte the sum is the largest size_t and
\* ends the loop; after some it goes on and overwrites the last byte.
read_exact(n) ==
    {[size |-> 0, shifted |-> FALSE], [size |-> n, shifted |-> FALSE],
     [size |-> SIZE_MAX, shifted |-> TRUE]}
      \cup (IF n > 1 THEN {[size |-> n, shifted |-> TRUE]} ELSE {})

\* What the header decodes to: 0 or a response status.
HeaderStatus(h) ==
    IF \/ h.klen > MAX_KEY_LEN \/ h.vlen > MAX_VALUE_LEN
       \/ h.op \notin {OP.GET, OP.SET, OP.DELETE}
       \/ h.klen = 0
       \/ (h.op = OP.SET) # (h.vlen # 0)
    THEN RES_STATUS_ERR_INVALID_REQ ELSE 0

\* The headers parse_request_header() may hand on: none after EOF.
\* "read_size <= 0" holds of EOF only: after an error the header, which holds
\* whatever the stack held, is parsed like any other.
parse_request_header(req) ==
    UNION {IF r.size = 0 THEN {}
           ELSE {[h |-> h, dirty |-> r.shifted] :
                    h \in IF r.shifted THEN Requests ELSE {req}} :
           r \in read_exact(HDR_LEN)}

\* The key and value handle_client() passes on; EOF and an error, which does
\* equal -1 there, give none.
ReadBody(p) ==
    {Request(p.h.op, k, v, p.h.klen, p.h.vlen) :
        k \in UNION {IF r.size \in {0, SIZE_MAX} THEN {}
                     ELSE IF p.dirty \/ r.shifted THEN Keys ELSE {p.h.key} :
                     r \in read_exact(p.h.klen)},
        v \in IF p.h.op # OP.SET THEN {p.h.value}
              ELSE UNION {IF r.size \in {0, SIZE_MAX} THEN {}
                     ELSE IF p.dirty \/ r.shifted THEN Values ELSE {p.h.value} :
                     r \in read_exact(p.h.vlen)}}

\* main() and handle_client() up to the store call, which touch this
\* connection only.  malloc(), pthread_create(), getpeername() or a read may
\* fail and close it; a bad header is answered, without htonl().
handle_client(c) ==
    /\ sv[c].pc = "accept"
    /\ \/ CloseConnection(c) /\ cl' = [cl EXCEPT ![c].req = NULL]
       \/ \E p \in parse_request_header(cl[c].req) :
            \/ /\ HeaderStatus(p.h) # 0
               /\ cl' = [cl EXCEPT ![c] = Conn(@.pc, NULL, <<HeaderStatus(p.h)>>)]
               /\ CloseConnection(c)
            \/ /\ HeaderStatus(p.h) = 0
               /\ \E h \in ReadBody(p) :
                    sv' = [sv EXCEPT ![c] = Thread("op", h, NULL, NULL, NULL)]
               /\ cl' = [cl EXCEPT ![c].req = NULL]
    /\ UNCHANGED store

\* The store call of handle_client().
CallStore(c) ==
    LET h == sv[c].hdr
    IN  /\ sv[c].pc = "op"
        /\ \/ h.op = OP.GET    /\ kv_store_get(h.key)
           \/ h.op = OP.SET    /\ kv_store_set(h.key, h.value, AddrOf(c))
           \/ h.op = OP.DELETE /\ kv_store_delete(h.key, AddrOf(c))
        /\ sv' = [sv EXCEPT ![c] = Thread("reply", NULL, ret'.ptr, ret'.res,
                     IF ret'.ptr = NULL THEN NULL ELSE heap[ret'.ptr].value)]
        /\ UNCHANGED cl

\* Memory behind a pointer the thread kept: a freed record reads as anything.
ReadRecord(p) == IF heap[p] = NULL THEN Values ELSE {heap[p].value}

\* send_response(): the status, then for a successful GET the value, read
\* through the pointer without the mutex; then close().
send_response(c) ==
    /\ sv[c].pc = "reply"
    /\ cl' = [cl EXCEPT ![c].in = <<htonl(STATUS[sv[c].res])>>]
    /\ IF sv[c].ptr # NULL THEN sv' = [sv EXCEPT ![c].pc = "data"]
                           ELSE CloseConnection(c)
    /\ ResultTaken

SendValue(c) ==
    /\ sv[c].pc = "data"
    /\ \E v \in ReadRecord(sv[c].ptr) :
          cl' = [cl EXCEPT ![c].in = Append(@, v)]
    /\ CloseConnection(c)
    /\ UNCHANGED store

ServerStep(c) == \/ handle_client(c) \/ CallStore(c)
                 \/ send_response(c) \/ SendValue(c)

ClientStep(c) == (\E r \in Requests : Connect(c, r)) \/ handle_response(c)

ServerNext == \E c \in Clients : ServerStep(c) \/ ClientStep(c)

ServerSpec == ServerInit /\ [][ServerNext]_vars
-----------------------------------------------------------------------------
\* The store's variables keep their types while connection threads call it, so
\* record_cnt stays within records[]; a thread's kept pointer is an address.
ServerTypeOK ==
    /\ TypeOK
    /\ \A c \in Clients :
         /\ cl[c].pc \in {"wait", "done"}
         /\ sv[c].pc \in {"none", "accept", "op", "reply", "data"}
         /\ sv[c].ptr \in Ptrs \cup {NULL}

\* Only the creator's host changes an entry: whenever the content of a present
\* key changes or disappears, the step is the store call of a thread whose
\* peer is on the host that created the entry (04.md: "only the creator can
\* modify/delete"), whatever the other threads have looked up meanwhile.
CreatorOnly ==
    [][\A k \in Keys : Dict[k] # NULL /\ Dict'[k] # Dict[k] =>
         \E c \in Clients : /\ sv[c].pc = "op" /\ sv'[c].pc = "reply"
                            /\ same_ip_address(AddrOf(c), Dict[k].addr)]_vars

\* The value a GET sends is the one the lookup found under the mutex (04.md:
\* "Data structures are mutex-protected for thread safety").
GetSendsWhatItFound ==
    [][\A c \in Clients : sv[c].pc = "data" /\ sv'[c].pc = "none"
          => cl'[c].in[2] = sv[c].val]_vars
=============================================================================
