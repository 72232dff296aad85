------------------------------ MODULE KvStore ------------------------------
(***************************************************************************)
(* chapter_59/kv_store.c: the record array of the key-value server.  Every *)
(* function holds records_mutex from its first to its last access, so each *)
(* call is one step.  records[] holds pointers; heap says which records    *)
(* are allocated and what is in them, so that a record reached after it    *)
(* was freed, freed twice or lost is visible.                              *)
(***************************************************************************)
EXTENDS Integers, FiniteSets

CONSTANTS Keys, Values,
          Addrs,        \* client socket addresses [family, ip, port]
          Ptrs,         \* the addresses malloc() can return
          MAX_RECORDS, NULL

ASSUME KvAssumption ==
    /\ MAX_RECORDS \in Nat \ {0}
    /\ NULL \notin Ptrs
    /\ NULL \notin [key : Keys, value : Values, addr : Addrs]
    /\ NULL \notin [value : Values, addr : Addrs]

VARIABLES records, record_cnt, heap,
          ret           \* what the last call returned: [res, ptr]

store == <<records, record_cnt, heap, ret>>

Record  == [key : Keys, value : Values, addr : Addrs]
Indices == 0 .. MAX_RECORDS - 1
Used    == 0 .. record_cnt - 1

Return(res, p) == ret' = [res |-> res, ptr |-> p]

\* Ports are ignored, and a family other than these two never matches.
same_ip_address(a, b) ==
    /\ a.family = b.family
    /\ a.family \in {"AF_INET", "AF_INET6"}
    /\ a.ip = b.ip

\* The first of the record_cnt records with this key, or -1.
kv_store_get_idx(k) ==
    LET hits == {i \in Used : heap[records[i]].key = k}
    IN  IF hits = {} THEN -1 ELSE CHOOSE i \in hits : \A j \in hits : i <= j

Init == /\ records = [i \in Indices |-> NULL]
        /\ record_cnt = 0
        /\ heap = [p \in Ptrs |-> NULL]
        /\ ret = [res |-> "KV_OK", ptr |-> NULL]

kv_store_cleanup ==
    /\ heap' = [p \in Ptrs |-> IF \E i \in Used : records[i] = p
                               THEN NULL ELSE heap[p]]
    /\ record_cnt' = 0
    /\ Return("KV_OK", NULL)
    /\ UNCHANGED records

\* The new record is allocated and filled before the old one is freed.
Persist(idx, p, k, v, a) ==
    LET new == [key |-> k, value |-> v, addr |-> a]
    IN  IF idx = -1
        THEN /\ records' = [records EXCEPT ![record_cnt] = p]
             /\ record_cnt' = record_cnt + 1
             /\ heap' = [heap EXCEPT ![p] = new]
        ELSE /\ heap' = [heap EXCEPT ![records[idx]] = NULL, ![p] = new]
             /\ records' = [records EXCEPT ![idx] = p]
             /\ UNCHANGED record_cnt

Full_off_by_one == record_cnt > MAX_RECORDS

\* The last slot is never used.
Full_early == record_cnt >= MAX_RECORDS - 1

Full == record_cnt >= MAX_RECORDS

kv_store_set(k, v, a) ==
    LET idx == kv_store_get_idx(k)
    IN  \/ /\ idx >= 0
           /\ ~same_ip_address(a, heap[records[idx]].addr)
           /\ Return("KV_ERR_PERM", NULL)
           /\ UNCHANGED <<records, record_cnt, heap>>
        \/ /\ idx = -1
           /\ Full
           /\ Return("KV_ERR_FULL", NULL)
           /\ UNCHANGED <<records, record_cnt, heap>>
        \/ /\ idx >= 0 => same_ip_address(a, heap[records[idx]].addr)
           /\ idx = -1 => ~Full
           /\ \/ /\ Return("KV_ERR_NOMEM", NULL)      \* malloc() failed
                 /\ UNCHANGED <<records, record_cnt, heap>>
              \/ /\ \E p \in Ptrs : heap[p] = NULL /\ Persist(idx, p, k, v, a)
                 /\ Return("KV_OK", NULL)

\* The caller gets the pointer and uses it after the mutex is released.
kv_store_get(k) ==
    LET idx == kv_store_get_idx(k)
    IN  /\ IF idx = -1 THEN Return("KV_ERR_NOTFOUND", NULL)
                       ELSE Return("KV_OK", records[idx])
        /\ UNCHANGED <<records, record_cnt, heap>>

\* The hole is not filled.
Unlist_keeps_hole(idx) == UNCHANGED records

\* The last record takes the place of the deleted one.
Unlist(idx) == records' = [records EXCEPT ![idx] = records[record_cnt - 1]]

\* The creator is not compared.
kv_store_delete_unchecked(k, a) ==
    LET idx == kv_store_get_idx(k)
    IN  \/ /\ idx = -1
           /\ Return("KV_ERR_NOTFOUND", NULL)
           /\ UNCHANGED <<records, record_cnt, heap>>
        \/ /\ idx >= 0
           /\ Unlist(idx)
           /\ record_cnt' = record_cnt - 1
           /\ heap' = [heap EXCEPT ![records[idx]] = NULL]
           /\ Return("KV_OK", NULL)

kv_store_delete(k, a) ==
    LET idx == kv_store_get_idx(k)
    IN  \/ /\ idx = -1
           /\ Return("KV_ERR_NOTFOUND", NULL)
           /\ UNCHANGED <<records, record_cnt, heap>>
        \/ /\ idx >= 0
           /\ ~same_ip_address(a, heap[records[idx]].addr)
           /\ Return("KV_ERR_PERM", NULL)
           /\ UNCHANGED <<records, record_cnt, heap>>
        \/ /\ idx >= 0
           /\ same_ip_address(a, heap[records[idx]].addr)
           /\ Unlist(idx)
           /\ record_cnt' = record_cnt - 1
           /\ heap' = [heap EXCEPT ![records[idx]] = NULL]
           /\ Return("KV_OK", NULL)

\* The caller has used the result of its call.
ResultTaken == /\ ret' = [res |-> "KV_OK", ptr |-> NULL]
               /\ UNCHANGED <<records, record_cnt, heap>>

Next == \/ \E k \in Keys : kv_store_get(k)
        \/ \E k \in Keys, v \in Values, a \in Addrs : kv_store_set(k, v, a)
        \/ \E k \in Keys, a \in Addrs : kv_store_delete(k, a)
        \/ kv_store_cleanup
        \/ ResultTaken

Spec == Init /\ [][Next]_store
-----------------------------------------------------------------------------
Results == {"KV_OK", "KV_ERR_PERM", "KV_ERR_FULL", "KV_ERR_NOMEM",
            "KV_ERR_NOTFOUND"}

\* record_cnt stays within the array, and slots hold addresses or NULL.
TypeOK == /\ records \in [Indices -> Ptrs \cup {NULL}]
          /\ record_cnt \in 0 .. MAX_RECORDS
          /\ heap \in [Ptrs -> Record \cup {NULL}]
          /\ ret \in [res : Results, ptr : Ptrs \cup {NULL}]

\* Every used slot points to an allocated record: no lookup in the scan of
\* kv_store_get_idx() and no free() of a slot touches freed memory.
SlotsLive == \A i \in Used : records[i] \in Ptrs /\ heap[records[i]] # NULL

\* A key is stored at most once: the first match of the scan is the only one.
KeysUnique == \A i, j \in Used :
                 heap[records[i]].key = heap[records[j]].key => i = j

\* Every allocated record is in a used slot.
NoLeak == \A p \in Ptrs : heap[p] # NULL => \E i \in Used : records[i] = p

\* The array is sound after any history of set, delete (which moves the last
\* record into the hole) and cleanup calls: its used slots hold live records
\* with distinct keys, and no record is allocated outside them, so nothing is
\* read after free, freed twice, found twice or leaked.
StoreSound == SlotsLive /\ KeysUnique /\ NoLeak

\* The store implements the abstract map: the content of the array, in any
\* order and after any history of moves, is what KvMap holds, and each call
\* returns what KvMap returns.
Dict == [k \in Keys |->
            LET i == kv_store_get_idx(k)
            IN  IF i = -1 THEN NULL
                ELSE [value |-> heap[records[i]].value,
                      addr  |-> heap[records[i]].addr]]

LastReply == [res   |-> ret.res,
              value |-> IF ret.ptr = NULL THEN NULL ELSE heap[ret.ptr].value]

Map == INSTANCE KvMap WITH dict <- Dict, reply <- LastReply,
                           SameHost <- same_ip_address

ImplementsMap == Map!Spec
=============================================================================
