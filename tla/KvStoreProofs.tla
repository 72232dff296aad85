--------------------------- MODULE KvStoreProofs ---------------------------
(***************************************************************************)
(* Proofs about KvStore.  StoreSound is inductive together with TypeOK: a  *)
(* delete moves the last record into the hole, which keeps slots live and  *)
(* keys unique because the last record is live and has another key.  The   *)
(* refinement of KvMap follows one call at a time from what that call does *)
(* to the heap, which reads as the map (HeapIsDict).                       *)
(***************************************************************************)
EXTENDS KvStore, FiniteSetTheorems, FunctionTheorems, TLAPS

IInv == TypeOK /\ StoreSound

\* The scan returns -1 exactly when no used slot holds the key, and otherwise
\* a used slot that holds it.
LEMMA ScanLemma ==
    ASSUME TypeOK, StoreSound, NEW k \in Keys
    PROVE  LET i == kv_store_get_idx(k)
           IN  \/ i = -1 /\ \A j \in Used : heap[records[j]].key # k
               \/ i \in Used /\ heap[records[i]].key = k
<1> DEFINE hits == {i \in Used : heap[records[i]].key = k}
<1>1. CASE hits = {}
  BY <1>1 DEF kv_store_get_idx
<1>2. CASE hits # {}
  <2>1. \E i \in hits : \A j \in hits : i <= j
    BY <1>2 DEF Used, TypeOK, StoreSound, KeysUnique
  <2>2. kv_store_get_idx(k) \in hits
    BY <1>2, <2>1 DEF kv_store_get_idx
  <2> QED
    BY <2>2
<1> QED
  BY <1>1, <1>2

\* The empty array kv_store.c starts with is typed and sound.
THEOREM InitIInv == Init => IInv
<1> SUFFICES ASSUME Init PROVE IInv
  OBVIOUS
<1>1. TypeOK
  BY KvAssumption DEF Init, TypeOK, Indices, Record, Results
<1>2. Used = {}
  BY DEF Init, Used
<1>3. StoreSound
  BY <1>2 DEF Init, StoreSound, SlotsLive, KeysUnique, NoLeak
<1> QED
  BY <1>1, <1>3 DEF IInv

\* kv_store_set() keeps the array sound: a new key is appended after the last
\* used slot, an existing one is replaced in its own slot.
LEMMA SetStep ==
    ASSUME IInv, NEW k \in Keys, NEW v \in Values, NEW a \in Addrs,
           kv_store_set(k, v, a)
    PROVE  IInv'
<1> DEFINE idx == kv_store_get_idx(k)
           new == [key |-> k, value |-> v, addr |-> a]
<1> USE DEF IInv
<1>1. CASE UNCHANGED <<records, record_cnt, heap>> /\ \E r \in Results : Return(r, NULL)
  BY <1>1 DEF TypeOK, StoreSound, SlotsLive, KeysUnique, NoLeak, Used, Return
<1>2. CASE /\ \E p \in Ptrs : heap[p] = NULL /\ Persist(idx, p, k, v, a)
           /\ idx = -1 => ~Full
           /\ Return("KV_OK", NULL)
  <2>1. PICK p \in Ptrs : heap[p] = NULL /\ Persist(idx, p, k, v, a)
    BY <1>2
  <2>2. new \in Record /\ new # NULL
    BY KvAssumption DEF Record
  <2>3. ret' \in [res : Results, ptr : Ptrs \cup {NULL}]
    BY <1>2 DEF Return, Results
  <2>4. CASE idx = -1
    <3>1. /\ records' = [records EXCEPT ![record_cnt] = p]
          /\ record_cnt' = record_cnt + 1
          /\ heap' = [heap EXCEPT ![p] = new]
      BY <2>1, <2>4 DEF Persist
    <3>2. record_cnt \in Indices /\ record_cnt' \in 0 .. MAX_RECORDS
      BY <1>2, <2>4, <3>1, KvAssumption DEF Full, TypeOK, Indices
    <3>3. TypeOK'
      BY <2>2, <2>3, <3>1, <3>2 DEF TypeOK
    <3>4. Used' = Used \cup {record_cnt} /\ Used \subseteq Indices
      BY <3>1, <3>2, KvAssumption DEF Used, TypeOK, Indices
    <3>5. \A i \in Used : records'[i] = records[i] /\ records[i] # p
      BY <2>1, <3>1, <3>4 DEF TypeOK, StoreSound, SlotsLive, Used
    <3>6. records'[record_cnt] = p /\ heap'[p] = new
      BY <3>1, <3>2 DEF TypeOK
    <3>7. \A q \in Ptrs \ {p} : heap'[q] = heap[q]
      BY <3>1 DEF TypeOK
    <3>8. SlotsLive'
      BY <2>2, <3>4, <3>5, <3>6, <3>7 DEF StoreSound, SlotsLive
    <3>9. \A i \in Used : heap[records[i]].key # k
      BY <2>4, ScanLemma DEF Used
    <3>10. KeysUnique'
      BY <3>4, <3>5, <3>6, <3>7, <3>9 DEF StoreSound, KeysUnique, SlotsLive
    <3>11. NoLeak'
      BY <3>4, <3>5, <3>6, <3>7 DEF StoreSound, NoLeak
    <3> QED
      BY <3>3, <3>8, <3>10, <3>11 DEF StoreSound
  <2>5. CASE idx # -1
    <3>1. idx \in Used /\ heap[records[idx]].key = k
      BY <2>5, ScanLemma
    <3>2. /\ heap' = [heap EXCEPT ![records[idx]] = NULL, ![p] = new]
          /\ records' = [records EXCEPT ![idx] = p]
          /\ record_cnt' = record_cnt /\ Used' = Used
      BY <2>1, <2>5 DEF Persist, Used
    <3>3. Used \subseteq Indices /\ records[idx] \in Ptrs /\ records[idx] # p
      BY <2>1, <3>1, KvAssumption DEF Used, Indices, TypeOK, StoreSound, SlotsLive
    <3>4. TypeOK'
      BY <2>2, <2>3, <3>1, <3>2, <3>3 DEF TypeOK
    <3>5. records'[idx] = p /\ heap'[p] = new
      BY <3>1, <3>2, <3>3 DEF TypeOK
    <3>6. \A i \in Used \ {idx} : records'[i] = records[i] /\ records[i] # records[idx]
      BY <3>1, <3>2, <3>3 DEF TypeOK, StoreSound, KeysUnique
    <3>7. \A q \in Ptrs \ {p, records[idx]} : heap'[q] = heap[q]
      BY <3>2 DEF TypeOK
    <3>8. heap'[records[idx]] = NULL
      BY <3>2, <3>3 DEF TypeOK
    <3>9. \A i \in Used \ {idx} : records[i] \in Ptrs \ {p, records[idx]}
      BY <2>1, <3>6 DEF StoreSound, SlotsLive
    <3>13. Used' = Used
      BY <3>2
    <3> HIDE DEF idx
    <3>14. \A i \in Used : IF i = idx THEN records'[i] = p /\ heap'[records'[i]] = new
                          ELSE records'[i] = records[i] /\ heap'[records'[i]] = heap[records[i]]
      BY <3>5, <3>6, <3>7, <3>9
    <3>15. \A i \in Used : records[i] \in Ptrs /\ heap[records[i]] # NULL
      BY DEF StoreSound, SlotsLive
    <3>10. SlotsLive'
      BY <2>1, <2>2, <3>13, <3>14, <3>15 DEF SlotsLive
    <3>11. KeysUnique'
      <4>1. \A i, j \in Used : heap[records[i]].key = heap[records[j]].key => i = j
        BY DEF StoreSound, KeysUnique
      <4>2. \A i \in Used : heap'[records'[i]].key = heap[records[i]].key
        BY <3>1, <3>14
      <4> QED
        BY <3>13, <4>1, <4>2 DEF KeysUnique
    <3>12. ASSUME NEW q \in Ptrs, heap'[q] # NULL
           PROVE  \E i \in Used' : records'[i] = q
      <4>1. CASE q = p
        BY <3>1, <3>5, <3>13, <4>1
      <4>2. CASE q # p
        <5>1. q # records[idx] /\ heap[q] # NULL
          BY <3>7, <3>8, <3>12, <4>2
        <5>2. PICK i \in Used : records[i] = q
          BY <5>1 DEF StoreSound, NoLeak
        <5> QED
          BY <3>6, <3>13, <5>1, <5>2
      <4> QED
        BY <4>1, <4>2
    <3> QED
      BY <3>4, <3>10, <3>11, <3>12 DEF StoreSound, NoLeak
  <2> QED
    BY <2>4, <2>5
<1> QED
  BY <1>1, <1>2 DEF kv_store_set, Results

\* kv_store_delete() keeps the array sound: the last record takes the hole.
LEMMA DeleteStep ==
    ASSUME IInv, NEW k \in Keys, NEW a \in Addrs, kv_store_delete(k, a)
    PROVE  IInv'
<1> DEFINE idx == kv_store_get_idx(k)
           last == record_cnt - 1
<1> USE DEF IInv
<1>1. CASE UNCHANGED <<records, record_cnt, heap>> /\ \E r \in Results : Return(r, NULL)
  BY <1>1 DEF TypeOK, StoreSound, SlotsLive, KeysUnique, NoLeak, Used, Return
<1>2. CASE /\ idx >= 0 /\ Unlist(idx) /\ record_cnt' = record_cnt - 1
           /\ heap' = [heap EXCEPT ![records[idx]] = NULL]
           /\ Return("KV_OK", NULL)
  <2>1. idx \in Used /\ heap[records[idx]].key = k
    BY <1>2, ScanLemma
  <2>2. Used \subseteq Indices /\ last \in Used /\ Used' = Used \ {last}
    <3>1. record_cnt \in 1 .. MAX_RECORDS
      BY <2>1 DEF Used, TypeOK
    <3> QED
      BY <1>2, <3>1, KvAssumption DEF Used, Indices
  <2>3. \A i \in Used : records[i] \in Ptrs
    BY DEF StoreSound, SlotsLive
  <2>4. records' = [records EXCEPT ![idx] = records[last]]
    BY <1>2 DEF Unlist
  <2>5. TypeOK'
    <3>1. record_cnt' \in 0 .. MAX_RECORDS
      BY <1>2, <2>1, KvAssumption DEF TypeOK, Used
    <3>2. ret' \in [res : Results, ptr : Ptrs \cup {NULL}]
      BY <1>2 DEF Return, Results
    <3> QED
      BY <1>2, <2>1, <2>2, <2>3, <2>4, <3>1, <3>2 DEF TypeOK
  <2>6. \A q \in Ptrs \ {records[idx]} : heap'[q] = heap[q]
    BY <1>2 DEF TypeOK
  <2>7. heap'[records[idx]] = NULL
    BY <1>2, <2>1, <2>3 DEF TypeOK
  <2>8. \A i, j \in Used : records[i] = records[j] => i = j
    BY DEF StoreSound, KeysUnique
  <2>9. \A i \in Used' : records'[i] = records[IF i = idx THEN last ELSE i]
    BY <2>1, <2>2, <2>4 DEF TypeOK
  <2>10. \A i \in Used' : records'[i] # records[idx] /\ records'[i] \in Ptrs
    BY <2>1, <2>2, <2>3, <2>8, <2>9
  <2>11. SlotsLive'
    BY <2>2, <2>6, <2>9, <2>10 DEF StoreSound, SlotsLive
  <2>12. KeysUnique'
    BY <2>2, <2>6, <2>8, <2>9, <2>10 DEF StoreSound, KeysUnique
  <2>13. ASSUME NEW p \in Ptrs, heap'[p] # NULL
         PROVE  \E i \in Used' : records'[i] = p
    <3>1. p # records[idx] /\ heap[p] # NULL
      BY <2>6, <2>7, <2>13
    <3>2. PICK i \in Used : records[i] = p
      BY <3>1 DEF StoreSound, NoLeak
    <3>3. CASE i # last
      BY <2>2, <2>9, <3>1, <3>2, <3>3
    <3>4. CASE i = last
      BY <2>1, <2>2, <2>9, <3>1, <3>2, <3>4
    <3> QED
      BY <3>3, <3>4
  <2> QED
    BY <2>5, <2>11, <2>12, <2>13 DEF StoreSound, NoLeak
<1> QED
  BY <1>1, <1>2 DEF kv_store_delete, Results

\* kv_store_cleanup() keeps the array sound: it frees every used slot's record
\* and, by NoLeak, there is no other.
LEMMA CleanupStep == IInv /\ kv_store_cleanup => IInv'
<1> SUFFICES ASSUME IInv, kv_store_cleanup PROVE IInv'
  OBVIOUS
<1> USE DEF IInv
<1>1. TypeOK'
  BY KvAssumption DEF kv_store_cleanup, TypeOK, Return, Results
<1>2. Used' = {}
  BY DEF kv_store_cleanup, Used
<1>3. \A p \in Ptrs : heap'[p] = NULL
  BY DEF kv_store_cleanup, StoreSound, NoLeak
<1> QED
  BY <1>1, <1>2, <1>3 DEF StoreSound, SlotsLive, KeysUnique, NoLeak

\* kv_store_get() changes nothing and returns an address from a used slot.
LEMMA GetStep ==
    ASSUME IInv, NEW k \in Keys, kv_store_get(k)
    PROVE  IInv'
<1> USE DEF IInv
<1>1. kv_store_get_idx(k) # -1 => records[kv_store_get_idx(k)] \in Ptrs
  BY ScanLemma DEF StoreSound, SlotsLive
<1> QED
  BY <1>1 DEF kv_store_get, TypeOK, StoreSound, SlotsLive, KeysUnique, NoLeak,
              Used, Return, Results

\* Types and soundness together are inductive over the calls of kv_store.h.
LEMMA NextIInv == IInv /\ [Next]_store => IInv'
<1> SUFFICES ASSUME IInv, [Next]_store PROVE IInv'
  OBVIOUS
<1>1. CASE \E k \in Keys : kv_store_get(k)
  BY <1>1, GetStep
<1>2. CASE \E k \in Keys, v \in Values, a \in Addrs : kv_store_set(k, v, a)
  BY <1>2, SetStep
<1>3. CASE \E k \in Keys, a \in Addrs : kv_store_delete(k, a)
  BY <1>3, DeleteStep
<1>4. CASE kv_store_cleanup
  BY <1>4, CleanupStep
<1>5. CASE ResultTaken \/ UNCHANGED store
  BY <1>5 DEF IInv, TypeOK, StoreSound, SlotsLive, KeysUnique, NoLeak, Used,
              Results, ResultTaken, store
<1> QED
  BY <1>1, <1>2, <1>3, <1>4, <1>5 DEF Next

\* For any number of slots, keys, hosts and addresses, and any history of calls
\* of kv_store.c, the variables keep their types: the count stays within the
\* array.
THEOREM TypeCorrect == Spec => []TypeOK
<1>1. Spec => []IInv
  BY InitIInv, NextIInv, PTL DEF Spec
<1> QED
  BY <1>1, PTL DEF IInv

\* For any number of slots, keys, hosts and addresses, and any history of calls
\* of kv_store.c: no use after free, no double free, no duplicate key, no leak.
THEOREM StoreAlwaysSound == Spec => []StoreSound
<1>1. Spec => []IInv
  BY InitIInv, NextIInv, PTL DEF Spec
<1> QED
  BY <1>1, PTL DEF IInv
-----------------------------------------------------------------------------
(* The refinement.  By SlotsLive and NoLeak the content of the array is the *)
(* content of the heap, so the order of the slots and the moves of deletes  *)
(* do not matter.                                                           *)

Content(p) == [value |-> heap[p].value, addr |-> heap[p].addr]

\* Each key of Dict is one allocated record, and each allocated record one key.
HeapIsDict ==
    /\ Dict \in [Keys -> [value : Values, addr : Addrs] \cup {NULL}]
    /\ \A k \in Keys : Dict[k] # NULL =>
          \E p \in Ptrs : heap[p] # NULL /\ heap[p].key = k /\ Dict[k] = Content(p)
    /\ \A p \in Ptrs : heap[p] # NULL =>
          heap[p] \in Record /\ Dict[heap[p].key] = Content(p)
    /\ \A p, q \in Ptrs : heap[p] # NULL /\ heap[q] # NULL /\ heap[p].key = heap[q].key
          => p = q

\* A sound array and the map hold the same records.
LEMMA HeapLemma == IInv => HeapIsDict
<1> SUFFICES ASSUME IInv PROVE HeapIsDict
  OBVIOUS
<1>1. \A p \in Ptrs : heap[p] # NULL => heap[p] \in Record
  BY DEF IInv, TypeOK
<1>2. \A i \in Used : records[i] \in Ptrs /\ heap[records[i]] # NULL
  BY DEF IInv, StoreSound, SlotsLive
<1>3. ASSUME NEW k \in Keys
      PROVE  \/ Dict[k] = NULL /\ \A i \in Used : heap[records[i]].key # k
             \/ \E i \in Used : heap[records[i]].key = k /\ Dict[k] = Content(records[i])
  <2> DEFINE idx == kv_store_get_idx(k)
  <2>1. \/ idx = -1 /\ \A j \in Used : heap[records[j]].key # k
        \/ idx \in Used /\ heap[records[idx]].key = k
    BY ScanLemma DEF IInv
  <2>2. Dict[k] = IF idx = -1 THEN NULL ELSE Content(records[idx])
    BY DEF Dict, Content
  <2>3. -1 \notin Used
    BY DEF Used
  <2> HIDE DEF idx
  <2> QED
    BY <2>1, <2>2, <2>3
<1>4. \A p \in Ptrs : heap[p] # NULL => Content(p) \in [value : Values, addr : Addrs]
  BY <1>1 DEF Content, Record
<1>5. \A k \in Keys : Dict[k] \in [value : Values, addr : Addrs] \cup {NULL}
  BY <1>2, <1>3, <1>4
<1>6. Dict \in [Keys -> [value : Values, addr : Addrs] \cup {NULL}]
  <2>1. Dict = [k \in Keys |-> Dict[k]]
    BY DEF Dict
  <2> QED
    BY <1>5, <2>1
<1>7. \A p, q \in Ptrs : heap[p] # NULL /\ heap[q] # NULL /\ heap[p].key = heap[q].key
          => p = q
  BY DEF IInv, StoreSound, NoLeak, KeysUnique
<1>8. ASSUME NEW p \in Ptrs, heap[p] # NULL PROVE Dict[heap[p].key] = Content(p)
  <2>1. heap[p].key \in Keys
    BY <1>1, <1>8 DEF Record
  <2>2. PICK j \in Used : records[j] = p
    BY <1>8 DEF IInv, StoreSound, NoLeak
  <2>3. PICK i \in Used : heap[records[i]].key = heap[p].key /\ Dict[heap[p].key] = Content(records[i])
    BY <1>3, <2>1, <2>2
  <2> QED
    BY <1>2, <1>7, <1>8, <2>3
<1>9. ASSUME NEW k \in Keys, Dict[k] # NULL
      PROVE  \E p \in Ptrs : heap[p] # NULL /\ heap[p].key = k /\ Dict[k] = Content(p)
  BY <1>2, <1>3, <1>9
<1> QED
  BY <1>1, <1>6, <1>7, <1>8, <1>9 DEF HeapIsDict

\* The map holds as many keys as the array has used slots.
LEMMA CountLemma == IInv => Cardinality(Map!Present) = record_cnt
<1> SUFFICES ASSUME IInv PROVE Cardinality(Map!Present) = record_cnt
  OBVIOUS
<1> DEFINE f == [i \in Used |-> heap[records[i]].key]
<1>0. HeapIsDict
  BY HeapLemma
<1>1. record_cnt \in Nat /\ IsFiniteSet(Used) /\ Cardinality(Used) = record_cnt
  <2>1. record_cnt \in Nat
    BY KvAssumption DEF IInv, TypeOK
  <2>2. IsFiniteSet(0 .. record_cnt - 1) /\ Cardinality(0 .. record_cnt - 1)
           = IF 0 > record_cnt - 1 THEN 0 ELSE (record_cnt - 1) - 0 + 1
    BY <2>1, FS_Interval
  <2> QED
    BY <2>1, <2>2 DEF Used
<1>2. \A i \in Used : records[i] \in Ptrs /\ heap[records[i]] # NULL
  BY DEF IInv, StoreSound, SlotsLive
<1>3. f \in [Used -> Map!Present]
  <2>1. \A i \in Used : heap[records[i]].key \in Keys /\ Dict[heap[records[i]].key] # NULL
    <3> SUFFICES ASSUME NEW i \in Used
                 PROVE  heap[records[i]].key \in Keys /\ Dict[heap[records[i]].key] # NULL
      OBVIOUS
    <3>1. heap[records[i]] \in Record /\ Dict[heap[records[i]].key] = Content(records[i])
      BY <1>0, <1>2 DEF HeapIsDict
    <3>2. Content(records[i]) \in [value : Values, addr : Addrs]
      BY <3>1 DEF Content, Record
    <3>3. heap[records[i]].key \in Keys
      BY <3>1 DEF Record
    <3> QED
      BY <3>1, <3>2, <3>3, KvAssumption
  <2> QED
    BY <2>1 DEF Map!Present
<1>4. \A i, j \in Used : f[i] = f[j] => i = j
  BY DEF IInv, StoreSound, KeysUnique
<1>5. \A k \in Map!Present : \E i \in Used : f[i] = k
  BY <1>0 DEF Map!Present, HeapIsDict, IInv, StoreSound, NoLeak
<1>6. f \in Bijection(Used, Map!Present)
  <2> HIDE DEF f
  <2>1. f \in Injection(Used, Map!Present)
    BY <1>3, <1>4 DEF Injection, IsInjective
  <2>2. f \in Surjection(Used, Map!Present)
    BY <1>3, <1>5 DEF Surjection
  <2> QED
    BY <2>1, <2>2 DEF Bijection
<1>7. ExistsBijection(Used, Map!Present)
  BY <1>6 DEF ExistsBijection
<1> QED
  BY <1>1, <1>7, FS_Bijection

\* The map counts with its own copy of Cardinality.
LEMMA MapCount == IInv => Map!Cardinality(Map!Present) = record_cnt
<1>1. ASSUME NEW S PROVE Map!Cardinality(S) = Cardinality(S)
  BY DEF Map!Cardinality, Cardinality
<1> QED
  BY <1>1, CountLemma

\* What is known of the key k through the scan is known of Dict.
LEMMA ScanIsDict ==
    ASSUME IInv, NEW k \in Keys
    PROVE  LET idx == kv_store_get_idx(k)
           IN  \/ idx = -1 /\ Dict[k] = NULL
               \/ /\ idx \in Used /\ idx >= 0 /\ records[idx] \in Ptrs
                  /\ heap[records[idx]] # NULL /\ heap[records[idx]].key = k
                  /\ Dict[k] # NULL
                  /\ Dict[k].addr = heap[records[idx]].addr
                  /\ Dict[k].value = heap[records[idx]].value
<1> DEFINE idx == kv_store_get_idx(k)
<1>1. \/ idx = -1 /\ \A j \in Used : heap[records[j]].key # k
      \/ idx \in Used /\ heap[records[idx]].key = k
  BY ScanLemma DEF IInv
<1>2. Dict[k] = IF idx = -1 THEN NULL ELSE Content(records[idx])
  BY DEF Dict, Content
<1>3. \A i \in Used : i >= 0 /\ records[i] \in Ptrs /\ heap[records[i]] # NULL
  BY DEF Used, IInv, StoreSound, SlotsLive
<1>4. CASE idx = -1
  BY <1>2, <1>4
<1>5. CASE idx # -1
  <2> HIDE DEF idx
  <2>1. idx \in Used /\ heap[records[idx]].key = k /\ Dict[k] = Content(records[idx])
    BY <1>1, <1>2, <1>5
  <2>2. heap[records[idx]] \in Record
    BY <1>3, <2>1 DEF IInv, TypeOK
  <2>3. Content(records[idx]) \in [value : Values, addr : Addrs]
    BY <2>2 DEF Content, Record
  <2>4. Dict[k] # NULL
    BY <2>1, <2>3, KvAssumption
  <2>5. Dict[k].addr = heap[records[idx]].addr /\ Dict[k].value = heap[records[idx]].value
    BY <2>1 DEF Content
  <2> QED
    BY <1>3, <2>1, <2>4, <2>5 DEF idx
<1> QED
  BY <1>4, <1>5

\* A step that allocates and frees records of one key only changes that key.
LEMMA OneKeyEffect ==
    ASSUME IInv, IInv', NEW k \in Keys,
           \A q \in Ptrs : heap'[q] # heap[q] =>
              /\ heap[q] = NULL \/ heap[q].key = k
              /\ heap'[q] = NULL \/ heap'[q].key = k
    PROVE  Dict' = [Dict EXCEPT ![k] = Dict'[k]]
<1>1. HeapIsDict
  BY HeapLemma
<1>2. HeapIsDict'
  BY HeapLemma, PTL
<1>3. ASSUME NEW j \in Keys, j # k PROVE Dict'[j] = Dict[j]
  <2>1. ASSUME Dict[j] # NULL PROVE Dict'[j] = Dict[j]
    <3>1. PICK p \in Ptrs : heap[p] # NULL /\ heap[p].key = j /\ Dict[j] = Content(p)
      BY <1>1, <2>1 DEF HeapIsDict
    <3>2. heap'[p] = heap[p]
      BY <1>3, <3>1
    <3>3. Dict'[j] = Content(p)'
      BY <1>2, <3>1, <3>2 DEF HeapIsDict
    <3> QED
      BY <3>1, <3>2, <3>3 DEF Content
  <2>2. ASSUME Dict'[j] # NULL PROVE Dict'[j] = Dict[j]
    <3>1. PICK p \in Ptrs : heap'[p] # NULL /\ heap'[p].key = j /\ Dict'[j] = Content(p)'
      BY <1>2, <2>2 DEF HeapIsDict
    <3>2. heap'[p] = heap[p]
      BY <1>3, <3>1
    <3>3. Dict[j] = Content(p)
      BY <1>1, <3>1, <3>2 DEF HeapIsDict
    <3> QED
      BY <3>1, <3>2, <3>3 DEF Content
  <2> QED
    BY <2>1, <2>2
<1>4. Dict \in [Keys -> [value : Values, addr : Addrs] \cup {NULL}]
  BY <1>1 DEF HeapIsDict
<1>5. Dict' \in [Keys -> [value : Values, addr : Addrs] \cup {NULL}]
  BY <1>2 DEF HeapIsDict
<1> QED
  BY <1>3, <1>4, <1>5

\* Content is read through records[] and heap only.
LEMMA DictUnchanged == UNCHANGED <<records, record_cnt, heap>> => Dict' = Dict
  BY DEF Dict, kv_store_get_idx, Used

\* A call that returns no pointer replies without a value.
LEMMA PlainReply ==
    ASSUME NEW res, Return(res, NULL) PROVE Map!Reply(res, NULL)
  BY DEF Return, Map!Reply, LastReply

\* kv_store_get() does what the map's Get does.
LEMMA GetRefines ==
    ASSUME IInv, NEW k \in Keys, kv_store_get(k) PROVE Map!Get(k)
<1> DEFINE idx == kv_store_get_idx(k)
<1>1. Dict' = Dict /\ heap' = heap
  BY DictUnchanged DEF kv_store_get
<1>2. IF idx = -1 THEN Return("KV_ERR_NOTFOUND", NULL) ELSE Return("KV_OK", records[idx])
  BY DEF kv_store_get
<1>3. CASE idx = -1
  <2>1. Dict[k] = NULL
    BY <1>3, ScanIsDict DEF Used
  <2> QED
    BY <1>1, <1>2, <1>3, <2>1, PlainReply DEF Map!Get
<1>4. CASE idx # -1
  <2>1. Dict[k] # NULL /\ Dict[k].value = heap[records[idx]].value /\ records[idx] \in Ptrs
    BY <1>4, ScanIsDict
  <2>2. records[idx] # NULL
    BY <2>1, KvAssumption
  <2>3. Map!Reply("KV_OK", Dict[k].value)
    BY <1>1, <1>2, <1>4, <2>1, <2>2 DEF Return, Map!Reply, LastReply
  <2> QED
    BY <1>1, <2>1, <2>3 DEF Map!Get
<1> QED
  BY <1>3, <1>4

\* A set that stores its record puts the value and its creator under the key.
LEMMA SetEffect ==
    ASSUME IInv, IInv', NEW k \in Keys, NEW v \in Values, NEW a \in Addrs,
           NEW p \in Ptrs, heap[p] = NULL,
           Persist(kv_store_get_idx(k), p, k, v, a)
    PROVE  Dict' = [Dict EXCEPT ![k] = [value |-> v, addr |-> a]]
<1> DEFINE idx == kv_store_get_idx(k)
           new == [key |-> k, value |-> v, addr |-> a]
<1>1. new # NULL
  BY KvAssumption
<1>2. heap'[p] = new /\ \A q \in Ptrs \ {p} : heap'[q] # heap[q] =>
                           heap'[q] = NULL /\ (heap[q] = NULL \/ heap[q].key = k)
  <2>1. CASE idx = -1
    BY <2>1 DEF Persist, IInv, TypeOK
  <2>2. CASE idx # -1
    <3>1. records[idx] \in Ptrs /\ heap[records[idx]].key = k
      BY <2>2, ScanIsDict
    <3>2. heap' = [heap EXCEPT ![records[idx]] = NULL, ![p] = new]
      BY <2>2 DEF Persist
    <3> QED
      BY <3>1, <3>2 DEF IInv, TypeOK
  <2> QED
    BY <2>1, <2>2
<1>3. Dict' = [Dict EXCEPT ![k] = Dict'[k]]
  BY <1>2, OneKeyEffect
<1>4. HeapIsDict'
  BY HeapLemma, PTL
<1>5. Dict'[k] = Content(p)'
  BY <1>1, <1>2, <1>4 DEF HeapIsDict
<1>6. Content(p)' = [value |-> v, addr |-> a]
  BY <1>2 DEF Content
<1> QED
  BY <1>3, <1>5, <1>6

\* kv_store_set() does what the map's Set does, malloc() failing included.
LEMMA SetRefines ==
    ASSUME IInv, NEW k \in Keys, NEW v \in Values, NEW a \in Addrs,
           kv_store_set(k, v, a)
    PROVE  Map!Set(k, v, a)
<1> DEFINE idx == kv_store_get_idx(k)
           perm == /\ idx >= 0 /\ ~same_ip_address(a, heap[records[idx]].addr)
                   /\ Return("KV_ERR_PERM", NULL)
                   /\ UNCHANGED <<records, record_cnt, heap>>
           full == /\ idx = -1 /\ Full /\ Return("KV_ERR_FULL", NULL)
                   /\ UNCHANGED <<records, record_cnt, heap>>
           go == /\ idx >= 0 => same_ip_address(a, heap[records[idx]].addr)
                 /\ idx = -1 => ~Full
           nomem == Return("KV_ERR_NOMEM", NULL) /\ UNCHANGED <<records, record_cnt, heap>>
           done == /\ \E p \in Ptrs : heap[p] = NULL /\ Persist(idx, p, k, v, a)
                   /\ Return("KV_OK", NULL)
<1>1. perm \/ full \/ (go /\ (nomem \/ done))
  BY DEF kv_store_set
<1>2. IInv'
  BY SetStep
<1>3. \/ idx = -1 /\ Dict[k] = NULL
      \/ idx >= 0 /\ Dict[k] # NULL /\ Dict[k].addr = heap[records[idx]].addr
  BY ScanIsDict
<1>4. Full <=> Map!Cardinality(Map!Present) >= MAX_RECORDS
  BY MapCount DEF Full
<1>5. ~Full <=> Map!Cardinality(Map!Present) < MAX_RECORDS
  BY MapCount, KvAssumption DEF Full, IInv, TypeOK
<1>6. CASE perm
  <2>1. Dict' = Dict /\ Map!Reply("KV_ERR_PERM", NULL)
    BY <1>6, DictUnchanged, PlainReply
  <2>2. Dict[k] # NULL /\ ~same_ip_address(a, Dict[k].addr)
    BY <1>3, <1>6
  <2> QED
    BY <2>1, <2>2 DEF Map!Set
<1>7. CASE full
  <2>1. Dict' = Dict /\ Map!Reply("KV_ERR_FULL", NULL)
    BY <1>7, DictUnchanged, PlainReply
  <2>2. Dict[k] = NULL /\ Map!Cardinality(Map!Present) >= MAX_RECORDS
    BY <1>3, <1>4, <1>7
  <2> QED
    BY <2>1, <2>2 DEF Map!Set
<1>8. ASSUME go PROVE /\ Dict[k] # NULL => same_ip_address(a, Dict[k].addr)
                      /\ Dict[k] = NULL => Map!Cardinality(Map!Present) < MAX_RECORDS
  BY <1>3, <1>5, <1>8
<1>9. CASE go /\ nomem
  <2>1. Dict' = Dict /\ Map!Reply("KV_ERR_NOMEM", NULL)
    BY <1>9, DictUnchanged, PlainReply
  <2> QED
    BY <1>8, <1>9, <2>1 DEF Map!Set
<1>10. CASE go /\ done
  <2>1. PICK p \in Ptrs : heap[p] = NULL /\ Persist(idx, p, k, v, a)
    BY <1>10
  <2>2. Dict' = [Dict EXCEPT ![k] = [value |-> v, addr |-> a]]
    BY <1>2, <2>1, SetEffect
  <2>3. Map!Reply("KV_OK", NULL)
    BY <1>10, PlainReply
  <2> QED
    BY <1>8, <1>10, <2>2, <2>3 DEF Map!Set
<1> QED
  BY <1>1, <1>6, <1>7, <1>9, <1>10

\* kv_store_delete() does what the map's Delete does: the record moved into the
\* hole keeps its key.
LEMMA DeleteRefines ==
    ASSUME IInv, NEW k \in Keys, NEW a \in Addrs, kv_store_delete(k, a)
    PROVE  Map!Delete(k, a)
<1> DEFINE idx == kv_store_get_idx(k)
           none == /\ idx = -1 /\ Return("KV_ERR_NOTFOUND", NULL)
                   /\ UNCHANGED <<records, record_cnt, heap>>
           perm == /\ idx >= 0 /\ ~same_ip_address(a, heap[records[idx]].addr)
                   /\ Return("KV_ERR_PERM", NULL)
                   /\ UNCHANGED <<records, record_cnt, heap>>
           done == /\ idx >= 0 /\ same_ip_address(a, heap[records[idx]].addr)
                   /\ heap' = [heap EXCEPT ![records[idx]] = NULL]
                   /\ Return("KV_OK", NULL)
<1>1. none \/ perm \/ done
  BY DEF kv_store_delete
<1>2. IInv'
  BY DeleteStep
<1>3. \/ idx = -1 /\ Dict[k] = NULL
      \/ idx >= 0 /\ Dict[k] # NULL /\ Dict[k].addr = heap[records[idx]].addr
  BY ScanIsDict
<1>4. CASE none
  <2>1. Dict' = Dict /\ Map!Reply("KV_ERR_NOTFOUND", NULL)
    BY <1>4, DictUnchanged, PlainReply
  <2>2. Dict[k] = NULL
    BY <1>3, <1>4
  <2> QED
    BY <2>1, <2>2 DEF Map!Delete
<1>5. CASE perm
  <2>1. Dict' = Dict /\ Map!Reply("KV_ERR_PERM", NULL)
    BY <1>5, DictUnchanged, PlainReply
  <2>2. Dict[k] # NULL /\ ~same_ip_address(a, Dict[k].addr)
    BY <1>3, <1>5
  <2> QED
    BY <2>1, <2>2 DEF Map!Delete
<1>6. CASE done
  <2>1. records[idx] \in Ptrs /\ heap[records[idx]].key = k /\ heap[records[idx]] # NULL
    BY <1>6, ScanIsDict
  <2>2. heap'[records[idx]] = NULL /\ \A q \in Ptrs \ {records[idx]} : heap'[q] = heap[q]
    BY <1>6, <2>1 DEF IInv, TypeOK
  <2>3. Dict' = [Dict EXCEPT ![k] = Dict'[k]]
    BY <1>2, <2>1, <2>2, OneKeyEffect
  <2>4. HeapIsDict /\ HeapIsDict'
    BY <1>2, HeapLemma, PTL
  <2>5. Dict'[k] = NULL
    <3> SUFFICES ASSUME Dict'[k] # NULL PROVE FALSE
      OBVIOUS
    <3>1. PICK p \in Ptrs : heap'[p] # NULL /\ heap'[p].key = k
      BY <2>4 DEF HeapIsDict
    <3>2. p # records[idx] /\ heap[p] = heap'[p]
      BY <2>2, <3>1
    <3> QED
      BY <2>1, <2>4, <3>1, <3>2 DEF HeapIsDict
  <2>6. Map!Reply("KV_OK", NULL)
    BY <1>6, PlainReply
  <2>7. Dict[k] # NULL /\ same_ip_address(a, Dict[k].addr)
    BY <1>3, <1>6
  <2> QED
    BY <2>3, <2>5, <2>6, <2>7 DEF Map!Delete
<1> QED
  BY <1>1, <1>4, <1>5, <1>6

\* kv_store_cleanup() empties the map.
LEMMA CleanupRefines == IInv /\ kv_store_cleanup => Map!Clear
<1> SUFFICES ASSUME IInv, kv_store_cleanup PROVE Map!Clear
  OBVIOUS
<1>1. Used' = {}
  BY DEF kv_store_cleanup, Used
<1>2. \A k \in Keys : kv_store_get_idx(k)' = -1
  BY <1>1 DEF kv_store_get_idx
<1>3. Dict' = [k \in Keys |-> NULL]
  BY <1>2 DEF Dict
<1>4. Map!Reply("KV_OK", NULL)
  BY PlainReply DEF kv_store_cleanup
<1> QED
  BY <1>3, <1>4 DEF Map!Clear

\* Every call of kv_store.h, and every step that leaves the store alone, is a
\* step of the map or changes neither the map nor its reply.
LEMMA StepRefines == IInv /\ [Next]_store => [Map!Next]_<<Dict, LastReply>>
<1> SUFFICES ASSUME IInv, [Next]_store PROVE [Map!Next]_<<Dict, LastReply>>
  OBVIOUS
<1>1. CASE \E k \in Keys : kv_store_get(k)
  BY <1>1, GetRefines DEF Map!Next
<1>2. CASE \E k \in Keys, v \in Values, a \in Addrs : kv_store_set(k, v, a)
  BY <1>2, SetRefines DEF Map!Next
<1>3. CASE \E k \in Keys, a \in Addrs : kv_store_delete(k, a)
  BY <1>3, DeleteRefines DEF Map!Next
<1>4. CASE kv_store_cleanup
  BY <1>4, CleanupRefines DEF Map!Next
<1>5. CASE ResultTaken
  <2>1. Dict' = Dict
    BY <1>5, DictUnchanged DEF ResultTaken
  <2>2. Map!Reply("KV_OK", NULL)
    BY <1>5, PlainReply DEF ResultTaken, Return
  <2> QED
    BY <2>1, <2>2 DEF Map!Next, Map!Taken
<1>6. CASE UNCHANGED store
  <2>1. Dict' = Dict
    BY <1>6, DictUnchanged DEF store
  <2>2. LastReply' = LastReply
    BY <1>6 DEF store, LastReply
  <2> QED
    BY <2>1, <2>2
<1> QED
  BY <1>1, <1>2, <1>3, <1>4, <1>5, <1>6 DEF Next

\* The empty array is the empty map.
LEMMA InitRefines == Init => Map!Init
<1> SUFFICES ASSUME Init PROVE Map!Init
  OBVIOUS
<1>1. Used = {}
  BY DEF Init, Used
<1>2. Dict = [k \in Keys |-> NULL]
  BY <1>1 DEF Dict, kv_store_get_idx
<1> QED
  BY <1>2 DEF Init, Map!Init, LastReply

\* For any number of slots, keys, hosts and addresses: the unordered array of
\* kv_store.c, which frees, replaces and moves records, is indistinguishable
\* from the map of KvMap in its content and in what each call returns.
THEOREM Refinement == Spec => ImplementsMap
<1>1. Spec => []IInv
  BY InitIInv, NextIInv, PTL DEF Spec
<1> QED
  BY <1>1, InitRefines, StepRefines, PTL DEF Spec, ImplementsMap, Map!Spec
=============================================================================
