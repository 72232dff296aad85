------------------------------- MODULE KvMap -------------------------------
(***************************************************************************)
(* What the key-value store promises (chapter_59/kv_store.h): a map from   *)
(* keys to a value and its creator, holding at most MAX_RECORDS keys, in   *)
(* which only the creator's host may replace or delete an entry.  KvStore  *)
(* implements it with an unordered array of heap records.                  *)
(***************************************************************************)
EXTENDS Integers, FiniteSets

CONSTANTS Keys, Values, Addrs, MAX_RECORDS, NULL,
          SameHost(_, _)   \* two addresses name the same client machine

VARIABLES dict,  \* [Keys -> NULL or [value, addr]]
          reply  \* result of the last call: [res, value]

Present == {k \in Keys : dict[k] # NULL}

Reply(res, v) == reply' = [res |-> res, value |-> v]

Init == /\ dict = [k \in Keys |-> NULL]
        /\ reply = [res |-> "KV_OK", value |-> NULL]

Set(k, v, a) ==
    \/ /\ dict[k] # NULL /\ ~SameHost(a, dict[k].addr)
       /\ Reply("KV_ERR_PERM", NULL) /\ UNCHANGED dict
    \/ /\ dict[k] = NULL /\ Cardinality(Present) >= MAX_RECORDS
       /\ Reply("KV_ERR_FULL", NULL) /\ UNCHANGED dict
    \/ /\ dict[k] # NULL => SameHost(a, dict[k].addr)
       /\ dict[k] = NULL => Cardinality(Present) < MAX_RECORDS
       /\ \/ /\ dict' = [dict EXCEPT ![k] = [value |-> v, addr |-> a]]
             /\ Reply("KV_OK", NULL)
          \/ Reply("KV_ERR_NOMEM", NULL) /\ UNCHANGED dict

Get(k) == /\ IF dict[k] = NULL THEN Reply("KV_ERR_NOTFOUND", NULL)
                               ELSE Reply("KV_OK", dict[k].value)
          /\ UNCHANGED dict

Delete(k, a) ==
    \/ /\ dict[k] = NULL
       /\ Reply("KV_ERR_NOTFOUND", NULL) /\ UNCHANGED dict
    \/ /\ dict[k] # NULL /\ ~SameHost(a, dict[k].addr)
       /\ Reply("KV_ERR_PERM", NULL) /\ UNCHANGED dict
    \/ /\ dict[k] # NULL /\ SameHost(a, dict[k].addr)
       /\ dict' = [dict EXCEPT ![k] = NULL] /\ Reply("KV_OK", NULL)

Clear == dict' = [k \in Keys |-> NULL] /\ Reply("KV_OK", NULL)

Taken == Reply("KV_OK", NULL) /\ UNCHANGED dict

Next == \/ \E k \in Keys : Get(k)
        \/ \E k \in Keys, v \in Values, a \in Addrs : Set(k, v, a)
        \/ \E k \in Keys, a \in Addrs : Delete(k, a)
        \/ Clear
        \/ Taken

Spec == Init /\ [][Next]_<<dict, reply>>
=============================================================================
