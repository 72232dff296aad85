--------------------------- MODULE ThreadsafeTree ---------------------------
(***************************************************************************)
(* chapter_30/threadsafe_tree.c: a binary search tree whose every node has *)
(* a mutex.  A step of a thread locks one node and runs to its next        *)
(* pthread_mutex_lock(), which loses no interleaving of steps that touch a *)
(* node while its mutex is held.  The one place that does not hold it, the *)
(* write into curr after line 265 has unlocked it, is a step of its own.   *)
(***************************************************************************)
EXTENDS Integers, FiniteSets

CONSTANTS Threads, Values, NULL,
          Keys,       \* integers, for the order of strcmp()
          Nodes,      \* addresses of nodes, integers; the root is ROOT
          ROOT,
          Trees,      \* the trees to start from
          MaxOps      \* bound: calls in a behaviour

ASSUME TreeAssumption == /\ Keys \subseteq Int /\ ROOT \in Nodes
                         /\ NULL \notin Keys \cup Nodes
                         /\ MaxOps \in Nat

VARIABLES mem,     \* nodes: NULL when not allocated, or [key, value, left, right]
          mtx,     \* the holder of each node's mutex
          th,      \* threads: the call each is in, its locals and its last result
          ops,     \* calls still allowed
          lossy    \* history: a subtree was dropped with the successor

vars == <<mem, mtx, th, ops, lossy>>

Idle == [pc |-> "idle", op |-> NULL, key |-> NULL, val |-> NULL, want |-> NULL,
         curr |-> NULL, parent |-> NULL, gp |-> NULL, s |-> NULL, sp |-> NULL,
         res |-> NULL]

Init == /\ mem \in Trees
        /\ mtx = [n \in Nodes |-> NULL]
        /\ th = [t \in Threads |-> Idle]
        /\ ops = MaxOps
        /\ lossy = FALSE
-----------------------------------------------------------------------------
\* The children are left as malloc() returns them.
new_tree_dirty(k, v) == [key |-> k, value |-> v, left |-> -1, right |-> -1]

new_tree(k, v) == [key |-> k, value |-> v, left |-> NULL, right |-> NULL]

\* The child the search for k goes on to; an empty root has none.
Child(n, k) == IF mem[n].key # NULL /\ k < mem[n].key
               THEN mem[n].left ELSE mem[n].right

\* parent->left == child ? parent->left = c : parent->right = c
Replace(m, n, child, c) == IF m[n].left = child THEN [m EXCEPT ![n].left = c]
                                                ELSE [m EXCEPT ![n].right = c]

delete_node(m, n) == [m EXCEPT ![n] = NULL]

Leaf(n) == mem[n].left = NULL /\ mem[n].right = NULL
Full(n) == mem[n].left # NULL /\ mem[n].right # NULL
Only(n) == IF mem[n].left # NULL THEN mem[n].left ELSE mem[n].right

\* The nodes t has pointers to and will touch are allocated.
Alive(t) == \A n \in {th[t].want, th[t].curr, th[t].parent, th[t].gp,
                      th[t].s, th[t].sp} \ {NULL} : mem[n] # NULL

\* t can take the mutex it waits for.
CanLock(t) == Alive(t) /\ mtx[th[t].want] = NULL

\* Mutexes after t takes one and releases some, whoever holds those.
Locks(t, released) ==
    mtx' = [n \in Nodes |-> IF n \in released THEN NULL
                            ELSE IF n = th[t].want THEN t ELSE mtx[n]]

Done(t, res) == th' = [th EXCEPT ![t] = [Idle EXCEPT !.res = res]]

Start(t, op, k, v) ==
    /\ th[t].pc = "idle" /\ ops > 0
    /\ th' = [th EXCEPT ![t] = [Idle EXCEPT !.pc = "root", !.op = op,
                                   !.key = k, !.val = v, !.want = ROOT]]
    /\ ops' = ops - 1
    /\ UNCHANGED <<mem, mtx, lossy>>
-----------------------------------------------------------------------------
(* add() and lookup(): both go down holding a node and its parent.         *)

\* Nodes released before the next one is locked.
Descend_unlocked(t) ==
    LET n == th[t].want
        c == Child(n, th[t].key)
    IN  /\ mem[n].key # th[t].key /\ c # NULL
        /\ th' = [th EXCEPT ![t].pc = "walk", ![t].parent = th[t].curr,
                            ![t].curr = n, ![t].want = c]
        /\ Locks(t, {th[t].parent, th[t].curr, n})
        /\ UNCHANGED mem

Descend(t) ==
    LET n == th[t].want
        c == Child(n, th[t].key)
    IN  /\ mem[n].key # th[t].key /\ c # NULL
        /\ th' = [th EXCEPT ![t].pc = "walk", ![t].parent = th[t].curr,
                            ![t].curr = n, ![t].want = c]
        /\ Locks(t, {th[t].parent})
        /\ UNCHANGED mem

AddArrives(t) ==
    LET n == th[t].want
        k == th[t].key
    IN  /\ \/ /\ n = ROOT /\ mem[n].key = NULL
              /\ mem' = [mem EXCEPT ![n].key = k, ![n].value = th[t].val]
           \/ /\ mem[n].key = k
              /\ mem' = [mem EXCEPT ![n].value = th[t].val]
           \/ /\ mem[n].key \notin {NULL, k} /\ Child(n, k) = NULL
              /\ \E new \in Nodes :      \* the lowest free address
                   /\ mem[new] = NULL
                   /\ \A m \in Nodes : mem[m] = NULL => new <= m
                   /\ mem' = [mem EXCEPT
                                ![new] = new_tree(k, th[t].val),
                                ![n] = IF k < @.key THEN [@ EXCEPT !.left = new]
                                                    ELSE [@ EXCEPT !.right = new]]
        /\ Done(t, NULL)

\* The answer is [found, value].
LookupArrives(t) ==
    LET n == th[t].want
        k == th[t].key
    IN  /\ \/ /\ mem[n].key = k
              /\ Done(t, [found |-> TRUE, value |-> mem[n].value])
           \/ /\ mem[n].key # k
              /\ mem[n].key = NULL \/ Child(n, k) = NULL
              /\ Done(t, [found |-> FALSE, value |-> NULL])
        /\ UNCHANGED mem

Search(t) ==
    /\ th[t].op \in {"add", "lookup"} /\ CanLock(t)
    /\ \/ mem[th[t].want].key # NULL /\ Descend(t)
       \/ /\ \/ th[t].op = "add" /\ AddArrives(t)
             \/ th[t].op = "lookup" /\ LookupArrives(t)
          /\ Locks(t, {th[t].want, th[t].curr, th[t].parent})
    /\ UNCHANGED <<ops, lossy>>
-----------------------------------------------------------------------------
(* delete(): the root stays where it is and takes the content of another   *)
(* node; any other node is unlinked from its parent, which stays locked.   *)

DeleteRoot(t) ==
    LET k == th[t].key
    IN  /\ th[t].op = "delete" /\ th[t].pc = "root" /\ CanLock(t)
        /\ \/ /\ mem[ROOT].key = NULL
              /\ Done(t, NULL) /\ Locks(t, {ROOT}) /\ UNCHANGED mem
           \/ /\ mem[ROOT].key = k /\ Leaf(ROOT)
              /\ mem' = [mem EXCEPT ![ROOT].key = NULL, ![ROOT].value = NULL]
              /\ Done(t, NULL) /\ Locks(t, {ROOT})
           \/ /\ mem[ROOT].key = k /\ ~Leaf(ROOT)
              /\ th' = [th EXCEPT ![t].pc = IF Full(ROOT) THEN "rootsucc" ELSE "rootchild",
                                  ![t].want = IF Full(ROOT) THEN mem[ROOT].right ELSE Only(ROOT)]
              /\ Locks(t, {}) /\ UNCHANGED mem
           \/ /\ mem[ROOT].key \notin {NULL, k} /\ Child(ROOT, k) = NULL
              /\ Done(t, NULL) /\ Locks(t, {ROOT}) /\ UNCHANGED mem
           \/ /\ mem[ROOT].key \notin {NULL, k} /\ Child(ROOT, k) # NULL
              /\ th' = [th EXCEPT ![t].pc = "walk", ![t].parent = ROOT,
                                  ![t].want = Child(ROOT, k)]
              /\ Locks(t, {}) /\ UNCHANGED mem
        /\ UNCHANGED <<ops, lossy>>

\* The only child's content, children included, moves into the root.
DeleteRootChild(t) ==
    LET c == th[t].want
    IN  /\ th[t].pc = "rootchild" /\ CanLock(t)
        /\ mem' = delete_node([mem EXCEPT ![ROOT] = mem[c]], c)
        /\ Done(t, NULL) /\ Locks(t, {ROOT, c})
        /\ UNCHANGED <<ops, lossy>>

\* Two children: the leftmost node of the right subtree.  Its own right
\* subtree goes with it, for the pointer to it is set to NULL.
DeleteRootSuccessor(t) ==
    LET n  == th[t].want
        sp == th[t].s          \* the parent of n, unless that is the root
    IN  /\ th[t].pc = "rootsucc" /\ CanLock(t)
        /\ \/ /\ mem[n].left # NULL
              /\ th' = [th EXCEPT ![t].want = mem[n].left, ![t].s = n, ![t].sp = sp]
              /\ Locks(t, {th[t].sp})
              /\ UNCHANGED <<mem, lossy>>
           \/ /\ mem[n].left = NULL
              /\ mem' = LET m == [mem EXCEPT ![ROOT].key = mem[n].key,
                                             ![ROOT].value = mem[n].value]
                        IN  Replace(delete_node(m, n),
                                    IF n = mem[ROOT].right THEN ROOT ELSE sp, n, NULL)
              /\ lossy' = (lossy \/ mem[n].right # NULL)
              /\ Done(t, NULL) /\ Locks(t, {th[t].sp, sp, n, ROOT})
        /\ UNCHANGED ops

\* The grandparent is never unlocked.
DeleteWalk_keeps_lock(t) ==
    LET n == th[t].want
        k == th[t].key
    IN  /\ th[t].op = "delete" /\ th[t].pc = "walk" /\ CanLock(t)
        /\ mem[n].key # k
        /\ \/ /\ Child(n, k) # NULL
              /\ th' = [th EXCEPT ![t].gp = th[t].parent, ![t].parent = n,
                                  ![t].want = Child(n, k)]
              /\ Locks(t, {})
           \/ /\ Child(n, k) = NULL
              /\ Done(t, NULL) /\ Locks(t, {th[t].gp, th[t].parent, n})
        /\ UNCHANGED <<mem, ops, lossy>>

\* The way down to the node: it, its parent and, while waiting, its
\* grandparent are locked.
DeleteWalk(t) ==
    LET n == th[t].want
        k == th[t].key
    IN  /\ th[t].op = "delete" /\ th[t].pc = "walk" /\ CanLock(t)
        /\ mem[n].key # k
        /\ \/ /\ Child(n, k) # NULL
              /\ th' = [th EXCEPT ![t].gp = th[t].parent, ![t].parent = n,
                                  ![t].want = Child(n, k)]
              /\ Locks(t, {th[t].gp})
           \/ /\ Child(n, k) = NULL
              /\ Done(t, NULL) /\ Locks(t, {th[t].gp, th[t].parent, n})
        /\ UNCHANGED <<mem, ops, lossy>>

\* The child is not linked to the parent.
Unlink_drops_child(n, parent) == delete_node(Replace(mem, parent, n, NULL), n)

\* A node with at most one child: the parent takes the child over.
Unlink(n, parent) == delete_node(Replace(mem, parent, n, Only(n)), n)

DeleteFound(t) ==
    LET n == th[t].want
        parent == th[t].parent
    IN  /\ th[t].op = "delete" /\ th[t].pc = "walk" /\ CanLock(t)
        /\ mem[n].key = th[t].key
        /\ \/ /\ ~Full(n)
              /\ mem' = Unlink(n, parent)
              /\ Done(t, NULL) /\ Locks(t, {th[t].gp, parent, n})
           \/ /\ Full(n)
              /\ th' = [th EXCEPT ![t].pc = "succ", ![t].curr = n, ![t].sp = n,
                                  ![t].gp = NULL, ![t].want = mem[n].right]
              /\ Locks(t, {th[t].gp}) /\ UNCHANGED mem
        /\ UNCHANGED <<ops, lossy>>

\* Two children: going left from the right child, the second step unlocks
\* curr, the node that will take the successor's content.
DeleteSuccessorWalk(t) ==
    LET n == th[t].want
        first == th[t].s = NULL
    IN  /\ th[t].pc = "succ" /\ CanLock(t)
        /\ th' = [th EXCEPT ![t].s = n,
                            ![t].sp = IF first THEN th[t].curr ELSE th[t].s,
                            ![t].want = mem[n].left,
                            ![t].pc = IF mem[n].left = NULL THEN "overwrite" ELSE "succ"]
        /\ Locks(t, IF first THEN {} ELSE {th[t].sp})
        /\ UNCHANGED <<mem, ops, lossy>>

\* curr takes the successor's content; the successor goes, and with it its
\* right subtree, for the pointer to it is set to NULL.
DeleteOverwrite(t) ==
    LET curr == th[t].curr
        s  == th[t].s
        sp == th[t].sp
    IN  /\ th[t].pc = "overwrite" /\ Alive(t)
        /\ mem' = LET m == [mem EXCEPT ![curr].key = mem[s].key,
                                       ![curr].value = mem[s].value]
                  IN  delete_node(Replace(m, sp, s, NULL), s)
        /\ lossy' = (lossy \/ mem[s].right # NULL)
        /\ Done(t, NULL) /\ Locks(t, {s, sp, curr, th[t].parent})
        /\ UNCHANGED ops

Delete(t) == \/ DeleteRoot(t) \/ DeleteRootChild(t) \/ DeleteRootSuccessor(t)
             \/ DeleteWalk(t) \/ DeleteFound(t) \/ DeleteSuccessorWalk(t)
             \/ DeleteOverwrite(t)

Call(t) == \E k \in Keys : \/ Start(t, "lookup", k, NULL)
                           \/ Start(t, "delete", k, NULL)
                           \/ \E v \in Values : Start(t, "add", k, v)

Step(t) == Search(t) \/ Delete(t)

Next == \E t \in Threads : Call(t) \/ Step(t)

\* Each thread that can take its next mutex does so at last.
Spec == Init /\ [][Next]_vars /\ \A t \in Threads : WF_vars(Step(t))
-----------------------------------------------------------------------------
\* The nodes under n, n included.
Below[d \in Nat, n \in Nodes \cup {NULL}] ==
    IF n = NULL \/ d = 0 THEN {}
    ELSE IF mem[n] = NULL THEN {n}
    ELSE {n} \cup Below[d - 1, mem[n].left] \cup Below[d - 1, mem[n].right]

Under(n)  == Below[Cardinality(Nodes) + 1, n]
Reachable == Under(ROOT)

\* What the tree holds.
Content == [k \in Keys |->
    IF \E n \in Reachable : mem[n] # NULL /\ mem[n].key = k
    THEN mem[CHOOSE n \in Reachable : mem[n] # NULL /\ mem[n].key = k].value
    ELSE NULL]

\* Nodes hold keys, values and pointers to nodes; a mutex has one holder.
TypeOK ==
    /\ \A n \in Nodes : mem[n] # NULL =>
         mem[n] \in [key : Keys \cup {NULL}, value : Values \cup {NULL},
                     left : Nodes \cup {NULL}, right : Nodes \cup {NULL}]
    /\ mtx \in [Nodes -> Threads \cup {NULL}]
    /\ ops \in 0 .. MaxOps

\* The tree is a search tree of allocated nodes and nobody has a pointer to a
\* freed one, whatever the threads add, look up and delete at the same time:
\* 02.md's worry that "we might modify invalid memory space".  It holds also
\* after delete() has unlocked the node it is about to overwrite, for the
\* parent stays locked and is the only way to that node.
SearchTree ==
    /\ \A n \in Reachable : mem[n] # NULL
    /\ \A n \in Reachable :
         /\ \A m \in Under(mem[n].left)  : mem[m].key < mem[n].key
         /\ \A m \in Under(mem[n].right) : mem[n].key < mem[m].key
    /\ \A t \in Threads : Alive(t)

\* Every call takes effect at once, when it returns, as long as no successor
\* with a right subtree was deleted: a lookup answers what the tree holds at
\* that moment, an add or a delete changes its own key and no other, and
\* nothing else changes what the tree holds.
Linearizable ==
    [][~lossy' =>
        \/ \E t \in Threads :
             /\ th[t].pc # "idle" /\ th'[t].pc = "idle"
             /\ \/ th[t].op = "add"
                   /\ Content' = [Content EXCEPT ![th[t].key] = th[t].val]
                \/ th[t].op = "delete"
                   /\ Content' = [Content EXCEPT ![th[t].key] = NULL]
                \/ /\ th[t].op = "lookup" /\ Content' = Content
                   /\ th'[t].res.found = (Content[th[t].key] # NULL)
                   /\ th'[t].res.value = Content[th[t].key]
        \/ /\ Content' = Content
           /\ \A t \in Threads : th'[t].pc = "idle" => th[t].pc = "idle"]_vars

\* Every call returns: locks are taken downwards only, so that nobody waits
\* for ever.
CallsReturn == \A t \in Threads :
    th[t].pc # "idle" ~> th[t].pc = "idle"

\* A key leaves the tree only by a delete() of that key: "remove successor
\* node" (line 154) removes that node and no other.
OnlyItsKey ==
    [][\A k \in Keys : Content[k] # NULL /\ Content'[k] = NULL =>
         \E t \in Threads : /\ th[t].op = "delete" /\ th[t].key = k
                            /\ th'[t].pc = "idle"]_vars
=============================================================================
