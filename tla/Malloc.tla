------------------------------- MODULE Malloc -------------------------------
(***************************************************************************)
(* The allocator of chapter_07/mymalloc.c: chunks with boundary tags, a    *)
(* doubly linked free list, first fit, splitting and coalescing.  Memory   *)
(* is a function from the addresses of 8-byte words to numbers, because    *)
(* the allocator reads the same words as sizes, flags and pointers.        *)
(***************************************************************************)
EXTENDS Integers, FiniteSets

CONSTANTS
    Requests,      \* sizes asked of mymalloc(), in bytes
    HEAP_BASE,     \* the break before the first sbrk()
    HEAP_END,      \* sbrk() fails beyond this address
    PAGE           \* size of a page: what is mapped ends with one

ASSUME MallocAssumption == /\ Requests \subseteq Nat \ {0}
                           /\ {HEAP_BASE, HEAP_END, PAGE} \subseteq {8 * i : i \in 1 .. HEAP_END}

VARIABLES
    hp,       \* [mem, head, brk]: the words, free_list_head, the program break
    live,     \* the blocks in use: payload address -> bytes asked for
    broken    \* why the allocator is not followed further, or "no"

mallocvars == <<hp, live, broken>>

NULL == 0
SIZE_HEADER_SIZE    == 8
CHUNK_OVERHEAD      == 2 * SIZE_HEADER_SIZE
MIN_FREE_CHUNK_SIZE == 4 * SIZE_HEADER_SIZE
ALIGN_8(x) == ((x - 1) \div 8) * 8 + 8

Addresses == {8 * i : i \in HEAP_BASE \div 8 .. HEAP_END \div 8 - 1}

\* No more chunks than this fit, a chunk having three words at least.
ChunkBound == Cardinality(Addresses) \div 3

\* What the words of a block's payload hold once its owner has filled it: no
\* size and no address, though it would pass for a flagged size.
Filled == 3

\* A word; past the break the rest of the page reads as zeroes.
Word(h, a) == IF a \in Addresses /\ a < h.brk THEN h.mem[a] ELSE 0
Store(h, a, v) == [h EXCEPT !.mem[a] = v]

CHUNK_SIZE(h, c) == (Word(h, c) \div 2) * 2
IS_FREE(h, c)    == Word(h, c) % 2 = 1
SET_FREE(h, c)   == Store(h, c, CHUNK_SIZE(h, c) + 1)
SET_ALLOCATED(h, c) == Store(h, c, CHUNK_SIZE(h, c))
prev(h, c) == Word(h, c + 8)
next(h, c) == Word(h, c + 16)

set_chunk_size_headers(h, chunk, size) ==
    Store(Store(h, chunk, size), chunk + size + SIZE_HEADER_SIZE, size)

remove_from_free_list(h, chunk) ==
    LET p == prev(h, chunk)  n == next(h, chunk)
        h1 == IF p # NULL THEN Store(h, p + 16, n) ELSE [h EXCEPT !.head = n]
    IN IF n # NULL THEN Store(h1, n + 8, p) ELSE h1

add_to_free_list(h, chunk) ==
    LET h1 == Store(h, chunk + 16, h.head)
        h2 == IF h.head # NULL THEN Store(h1, h.head + 8, chunk) ELSE h1
    IN Store([h2 EXCEPT !.head = chunk], chunk + 8, NULL)

\* The free list as the set of its chunks, following next.
FreeList(h) ==
    LET reach[k \in 0 .. ChunkBound] ==
          IF k = 0 THEN {h.head} \ {NULL}
          ELSE LET r == reach[k - 1] IN r \cup ({next(h, c) : c \in r} \ {NULL})
    IN reach[ChunkBound]

\* The first chunk of the list that is large enough, or NULL.
find_free_chunk(h, size) ==
    LET from[k \in 0 .. ChunkBound] ==
          IF k = 0 THEN h.head
          ELSE LET c == from[k - 1]
               IN IF c = NULL \/ CHUNK_SIZE(h, c) >= size THEN c ELSE next(h, c)
    IN from[ChunkBound]

split_chunk(h, chunk, size) ==
    LET taken == size + CHUNK_OVERHEAD  new_chunk == chunk + taken
        h1 == set_chunk_size_headers(h, new_chunk, CHUNK_SIZE(h, chunk) - taken)
        h2 == add_to_free_list(SET_FREE(h1, new_chunk), new_chunk)
    IN IF CHUNK_SIZE(h, chunk) < taken + MIN_FREE_CHUNK_SIZE THEN h
       ELSE set_chunk_size_headers(h2, chunk, size)

get_prev_chunk(h, chunk) ==
    IF chunk - 8 < HEAP_BASE THEN NULL
    ELSE chunk - CHUNK_SIZE(h, chunk - 8) - CHUNK_OVERHEAD

\* Mutant: the absorbed chunk stays on the list.
coalesce_Keep(h, chunk) ==
    LET next_chunk == chunk + CHUNK_SIZE(h, chunk) + CHUNK_OVERHEAD
    IN IF IS_FREE(h, next_chunk)
       THEN set_chunk_size_headers(h, chunk,
                CHUNK_SIZE(h, chunk) + CHUNK_OVERHEAD + CHUNK_SIZE(h, next_chunk))
       ELSE h

\* Absorbs the chunk after and the chunk before a freed one, where flagged free.
coalesce(h, chunk) ==
    LET next_chunk == chunk + CHUNK_SIZE(h, chunk) + CHUNK_OVERHEAD
        merged(g, c, d) == set_chunk_size_headers(g, c,
                               CHUNK_SIZE(g, c) + CHUNK_OVERHEAD + CHUNK_SIZE(g, d))
        h1 == IF IS_FREE(h, next_chunk)
              THEN merged(remove_from_free_list(h, next_chunk), chunk, next_chunk) ELSE h
        prev_chunk == get_prev_chunk(h1, chunk)
    IN IF prev_chunk # NULL /\ IS_FREE(h1, prev_chunk)
       THEN merged(remove_from_free_list(h1, chunk), prev_chunk, chunk) ELSE h1

expand_heap(h, size) ==
    set_chunk_size_headers([h EXCEPT !.brk = @ + size + CHUNK_OVERHEAD], h.brk, size)
-----------------------------------------------------------------------------
MallocInit == /\ hp = [mem |-> [a \in Addresses |-> 0], head |-> NULL, brk |-> HEAP_BASE]
              /\ live = <<>> /\ broken = "no"

\* The caller gets the payload and fills the bytes it asked for.
Hand(h, chunk, size) ==
    LET ptr == chunk + SIZE_HEADER_SIZE
    IN /\ hp' = [h EXCEPT !.mem = [a \in Addresses |->
                    IF a \in ptr .. ptr + size - 1 THEN Filled ELSE h.mem[a]]]
       /\ live' = [p \in DOMAIN live \cup {ptr} |-> IF p = ptr THEN size ELSE live[p]]

mymalloc(size) ==
    LET aligned_size == ALIGN_8(size)  chunk == find_free_chunk(hp, aligned_size)
        h1 == split_chunk(remove_from_free_list(hp, chunk), chunk, aligned_size)
    IN /\ broken = "no" /\ UNCHANGED broken
       /\ \/ /\ chunk # NULL
             /\ Hand(SET_ALLOCATED(h1, chunk), chunk, size)
          \/ /\ chunk = NULL /\ hp.brk + aligned_size + CHUNK_OVERHEAD <= HEAP_END
             /\ Hand(SET_ALLOCATED(expand_heap(hp, aligned_size), hp.brk), hp.brk, size)
          \/ /\ chunk = NULL /\ hp.brk + aligned_size + CHUNK_OVERHEAD > HEAP_END  \* OOM
             /\ UNCHANGED <<hp, live>>

\* Freeing NULL does nothing.  coalesce() looks at the header after the chunk
\* although there may be none, even no memory (line 134); prev and next of a
\* chunk with a payload of 8 bytes lie on its footer, which is lost (line 91).
myfree(ptr) ==
    LET chunk == ptr - SIZE_HEADER_SIZE
        last  == chunk + CHUNK_SIZE(hp, chunk) + CHUNK_OVERHEAD = hp.brk
        h1    == add_to_free_list(SET_FREE(hp, chunk), chunk)
    IN /\ broken = "no"
       /\ live' = [p \in DOMAIN live \ {ptr} |-> live[p]]
       /\ IF last /\ hp.brk % PAGE = 0
          THEN hp' = h1 /\ broken' = "SIGSEGV"
          ELSE /\ hp' = coalesce(h1, chunk)
               /\ broken' = IF CHUNK_SIZE(hp, chunk) < 16 THEN "footer" ELSE "no"

MallocNext == \/ \E size \in Requests : mymalloc(size)
              \/ \E ptr \in DOMAIN live : myfree(ptr)
-----------------------------------------------------------------------------
\* The starts of the chunks, going up from the base by their headers.
Chunks == LET upto[k \in 0 .. ChunkBound] ==
                IF k = 0 THEN {HEAP_BASE}
                ELSE LET u == upto[k - 1]
                     IN u \cup {c + CHUNK_SIZE(hp, c) + CHUNK_OVERHEAD : c \in u}
          IN {c \in upto[ChunkBound] : c < hp.brk}

\* The types of the allocator's variables.
MallocTypeOK == /\ DOMAIN hp = {"mem", "head", "brk"}
                /\ hp.mem \in [Addresses -> Int] /\ hp.head \in Addresses \cup {NULL}
                /\ hp.brk \in HEAP_BASE .. HEAP_END
                /\ DOMAIN live \subseteq Addresses /\ \A p \in DOMAIN live : live[p] \in Requests
                /\ broken \in {"no", "SIGSEGV", "footer"}

\* However calls of mymalloc() and myfree() alternate, as long as no block under
\* 16 bytes was freed ("footer") and no free of the heap's last chunk has looked
\* for its neighbour behind the break ("SIGSEGV"): the chunks fill the heap exactly and each has its size at
\* both ends; each is in use or on the free list, never both and never neither;
\* the list leads back as it leads forward; whatever is flagged free is on it; and
\* no block in use is ever written to by the allocator.
HeapSound == broken = "no" =>
    /\ \A c \in Chunks : LET end == c + CHUNK_SIZE(hp, c) + CHUNK_OVERHEAD
                         IN /\ end \in Chunks \cup {hp.brk}
                            /\ Word(hp, end - 8) = CHUNK_SIZE(hp, c)
    /\ FreeList(hp) = Chunks \ {p - 8 : p \in DOMAIN live}
    /\ {p - 8 : p \in DOMAIN live} \subseteq Chunks
    /\ \A c \in FreeList(hp) : /\ IF prev(hp, c) = NULL THEN hp.head = c
                                  ELSE prev(hp, c) \in FreeList(hp) /\ next(hp, prev(hp, c)) = c
                               /\ next(hp, c) # NULL => prev(hp, next(hp, c)) = c
    /\ \A c \in Chunks : IS_FREE(hp, c) => c \in FreeList(hp)
    /\ \A p \in DOMAIN live :
         /\ CHUNK_SIZE(hp, p - 8) >= live[p]
         /\ \A a \in Addresses : a \in p .. p + live[p] - 1 => hp.mem[a] = Filled
=============================================================================
