------------------------------ MODULE MemCache -------------------------------
(***************************************************************************)
(* slab.c and mem_cache.c: pages cut into chunks, a free list per slab     *)
(* class that grows by realloc, the unused end of the last page, and the   *)
(* limit on the memory obtained.  The n-th page of class id is <<id, n>>,  *)
(* its m-th chunk <<id, n, m>>: a name for the address calloc returns.     *)
(***************************************************************************)
EXTENDS Integers, SequencesExt, FiniteSets

CONSTANTS
  NULL,
  power_largest,  \* number of slab classes
  chunk_number_per_page,
  page_size, mem_limit,
  pre_alloc,
  FreeListFirst,  \* 16 in slab_free_chunk: length of the first free list
  CallocMayFail, ReallocMayFail,
  MaxPages        \* bound: pages of one class that the address space holds

Classes == 1 .. power_largest
Pages == Classes \X (1 .. MaxPages)
Chunks == {i \in Classes \X (1 .. MaxPages) \X (1 .. page_size) :
             i[3] <= chunk_number_per_page[i[1]]}

ASSUME MemCacheAssumption ==
  /\ power_largest \in Nat \ {0} /\ page_size \in Nat \ {0} /\ mem_limit \in Nat
  /\ chunk_number_per_page \in [Classes -> 1 .. page_size]
  /\ pre_alloc \in BOOLEAN /\ CallocMayFail \in BOOLEAN /\ ReallocMayFail \in BOOLEAN
  /\ FreeListFirst \in Nat \ {0} /\ MaxPages \in Nat \ {0}
  /\ NULL \notin Chunks

VARIABLES
  slab,          \* slabclass[]
  mem_malloced,  \* in bytes, except that it starts at the number of classes
  used,          \* chunks handed out and not given back
  ret            \* what the last call returned
vars == <<slab, mem_malloced, used, ret>>

Slab == [end_page_ptr : Chunks \cup {NULL}, end_page_free : Nat, page_total : Nat,
         free_chunk_list : Seq(Chunks), free_chunk_list_length : Nat]

TypeOK ==
  /\ slab \in [Classes -> Slab]
  /\ mem_malloced \in Nat
  /\ used \subseteq Chunks
  /\ ret \in Chunks \cup {NULL}

-----------------------------------------------------------------------------
(* slab.c *)

\* calloc'ed: every field of a new slab is 0.
EmptySlab == [end_page_ptr |-> NULL, end_page_free |-> 0, page_total |-> 0,
              free_chunk_list |-> <<>>, free_chunk_list_length |-> 0]

slab_new_page(sl, id) ==
  [sl EXCEPT !.end_page_ptr = <<id, sl.page_total + 1, 1>>,
             !.end_page_free = chunk_number_per_page[id],
             !.page_total = sl.page_total + 1]

slab_create(id) == IF pre_alloc THEN slab_new_page(EmptySlab, id) ELSE EmptySlab

\* Mutant: the popped chunk stays on the list.
PopFree_bug(sl) == sl

\* Mutant: the count of a new page does not include the chunk just cut.
CutPageCount_bug(sl) ==
  [sl EXCEPT !.end_page_ptr = IF sl.end_page_free - 1 > 0
                              THEN <<@[1], @[2], @[3] + 1>> ELSE NULL]

\* The two ways slab_alloc_chunk takes a chunk: the last entry of the free
\* list, or the next one of the end of the page.
PopFree(sl) ==
  [sl EXCEPT !.free_chunk_list = Front(sl.free_chunk_list)]
CutPage(sl) ==
  LET p == sl.end_page_ptr
  IN  [sl EXCEPT !.end_page_free = sl.end_page_free - 1,
                 !.end_page_ptr = IF sl.end_page_free - 1 > 0
                                  THEN <<p[1], p[2], p[3] + 1>> ELSE NULL]

\* Mutant: growing the list forgets the chunk.
FreeLost_bug(sl, i) ==
  IF Len(sl.free_chunk_list) = sl.free_chunk_list_length
  THEN {[sl EXCEPT !.free_chunk_list_length = 2 * @ + FreeListFirst]}
  ELSE {[sl EXCEPT !.free_chunk_list = Append(@, i)]}

\* Mutant: the array is never enlarged.
FreeOverrun_bug(sl, i) == {[sl EXCEPT !.free_chunk_list = Append(@, i)]}

slab_free_chunk(sl, i) ==
  LET full == Len(sl.free_chunk_list) = sl.free_chunk_list_length
      grown == IF sl.free_chunk_list_length = 0 THEN FreeListFirst
               ELSE sl.free_chunk_list_length * 2
  IN  {[sl EXCEPT !.free_chunk_list = Append(sl.free_chunk_list, i),
                  !.free_chunk_list_length = IF full THEN grown
                                             ELSE sl.free_chunk_list_length]}
      \cup {sl : x \in IF full /\ ReallocMayFail THEN {1} ELSE {}}

-----------------------------------------------------------------------------
(* mem_cache.c *)

\* mem_cache_create; the preallocated pages are not counted.
Init ==
  /\ slab = [id \in Classes |-> slab_create(id)]
  /\ mem_malloced = power_largest
  /\ used = {} /\ ret = NULL

Fail == ret' = NULL /\ UNCHANGED <<slab, mem_malloced, used>>

\* Mutant: a new page is not counted.
Take_bug(id, sl, i) ==
  /\ slab' = [slab EXCEPT ![id] = sl]
  /\ used' = used \cup {i}
  /\ ret' = i
  /\ UNCHANGED mem_malloced

Take(id, sl, i) ==
  /\ slab' = [slab EXCEPT ![id] = sl]
  /\ used' = used \cup {i}
  /\ ret' = i
  /\ mem_malloced' = mem_malloced + IF sl.page_total > slab[id].page_total
                                    THEN page_size ELSE 0

mem_cache_alloc(id) ==
  LET sl == slab[id]
  IN  \/ /\ mem_malloced >= mem_limit
         /\ Fail
      \/ /\ mem_malloced < mem_limit
         /\ sl.free_chunk_list # <<>>
         /\ Take(id, PopFree(sl), Last(sl.free_chunk_list))
      \/ /\ mem_malloced < mem_limit
         /\ sl.free_chunk_list = <<>> /\ sl.end_page_ptr # NULL
         /\ Take(id, CutPage(sl), sl.end_page_ptr)
      \/ /\ mem_malloced < mem_limit
         /\ sl.free_chunk_list = <<>> /\ sl.end_page_ptr = NULL
         /\ sl.end_page_free = 0 /\ sl.page_total < MaxPages
         /\ LET new == slab_new_page(sl, id)
            IN  Take(id, CutPage(new), new.end_page_ptr)
      \/ /\ mem_malloced < mem_limit
         /\ sl.free_chunk_list = <<>> /\ sl.end_page_ptr = NULL
         /\ sl.end_page_free > 0 \/ CallocMayFail
         /\ Fail

\* item_free gives the size the item was allocated with, hence its class.
mem_cache_free(i) ==
  /\ i \in used
  /\ \E sl \in slab_free_chunk(slab[i[1]], i) : slab' = [slab EXCEPT ![i[1]] = sl]
  /\ used' = used \ {i}
  /\ ret' = NULL
  /\ UNCHANGED mem_malloced

Next ==
  \/ \E id \in Classes : mem_cache_alloc(id)
  \/ \E i \in Chunks : mem_cache_free(i)

Spec == Init /\ [][Next]_vars

-----------------------------------------------------------------------------

Listed(id) == {slab[id].free_chunk_list[n] : n \in DOMAIN slab[id].free_chunk_list}
EndOfPage(id) ==
  LET p == slab[id].end_page_ptr
  IN  IF p = NULL THEN {} ELSE {i \in Chunks : i[1] = p[1] /\ i[2] = p[2] /\ i[3] >= p[3]}
Free(id) == Listed(id) \cup EndOfPage(id)
Mapped(id) == {i \in Chunks : i[1] = id /\ i[2] <= slab[id].page_total}

\* Whatever the order of allocations and frees, a chunk is in one place: held
\* by one caller, once on the free list of its class, or in the uncut end of
\* the last page; so slab_alloc_chunk never hands out a chunk in use
\* (slab.c:98-109, 123-127).
EachChunkOnce ==
  \A id \in Classes :
    /\ \A m, n \in DOMAIN slab[id].free_chunk_list :
         slab[id].free_chunk_list[m] = slab[id].free_chunk_list[n] => m = n
    /\ Listed(id) \cap EndOfPage(id) = {}
    /\ Free(id) \cap used = {}
    /\ Free(id) \subseteq Mapped(id)

\* No chunk of a page is lost between the end of the page, the free list and
\* the callers, across the growth of the free list (slab.c:64-127); true only
\* because realloc is assumed to succeed.
NoChunkLost ==
  \A id \in Classes : Mapped(id) \subseteq Free(id) \cup used

\* The free list stays inside its array at every doubling (slab.c:118-127).
ListInsideArray ==
  \A id \in Classes : Len(slab[id].free_chunk_list) <= slab[id].free_chunk_list_length

\* end_page_free is the number of chunks still to be cut, and end_page_ptr the
\* first of them, or NULL exactly when there are none: slab_new_page relies on
\* both, and would refuse a page for ever if they disagreed (slab.c:70, 103-108).
EndPageAgrees ==
  \A id \in Classes : slab[id].end_page_free = Cardinality(EndOfPage(id))

Pool == INSTANCE ChunkPool WITH
  PageClass <- [p \in Pages |-> p[1]],
  PageOf <- [i \in Chunks |-> <<i[1], i[2]>>],
  Prealloc <- IF pre_alloc THEN Classes \X {1} ELSE {},
  MemLimit <- (mem_limit - power_largest + page_size - 1) \div page_size

pool == [pages |-> {p \in Pages : p[2] <= slab[p[1]].page_total},
         free |-> UNION {Free(id) : id \in Classes},
         mem_malloced |-> (mem_malloced - power_largest) \div page_size]

\* Every call does what the pool of ChunkPool, which the item store is built
\* on, may do: the same pointer, the same pages, the same count against the
\* limit (mem_cache.c:64-103).
ImplementsPool ==
  [][\/ \E id \in Classes : Pool!Outcome(pool', ret') \in Pool!mem_cache_alloc(pool, id)
     \/ \E i \in used : ret' = NULL /\ pool' = Pool!mem_cache_free(pool, i)]_vars

=============================================================================
