------------------------------ MODULE ChunkPool ------------------------------
(***************************************************************************)
(* mem_cache.c and slab.c as items.c sees them: a pool of chunks, cut from *)
(* pages of their slab class.  The pool is the part of the store `s' in    *)
(* these fields:                                                           *)
(*                                                                         *)
(*   s.pages         the slab pages obtained from calloc                   *)
(*   s.free          the chunks of those pages that slab_alloc_chunk may   *)
(*                   return (free list and unused end of the last page)    *)
(*   s.mem_malloced  pages counted against mem_limit                       *)
(*                                                                         *)
(* Module MemCache is the code itself and is checked to implement this.    *)
(***************************************************************************)
EXTENDS Integers, FiniteSets

CONSTANTS
  NULL,
  Classes, Pages, Chunks,
  PageClass,     \* the slab class a page is cut for
  PageOf,        \* the page a chunk lies in
  Prealloc,      \* pages mapped by slab_create, not counted in mem_malloced
  MemLimit,      \* mem_limit, in pages
  CallocMayFail  \* whether calloc of a page may return NULL

ASSUME PoolAssumption ==
  /\ NULL \notin Chunks
  /\ IsFiniteSet(Chunks) /\ IsFiniteSet(Pages)
  /\ 0 \notin Classes
  /\ PageClass \in [Pages -> Classes]
  /\ PageOf \in [Chunks -> Pages]
  /\ \A p \in Pages : \E i \in Chunks : PageOf[i] = p
  /\ Prealloc \subseteq Pages
  /\ MemLimit \in Nat
  /\ CallocMayFail \in BOOLEAN
  \* the limit is met before the address space is used up
  /\ \A id \in Classes, M \in SUBSET Pages :
       Cardinality(M \ Prealloc) < MemLimit => \E p \in Pages \ M : PageClass[p] = id

Outcome(s, it) == [s |-> s, it |-> it]

ClassOf(i) == PageClass[PageOf[i]]
ChunksOf(P) == {i \in Chunks : PageOf[i] \in P}

FreeOf(s, id) == {i \in s.free : ClassOf(i) = id}
NewPages(s, id) == {p \in Pages \ s.pages : PageClass[p] = id}

TakeChunk(s, i) == [s EXCEPT !.free = @ \ {i}]
MapPage(s, p) == [s EXCEPT !.pages = @ \cup {p},
                           !.free = @ \cup ChunksOf({p}),
                           !.mem_malloced = @ + 1]

\* Any free chunk of the class; a new page when there is none; NULL at the
\* memory limit (checked before the free chunks) and when calloc fails.
mem_cache_alloc(s, id) ==
  LET limit == s.mem_malloced >= MemLimit
      grow == FreeOf(s, id) = {}
  IN  IF limit THEN {Outcome(s, NULL)}
      ELSE {Outcome(TakeChunk(s, i), i) : i \in FreeOf(s, id)}
           \cup (UNION {{Outcome(TakeChunk(MapPage(s, p), i), i) : i \in ChunksOf({p})} :
                          p \in IF grow THEN NewPages(s, id) ELSE {}})
           \cup {Outcome(s, NULL) : x \in IF grow /\ CallocMayFail THEN {1} ELSE {}}

mem_cache_free(s, i) == [s EXCEPT !.free = @ \cup {i}]

=============================================================================
