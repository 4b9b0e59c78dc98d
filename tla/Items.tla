-------------------------------- MODULE Items --------------------------------
(***************************************************************************)
(* items.c and assoc.c over the allocator of ChunkPool: the item store.    *)
(*                                                                         *)
(* The C globals of these files are the fields of one record `s', and a C  *)
(* function that changes them is an operator that returns the changed      *)
(* record.  A function whose result depends on the allocator returns the   *)
(* SET of its outcomes, pairs of a store and the pointer returned.         *)
(*                                                                         *)
(*   s.pages, s.free, s.mem_malloced   see ChunkPool                       *)
(*   s.item          the item structure in each chunk                      *)
(*   s.hashtable     per key, the items of that key in its hash chain      *)
(*   s.lru           per slab class, heads[]..tails[], most recent first   *)
(*   s.curr_items, s.curr_bytes   the counters of struct stats             *)
(***************************************************************************)
EXTENDS ChunkPool, Sequences

CONSTANTS
  Keys,
  EvictToFree,   \* settings.evict_to_free
  Tries,         \* length of the search for a victim (50 in item_alloc)
  Lens,          \* item sizes (nbytes without the trailing "\r\n")
  ClsId,         \* mem_cache_clsid of an item of each size; 0 if too large
  Vals,          \* what the data of an item can be
  ItemTimes,     \* values of rel_time_t
  RefMod         \* refcount is an unsigned short: arithmetic is modulo 2^16

ASSUME ItemsAssumption ==
  /\ NULL \notin Keys
  /\ Tries \in Nat /\ EvictToFree \in BOOLEAN
  /\ Lens \subseteq Nat /\ 0 \notin Lens
  /\ ClsId \in [Lens -> Classes \cup {0}]
  /\ 0 \in Vals
  /\ 0 \in ItemTimes /\ ItemTimes \subseteq Nat
  /\ RefMod \in Nat \ {0, 1}

-----------------------------------------------------------------------------
(* Types *)

Flags == {"LINKED", "DELETED", "SLABBED"}

Item == [key : Keys \cup {NULL}, nbytes : Lens \cup {0}, val : Vals,
         exptime : ItemTimes, time : ItemTimes, refcount : 0 .. RefMod - 1,
         it_flags : SUBSET Flags, slabs_clsid : Classes \cup {0}]

Store == [pages : SUBSET Pages, free : SUBSET Chunks, mem_malloced : Nat,
          item : [Chunks -> Item],
          hashtable : [Keys -> Seq(Chunks)],
          lru : [Classes \cup {0} -> Seq(Chunks)],
          curr_items : Int, curr_bytes : Int]

\* calloc of a page, and item_init
BlankItem == [key |-> NULL, nbytes |-> 0, val |-> 0, exptime |-> 0, time |-> 0,
              refcount |-> 0, it_flags |-> {}, slabs_clsid |-> 0]

InitStore == [pages |-> Prealloc, free |-> ChunksOf(Prealloc),
              mem_malloced |-> 0,
              item |-> [i \in Chunks |-> BlankItem],
              hashtable |-> [k \in Keys |-> <<>>],
              lru |-> [id \in Classes \cup {0} |-> <<>>],
              curr_items |-> 0, curr_bytes |-> 0]

-----------------------------------------------------------------------------
(* assoc.c: the items of one key in their chain, first one first *)

assoc_find(s, k) == IF s.hashtable[k] = <<>> THEN NULL ELSE Head(s.hashtable[k])
assoc_insert(s, k, i) == [s EXCEPT !.hashtable[k] = <<i>> \o @]
assoc_delete(s, k) ==
  [s EXCEPT !.hashtable[k] = IF @ = <<>> THEN @ ELSE Tail(@)]

-----------------------------------------------------------------------------
(* items.c *)

Linked(s, i) == "LINKED" \in s.item[i].it_flags

item_free(s, i) ==
  mem_cache_free([s EXCEPT !.item[i].slabs_clsid = 0,
                           !.item[i].it_flags = @ \cup {"SLABBED"}], i)

item_link_q(s, i) == [s EXCEPT !.lru[s.item[i].slabs_clsid] = <<i>> \o @]

Without(q, i) ==
  IF \E n \in DOMAIN q : q[n] = i
  THEN LET n == CHOOSE n \in DOMAIN q : q[n] = i
       IN  SubSeq(q, 1, n - 1) \o SubSeq(q, n + 1, Len(q))
  ELSE q

item_unlink_q(s, i) == [s EXCEPT !.lru[s.item[i].slabs_clsid] = Without(@, i)]

\* Mutant: the item stays in its hash chain.
UnlinkLinked_bug(s, i) ==
  item_unlink_q([s EXCEPT !.item[i].it_flags = @ \ {"LINKED"},
                          !.curr_bytes = @ - s.item[i].nbytes,
                          !.curr_items = @ - 1], i)

item_link(s, i, now) ==
  LET r == s.item[i]
      linked == [r EXCEPT !.it_flags = r.it_flags \cup {"LINKED"}, !.time = now]
      t == [s EXCEPT !.item[i] = linked,
                     !.curr_bytes = s.curr_bytes + r.nbytes,
                     !.curr_items = s.curr_items + 1]
  IN  item_link_q(assoc_insert(t, r.key, i), i)

UnlinkLinked(s, i) ==
  LET r == s.item[i]
      unlinked == [r EXCEPT !.it_flags = r.it_flags \ {"LINKED"}]
      t == [s EXCEPT !.item[i] = unlinked,
                     !.curr_bytes = s.curr_bytes - r.nbytes,
                     !.curr_items = s.curr_items - 1]
  IN  item_unlink_q(assoc_delete(t, r.key), i)

\* Mutant: the references are not looked at.
FreeIfUnreferenced_bug(s, i) == item_free(s, i)

FreeIfUnreferenced(s, i) == IF s.item[i].refcount = 0 THEN item_free(s, i) ELSE s

item_unlink(s, i) ==
  FreeIfUnreferenced(IF Linked(s, i) THEN UnlinkLinked(s, i) ELSE s, i)

DropRef(s, i) ==
  [s EXCEPT !.item[i].refcount = IF @ = 0 THEN 0 ELSE @ - 1]
\* Mutant: the last reference does not free an unlinked item.
item_remove_bug(s, i) == DropRef(s, i)

item_remove(s, i) ==
  LET t == DropRef(s, i)
  IN  IF Linked(t, i) THEN t ELSE FreeIfUnreferenced(t, i)

AddRef(s, i) == [s EXCEPT !.item[i].refcount = (@ + 1) % RefMod]

\* Mutant: the item is touched without moving to the head.
item_update_bug(s, i, now) == [s EXCEPT !.item[i].time = now]

item_update(s, i, now) ==
  item_link_q([item_unlink_q(s, i) EXCEPT !.item[i].time = now], i)

\* Mutant: the old item is not unlinked first.
item_replace_bug(s, it, new_it, now) == item_link(s, new_it, now)

item_replace(s, it, new_it, now) == item_link(item_unlink(s, it), new_it, now)

\* The eviction loop: from the tail upwards, at most Tries items, the first
\* one with refcount 0 is unlinked.  One store, in a set.
\* Mutant: locked items are not skipped.
Unreferenced_bug(s, q) == {n \in DOMAIN q : n > Len(q) - Tries}

Unreferenced(s, q) ==
  {n \in DOMAIN q : n > Len(q) - Tries /\ s.item[q[n]].refcount = 0}
evict(s, id) ==
  LET q == s.lru[id]
      victims == {n \in Unreferenced(s, q) : \A m \in Unreferenced(s, q) : m <= n}
  IN  IF Unreferenced(s, q) = {} THEN {s} ELSE {item_unlink(s, q[n]) : n \in victims}

\* A first attempt, then for each failed one the retry after an eviction.
ChunkFor(s, id) ==
  LET first == mem_cache_alloc(s, id)
      retry(o) == IF EvictToFree /\ o.s.lru[id] # <<>>
                  THEN UNION {mem_cache_alloc(e, id) : e \in evict(o.s, id)}
                  ELSE {o}
  IN  {o \in first : o.it # NULL}
      \cup (UNION {retry(o) : o \in {o \in first : o.it = NULL}})

\* The data is read from the network later, and item_link sets the time:
\* neither is read before that, and both are 0 here.
NewItem(k, len, exptime) ==
  [BlankItem EXCEPT !.key = k, !.nbytes = len, !.exptime = exptime,
                    !.slabs_clsid = ClsId[len]]

InitItem(o, k, len, exptime) ==
  IF o.it = NULL THEN o
  ELSE Outcome([o.s EXCEPT !.item[o.it] = NewItem(k, len, exptime)], o.it)

item_alloc(s, k, len, exptime) ==
  IF ClsId[len] = 0 THEN {Outcome(s, NULL)}
  ELSE {InitItem(o, k, len, exptime) : o \in ChunkFor(s, ClsId[len])}

=============================================================================
