--------------------------- MODULE ItemStoreProofs ---------------------------
(***************************************************************************)
(* Theorems about ItemStore for every value of its constants: any number   *)
(* of connections, keys, chunks, pages, slab classes and values.           *)
(*                                                                         *)
(* First, type correctness.  Then what the operators of Items and the      *)
(* lookup of ItemStore do to a store that is Sound: whose hash table, LRU  *)
(* lists and flags name the same items, whose lists are in order of last   *)
(* use unless the clock is set back, and each of whose chunks is free, not *)
(* mapped yet, in use, or owned by a connection that reads data into it.   *)
(* Every lemma of that part says what the operator leaves of the other     *)
(* items; ItemStoreReferences puts them together handler by handler.       *)
(***************************************************************************)
EXTENDS ItemStore, SequenceTheorems, FiniteSetTheorems, TLAPS

-----------------------------------------------------------------------------
(* Changing one field of a store, or one item of it *)

\* What the operators of Items do to a store: it stays well formed, and an item
\* that has a key keeps having one.
Keeps(s, t) ==
  /\ t \in Store
  /\ \A i \in Chunks : s.item[i].key \in Keys => t.item[i].key \in Keys

\* Keeps composes, as the operators do.
LEMMA KeepsTrans ==
  ASSUME NEW s, NEW t, NEW u, Keeps(s, t), Keeps(t, u)
  PROVE  Keeps(s, u)
BY DEF Keeps

\* The components of a store have the types of Store.
LEMMA StoreFields ==
  ASSUME NEW s \in Store
  PROVE  /\ s.pages \in SUBSET Pages /\ s.free \in SUBSET Chunks /\ s.mem_malloced \in Nat
         /\ s.item \in [Chunks -> Item]
         /\ s.hashtable \in [Keys -> Seq(Chunks)]
         /\ s.lru \in [Classes \cup {0} -> Seq(Chunks)]
         /\ s.curr_items \in Int /\ s.curr_bytes \in Int
BY DEF Store

\* A store with one item replaced is a store.
LEMMA WithItem ==
  ASSUME NEW s \in Store, NEW i \in Chunks, NEW r \in Item,
         s.item[i].key \in Keys => r.key \in Keys
  PROVE  Keeps(s, [s EXCEPT !.item = [s.item EXCEPT ![i] = r]])
<1> DEFINE f == [s.item EXCEPT ![i] = r]
<1>1. f \in [Chunks -> Item] /\ s.item \in [Chunks -> Item]
  BY DEF Store
<1>2. [s EXCEPT !.item = f] \in Store
  BY <1>1 DEF Store
<1>3. [s EXCEPT !.item = f].item = f
  BY DEF Store
<1>4. \A j \in Chunks : f[j] = IF j = i THEN r ELSE s.item[j]
  BY <1>1
<1>5. QED
  BY <1>2, <1>3, <1>4 DEF Keeps

\* A store with another hash table is a store.
LEMMA WithHashtable ==
  ASSUME NEW s \in Store, NEW h \in [Keys -> Seq(Chunks)]
  PROVE  Keeps(s, [s EXCEPT !.hashtable = h])
BY DEF Store, Keeps

\* A store with other lists.
LEMMA WithLru ==
  ASSUME NEW s \in Store, NEW q \in [Classes \cup {0} -> Seq(Chunks)]
  PROVE  Keeps(s, [s EXCEPT !.lru = q])
BY DEF Store, Keeps

\* A store with other free chunks.
LEMMA WithFree ==
  ASSUME NEW s \in Store, NEW F \in SUBSET Chunks
  PROVE  Keeps(s, [s EXCEPT !.free = F])
BY DEF Store, Keeps

\* A store with other counters.
LEMMA WithCounts ==
  ASSUME NEW s \in Store, NEW m \in Int, NEW n \in Int
  PROVE  Keeps(s, [s EXCEPT !.curr_bytes = m, !.curr_items = n])
BY DEF Store, Keeps

\* The size of an item is a number.
LEMMA NbytesType ==
  ASSUME NEW r \in Item
  PROVE  r.nbytes \in Nat
BY ItemsAssumption DEF Item

\* Items with one field replaced are items.
LEMMA ItemFields ==
  ASSUME NEW r \in Item
  PROVE  /\ \A v \in 0 .. RefMod - 1 : [r EXCEPT !.refcount = v] \in Item
         /\ \A v \in ItemTimes : [r EXCEPT !.time = v] \in Item
         /\ \A v \in Vals : [r EXCEPT !.val = v] \in Item
         /\ \A v \in SUBSET Flags : [r EXCEPT !.it_flags = v] \in Item
         /\ \A v \in ItemTimes, w \in SUBSET Flags :
              [r EXCEPT !.exptime = v, !.it_flags = w] \in Item
         /\ \A w \in SUBSET Flags : [r EXCEPT !.slabs_clsid = 0, !.it_flags = w] \in Item
         /\ \A v \in ItemTimes, w \in SUBSET Flags :
              [r EXCEPT !.it_flags = w, !.time = v] \in Item
BY DEF Item

-----------------------------------------------------------------------------
(* The operators of Items *)

\* assoc_find returns an item or NULL.
LEMMA AssocFindType ==
  ASSUME NEW s \in Store, NEW k \in Keys
  PROVE  assoc_find(s, k) \in Chunks \cup {NULL}
BY DEF assoc_find, Store

\* Taking a reference to an item keeps the store good.
LEMMA AddRefKeeps ==
  ASSUME NEW s \in Store, NEW i \in Chunks
  PROVE  Keeps(s, AddRef(s, i))
<1> DEFINE r == [s.item[i] EXCEPT !.refcount = (@ + 1) % RefMod]
<1>1. s.item[i] \in Item /\ s.item[i].refcount \in 0 .. RefMod - 1
  BY DEF Store, Item
<1>2. (s.item[i].refcount + 1) % RefMod \in 0 .. RefMod - 1
  BY <1>1, ItemsAssumption
<1>3. r \in Item /\ r.key = s.item[i].key
  BY <1>1, <1>2, ItemFields DEF Item
<1>4. AddRef(s, i) = [s EXCEPT !.item = [s.item EXCEPT ![i] = r]]
  BY DEF AddRef
<1>5. QED
  BY <1>3, <1>4, WithItem, ZenonT(60)

\* Dropping a reference keeps the store good: the count stays in 16 bits.
LEMMA DropRefKeeps ==
  ASSUME NEW s \in Store, NEW i \in Chunks
  PROVE  Keeps(s, DropRef(s, i))
<1> DEFINE n == IF s.item[i].refcount = 0 THEN 0 ELSE s.item[i].refcount - 1
           r == [s.item[i] EXCEPT !.refcount = n]
<1>1. s.item[i] \in Item /\ s.item[i].refcount \in 0 .. RefMod - 1
  BY DEF Store, Item
<1>2. n \in 0 .. RefMod - 1
  BY <1>1, ItemsAssumption
<1> HIDE DEF n
<1>3. r \in Item /\ r.key = s.item[i].key
  BY <1>1, <1>2, ItemFields DEF Item
<1>4. DropRef(s, i) = [s EXCEPT !.item = [s.item EXCEPT ![i] = r]]
  BY DEF DropRef, n
<1> HIDE DEF r
<1>5. QED
  BY <1>3, <1>4, WithItem

\* item_free keeps the store good; the chunk keeps its old key.
LEMMA ItemFreeKeeps ==
  ASSUME NEW s \in Store, NEW i \in Chunks
  PROVE  Keeps(s, item_free(s, i))
<1> DEFINE r == [s.item[i] EXCEPT !.slabs_clsid = 0, !.it_flags = @ \cup {"SLABBED"}]
           t == [s EXCEPT !.item = [s.item EXCEPT ![i] = r]]
<1>1. s.item[i] \in Item /\ s.item[i].it_flags \cup {"SLABBED"} \in SUBSET Flags
  BY DEF Store, Item, Flags
<1>2. r \in Item /\ r.key = s.item[i].key
  BY <1>1, ItemFields, ZenonT(60) DEF Item
<1>3. Keeps(s, t)
  BY <1>2, WithItem
<1>4. item_free(s, i) = [t EXCEPT !.free = t.free \cup {i}]
  BY DEF item_free, mem_cache_free
<1>5. t \in Store /\ t.free \cup {i} \in SUBSET Chunks
  BY <1>3, StoreFields DEF Keeps
<1>6. Keeps(t, item_free(s, i))
  BY <1>4, <1>5, WithFree
<1>7. QED
  BY <1>3, <1>6, KeepsTrans

\* A list from which an item is unlinked is a list of items.
LEMMA WithoutType ==
  ASSUME NEW q \in Seq(Chunks), NEW i \in Chunks
  PROVE  Without(q, i) \in Seq(Chunks)
BY DEF Without

\* item_link_q keeps the store good.
LEMMA LinkQKeeps ==
  ASSUME NEW s \in Store, NEW i \in Chunks
  PROVE  Keeps(s, item_link_q(s, i))
<1> DEFINE id == s.item[i].slabs_clsid
           q == [s.lru EXCEPT ![id] = <<i>> \o @]
<1>1. id \in Classes \cup {0} /\ s.lru \in [Classes \cup {0} -> Seq(Chunks)]
  BY DEF Store, Item
<1>2. <<i>> \o s.lru[id] \in Seq(Chunks)
  BY <1>1
<1>3. q \in [Classes \cup {0} -> Seq(Chunks)]
  BY <1>1, <1>2
<1>4. item_link_q(s, i) = [s EXCEPT !.lru = q]
  BY DEF item_link_q
<1> HIDE DEF q
<1>5. QED
  BY <1>3, <1>4, WithLru

\* item_unlink_q keeps the store good.
LEMMA UnlinkQKeeps ==
  ASSUME NEW s \in Store, NEW i \in Chunks
  PROVE  Keeps(s, item_unlink_q(s, i))
<1> DEFINE id == s.item[i].slabs_clsid
           q == [s.lru EXCEPT ![id] = Without(@, i)]
<1>1. id \in Classes \cup {0} /\ s.lru \in [Classes \cup {0} -> Seq(Chunks)]
  BY DEF Store, Item
<1>2. Without(s.lru[id], i) \in Seq(Chunks)
  BY <1>1, WithoutType
<1>3. q \in [Classes \cup {0} -> Seq(Chunks)]
  BY <1>1, <1>2
<1>4. item_unlink_q(s, i) = [s EXCEPT !.lru = q]
  BY DEF item_unlink_q
<1> HIDE DEF q
<1>5. QED
  BY <1>3, <1>4, WithLru

\* assoc_insert keeps the store good.
LEMMA AssocInsertKeeps ==
  ASSUME NEW s \in Store, NEW k, NEW i \in Chunks
  PROVE  Keeps(s, assoc_insert(s, k, i))
<1> DEFINE h == [s.hashtable EXCEPT ![k] = <<i>> \o s.hashtable[k]]
<1>1. s.hashtable \in [Keys -> Seq(Chunks)]
  BY DEF Store
<1>2. k \in Keys => <<i>> \o s.hashtable[k] \in Seq(Chunks)
  BY <1>1
<1>3. h \in [Keys -> Seq(Chunks)]
  BY <1>1, <1>2
<1>4. assoc_insert(s, k, i) = [s EXCEPT !.hashtable = h]
  BY DEF assoc_insert
<1> HIDE DEF h
<1>5. QED
  BY <1>3, <1>4, WithHashtable

\* assoc_delete keeps the store good.
LEMMA AssocDeleteKeeps ==
  ASSUME NEW s \in Store, NEW k
  PROVE  Keeps(s, assoc_delete(s, k))
<1> DEFINE q == s.hashtable[k]
           h == [s.hashtable EXCEPT ![k] = IF q = <<>> THEN q ELSE Tail(q)]
<1>1. s.hashtable \in [Keys -> Seq(Chunks)]
  BY DEF Store
<1>2. k \in Keys => (IF q = <<>> THEN q ELSE Tail(q)) \in Seq(Chunks)
  BY <1>1
<1>3. h \in [Keys -> Seq(Chunks)]
  BY <1>1, <1>2
<1>4. assoc_delete(s, k) = [s EXCEPT !.hashtable = h]
  BY DEF assoc_delete
<1> HIDE DEF h
<1>5. QED
  BY <1>3, <1>4, WithHashtable

\* item_link keeps the store good.
LEMMA ItemLinkKeeps ==
  ASSUME NEW s \in Store, NEW i \in Chunks, NEW now \in ItemTimes
  PROVE  Keeps(s, item_link(s, i, now))
<1> DEFINE w == s.item[i].it_flags \cup {"LINKED"}
           r == [s.item[i] EXCEPT !.it_flags = w, !.time = now]
           t1 == [s EXCEPT !.item = [s.item EXCEPT ![i] = r]]
           t2 == [t1 EXCEPT !.curr_bytes = s.curr_bytes + s.item[i].nbytes,
                            !.curr_items = s.curr_items + 1]
           t3 == assoc_insert(t2, s.item[i].key, i)
<1>1. s.item[i] \in Item /\ w \in SUBSET Flags
  BY DEF Store, Item, Flags
<1>2. r \in Item /\ r.key = s.item[i].key
  <2> HIDE DEF w
  <2>1. QED
    BY <1>1, ItemFields, ZenonT(60) DEF Item
<1>3. Keeps(s, t1)
  <2> HIDE DEF r
  <2>1. QED
    BY <1>2, WithItem
<1>4. s.curr_bytes + s.item[i].nbytes \in Int /\ s.curr_items + 1 \in Int
  <2>1. s.item[i].nbytes \in Nat
    BY <1>1, NbytesType
  <2>2. QED
    BY <2>1, StoreFields
<1>5. Keeps(t1, t2)
  <2> HIDE DEF t1
  <2>1. QED
    BY <1>3, <1>4, WithCounts DEF Keeps
<1>6. Keeps(t2, t3)
  <2> HIDE DEF t2
  <2>1. QED
    BY <1>5, AssocInsertKeeps DEF Keeps
<1>7. Keeps(t3, item_link_q(t3, i))
  <2> HIDE DEF t3
  <2>1. QED
    BY <1>6, LinkQKeeps DEF Keeps
<1>8. item_link(s, i, now) = item_link_q(t3, i)
  <2>1. [s EXCEPT !.item[i] = r, !.curr_bytes = s.curr_bytes + s.item[i].nbytes,
                  !.curr_items = s.curr_items + 1] = t2
    OBVIOUS
  <2>2. QED
    BY <2>1 DEF item_link
<1> HIDE DEF t1, t2, t3
<1>9. QED
  BY <1>3, <1>5, <1>6, <1>7, <1>8, KeepsTrans

\* Taking an item out of the table and its list keeps the store good.
LEMMA UnlinkLinkedKeeps ==
  ASSUME NEW s \in Store, NEW i \in Chunks
  PROVE  Keeps(s, UnlinkLinked(s, i))
<1> DEFINE w == s.item[i].it_flags \ {"LINKED"}
           r == [s.item[i] EXCEPT !.it_flags = w]
           t1 == [s EXCEPT !.item = [s.item EXCEPT ![i] = r]]
           t2 == [t1 EXCEPT !.curr_bytes = s.curr_bytes - s.item[i].nbytes,
                            !.curr_items = s.curr_items - 1]
           t3 == assoc_delete(t2, s.item[i].key)
<1>1. s.item[i] \in Item /\ w \in SUBSET Flags
  BY DEF Store, Item, Flags
<1>2. r \in Item /\ r.key = s.item[i].key
  <2> HIDE DEF w
  <2>1. QED
    BY <1>1, ItemFields, ZenonT(60) DEF Item
<1>3. Keeps(s, t1)
  <2> HIDE DEF r
  <2>1. QED
    BY <1>2, WithItem
<1>4. s.curr_bytes - s.item[i].nbytes \in Int /\ s.curr_items - 1 \in Int
  <2>1. s.item[i].nbytes \in Nat
    BY <1>1, NbytesType
  <2>2. QED
    BY <2>1, StoreFields
<1>5. Keeps(t1, t2)
  <2> HIDE DEF t1
  <2>1. QED
    BY <1>3, <1>4, WithCounts DEF Keeps
<1>6. Keeps(t2, t3)
  <2> HIDE DEF t2
  <2>1. QED
    BY <1>5, AssocDeleteKeeps DEF Keeps
<1>7. Keeps(t3, item_unlink_q(t3, i))
  <2> HIDE DEF t3
  <2>1. QED
    BY <1>6, UnlinkQKeeps DEF Keeps
<1>8. UnlinkLinked(s, i) = item_unlink_q(t3, i)
  <2>1. [s EXCEPT !.item[i] = r, !.curr_bytes = s.curr_bytes - s.item[i].nbytes,
                  !.curr_items = s.curr_items - 1] = t2
    OBVIOUS
  <2>2. QED
    BY <2>1 DEF UnlinkLinked
<1> HIDE DEF t1, t2, t3
<1>9. QED
  BY <1>3, <1>5, <1>6, <1>7, <1>8, KeepsTrans

\* A good store is kept by doing nothing.
LEMMA KeepsSelf ==
  ASSUME NEW s \in Store
  PROVE  Keeps(s, s)
BY DEF Keeps

\* item_unlink keeps the store good, whether it frees the item or not.
LEMMA ItemUnlinkKeeps ==
  ASSUME NEW s \in Store, NEW i \in Chunks
  PROVE  Keeps(s, item_unlink(s, i))
<1> DEFINE t == IF Linked(s, i) THEN UnlinkLinked(s, i) ELSE s
<1>1. Keeps(s, t)
  BY UnlinkLinkedKeeps, KeepsSelf
<1> HIDE DEF t
<1>2. Keeps(t, FreeIfUnreferenced(t, i))
  BY <1>1, ItemFreeKeeps, KeepsSelf DEF Keeps, FreeIfUnreferenced
<1>3. item_unlink(s, i) = FreeIfUnreferenced(t, i)
  BY DEF item_unlink, t
<1>4. QED
  BY <1>1, <1>2, <1>3, KeepsTrans

\* item_remove keeps the store good, whether it frees the item or not.
LEMMA ItemRemoveKeeps ==
  ASSUME NEW s \in Store, NEW i \in Chunks
  PROVE  Keeps(s, item_remove(s, i))
<1> DEFINE t == DropRef(s, i)
<1>1. Keeps(s, t)
  BY DropRefKeeps
<1>2. item_remove(s, i) = IF Linked(t, i) THEN t ELSE FreeIfUnreferenced(t, i)
  BY DEF item_remove
<1> HIDE DEF t
<1>3. Keeps(t, item_remove(s, i))
  BY <1>1, <1>2, ItemFreeKeeps, KeepsSelf DEF Keeps, FreeIfUnreferenced
<1>4. QED
  BY <1>1, <1>3, KeepsTrans

\* item_update keeps the store good.
LEMMA ItemUpdateKeeps ==
  ASSUME NEW s \in Store, NEW i \in Chunks, NEW now \in ItemTimes
  PROVE  Keeps(s, item_update(s, i, now))
<1> DEFINE t == item_unlink_q(s, i)
           r == [t.item[i] EXCEPT !.time = now]
           u == [t EXCEPT !.item = [t.item EXCEPT ![i] = r]]
<1>1. Keeps(s, t)
  BY UnlinkQKeeps
<1>2. item_update(s, i, now) = item_link_q(u, i)
  BY DEF item_update
<1> HIDE DEF t
<1>3. t.item[i] \in Item
  BY <1>1 DEF Keeps, Store
<1>4. r \in Item /\ r.key = t.item[i].key
  BY <1>3, ItemFields DEF Item
<1> HIDE DEF r
<1>5. Keeps(t, u)
  BY <1>1, <1>4, WithItem DEF Keeps
<1> HIDE DEF u
<1>6. Keeps(u, item_link_q(u, i))
  BY <1>5, LinkQKeeps DEF Keeps
<1>7. QED
  BY <1>1, <1>2, <1>5, <1>6, KeepsTrans

\* item_replace keeps the store good.
LEMMA ItemReplaceKeeps ==
  ASSUME NEW s \in Store, NEW i \in Chunks, NEW j \in Chunks, NEW now \in ItemTimes
  PROVE  Keeps(s, item_replace(s, i, j, now))
<1> DEFINE t == item_unlink(s, i)
<1>1. Keeps(s, t)
  BY ItemUnlinkKeeps
<1>2. item_replace(s, i, j, now) = item_link(t, j, now)
  BY DEF item_replace
<1> HIDE DEF t
<1>3. Keeps(t, item_link(t, j, now))
  BY <1>1, ItemLinkKeeps DEF Keeps
<1>4. QED
  BY <1>1, <1>2, <1>3, KeepsTrans

-----------------------------------------------------------------------------
(* The allocator *)

\* What an allocation may answer: a good store, and a chunk or NULL.
Answer(s, o) == Keeps(s, o.s) /\ o.it \in Chunks \cup {NULL}

\* Taking a chunk out of the free ones keeps the store good.
LEMMA TakeChunkKeeps ==
  ASSUME NEW s \in Store, NEW i \in Chunks
  PROVE  Keeps(s, TakeChunk(s, i))
<1>1. s.free \ {i} \in SUBSET Chunks
  BY StoreFields
<1>2. TakeChunk(s, i) = [s EXCEPT !.free = s.free \ {i}]
  BY DEF TakeChunk
<1>3. QED
  BY <1>1, <1>2, WithFree

\* So does mapping one more page.
LEMMA MapPageKeeps ==
  ASSUME NEW s \in Store, NEW p \in Pages
  PROVE  Keeps(s, MapPage(s, p))
<1> DEFINE P == s.pages \cup {p}
           F == s.free \cup ChunksOf({p})
           m == s.mem_malloced + 1
<1>1. P \in SUBSET Pages /\ F \in SUBSET Chunks /\ m \in Nat
  BY StoreFields DEF ChunksOf
<1>2. MapPage(s, p) = [s EXCEPT !.pages = P, !.free = F, !.mem_malloced = m]
  BY DEF MapPage
<1> HIDE DEF P, F, m
<1>3. [s EXCEPT !.pages = P, !.free = F, !.mem_malloced = m] \in Store
  BY <1>1 DEF Store
<1>4. [s EXCEPT !.pages = P, !.free = F, !.mem_malloced = m].item = s.item
  BY DEF Store
<1>5. QED
  BY <1>2, <1>3, <1>4 DEF Keeps

\* mem_cache_alloc answers with a good store, and a chunk or NULL.
LEMMA AllocAnswer ==
  ASSUME NEW s \in Store, NEW id, NEW o \in mem_cache_alloc(s, id)
  PROVE  Answer(s, o)
<1>1. CASE o = Outcome(s, NULL)
  BY <1>1, KeepsSelf DEF Answer, Outcome
<1>2. CASE \E i \in FreeOf(s, id) : o = Outcome(TakeChunk(s, i), i)
  <2>1. PICK i \in FreeOf(s, id) : o = Outcome(TakeChunk(s, i), i)
    BY <1>2
  <2>2. i \in Chunks
    BY StoreFields DEF FreeOf
  <2>3. Keeps(s, TakeChunk(s, i))
    BY <2>2, TakeChunkKeeps
  <2>4. QED
    BY <2>1, <2>2, <2>3 DEF Answer, Outcome
<1>3. CASE \E p \in NewPages(s, id) : \E i \in ChunksOf({p}) :
             o = Outcome(TakeChunk(MapPage(s, p), i), i)
  <2>1. PICK p \in NewPages(s, id) : \E i \in ChunksOf({p}) :
               o = Outcome(TakeChunk(MapPage(s, p), i), i)
    BY <1>3
  <2>2. PICK i \in ChunksOf({p}) : o = Outcome(TakeChunk(MapPage(s, p), i), i)
    BY <2>1
  <2>3. i \in Chunks /\ p \in Pages
    BY DEF ChunksOf, NewPages
  <2>4. Keeps(s, MapPage(s, p))
    BY <2>3, MapPageKeeps
  <2>5. Keeps(MapPage(s, p), TakeChunk(MapPage(s, p), i))
    BY <2>3, <2>4, TakeChunkKeeps DEF Keeps
  <2>6. QED
    BY <2>2, <2>3, <2>4, <2>5, KeepsTrans DEF Answer, Outcome
<1>4. QED
  BY <1>1, <1>2, <1>3 DEF mem_cache_alloc

\* The eviction loop leaves a good store.
LEMMA EvictKeeps ==
  ASSUME NEW s \in Store, NEW id \in Classes \cup {0}, NEW e \in evict(s, id)
  PROVE  Keeps(s, e)
<1> DEFINE q == s.lru[id]
<1>1. q \in Seq(Chunks)
  BY StoreFields
<1>2. CASE e = s
  BY <1>2, KeepsSelf
<1>3. CASE \E n \in DOMAIN q : e = item_unlink(s, q[n])
  <2>1. PICK n \in DOMAIN q : e = item_unlink(s, q[n])
    BY <1>3
  <2>2. q[n] \in Chunks
    BY <1>1, <2>1
  <2>3. QED
    BY <2>1, <2>2, ItemUnlinkKeeps
<1>4. QED
  BY <1>2, <1>3 DEF evict, Unreferenced

\* The allocation with its retry after an eviction.
LEMMA ChunkForAnswer ==
  ASSUME NEW s \in Store, NEW id \in Classes \cup {0}, NEW o \in ChunkFor(s, id)
  PROVE  Answer(s, o)
<1>1. CASE o \in mem_cache_alloc(s, id)
  BY <1>1, AllocAnswer
<1>2. CASE \E f \in mem_cache_alloc(s, id) : \E e \in evict(f.s, id) :
             o \in mem_cache_alloc(e, id)
  <2>1. PICK f \in mem_cache_alloc(s, id) : \E e \in evict(f.s, id) :
               o \in mem_cache_alloc(e, id)
    BY <1>2
  <2>2. PICK e \in evict(f.s, id) : o \in mem_cache_alloc(e, id)
    BY <2>1
  <2>3. Keeps(s, f.s)
    BY AllocAnswer DEF Answer
  <2>4. Keeps(f.s, e)
    BY <2>3, EvictKeeps DEF Keeps
  <2>5. Answer(e, o)
    BY <2>2, <2>4, AllocAnswer DEF Keeps
  <2>6. QED
    BY <2>3, <2>4, <2>5, KeepsTrans DEF Answer
<1>3. QED
  BY <1>1, <1>2 DEF ChunkFor

\* item_alloc answers with a good store, and NULL or a chunk with an item of
\* the key asked for.
LEMMA ItemAllocAnswer ==
  ASSUME NEW s \in Store, NEW k \in Keys, NEW len \in Lens, NEW x \in ItemTimes,
         NEW a \in item_alloc(s, k, len, x)
  PROVE  Answer(s, a) /\ (a.it # NULL => a.s.item[a.it].key = k)
<1>1. CASE a = Outcome(s, NULL)
  BY <1>1, KeepsSelf DEF Answer, Outcome
<1>2. CASE \E o \in ChunkFor(s, ClsId[len]) : a = InitItem(o, k, len, x)
  <2>1. PICK o \in ChunkFor(s, ClsId[len]) : a = InitItem(o, k, len, x)
    BY <1>2
  <2>2. ClsId[len] \in Classes \cup {0}
    BY ItemsAssumption
  <2>3. Answer(s, o)
    BY <2>1, <2>2, ChunkForAnswer
  <2>4. CASE o.it = NULL
    BY <2>1, <2>3, <2>4 DEF InitItem
  <2>5. CASE o.it # NULL
    <3> DEFINE r == NewItem(k, len, x)
               t == [o.s EXCEPT !.item = [o.s.item EXCEPT ![o.it] = r]]
    <3>1. r \in Item /\ r.key = k
      <4>1. 0 \in Vals /\ 0 \in ItemTimes /\ 0 \in 0 .. RefMod - 1 /\ {} \in SUBSET Flags
        BY ItemsAssumption
      <4>2. QED
        BY <4>1, <2>2 DEF NewItem, BlankItem, Item
    <3>2. o.it \in Chunks /\ o.s \in Store
      BY <2>3, <2>5 DEF Answer, Keeps
    <3>3. a.s = t /\ a.it = o.it
      BY <2>1, <2>5 DEF InitItem, Outcome
    <3> HIDE DEF r
    <3>4. Keeps(o.s, t)
      BY <3>1, <3>2, WithItem
    <3>5. t.item[o.it] = r
      BY <3>2 DEF Store
    <3> HIDE DEF t
    <3>6. QED
      BY <2>3, <3>1, <3>2, <3>3, <3>4, <3>5, KeepsTrans DEF Answer
  <2>6. QED
    BY <2>4, <2>5
<1>3. QED
  BY <1>1, <1>2 DEF item_alloc

\* A lookup leaves a good store and finds a chunk or NULL.
LEMMA LookupAnswer ==
  ASSUME NEW s \in Store, NEW k \in Keys
  PROVE  LET g == get_item_notedeleted(s, k)
         IN  Keeps(s, g.s) /\ g.it \in Chunks \cup {NULL}
<1> DEFINE it == assoc_find(s, k)
<1>1. it \in Chunks \cup {NULL}
  BY AssocFindType
<1> HIDE DEF it
<1>2. it # NULL => Keeps(s, item_unlink(s, it))
  BY <1>1, ItemUnlinkKeeps
<1>3. \/ get_item_notedeleted(s, k)
            \in {Found(s, NULL, FALSE), Found(s, NULL, TRUE), Found(s, it, FALSE)}
      \/ /\ it # NULL
         /\ get_item_notedeleted(s, k) = Found(item_unlink(s, it), NULL, FALSE)
  BY DEF get_item_notedeleted, it
<1>4. QED
  BY <1>1, <1>2, <1>3, KeepsSelf DEF Found

-----------------------------------------------------------------------------
(* The inductive invariant *)

\* The timer's positions: j does not pass i, nor i the end of the queue, so
\* the entry it moves down and the prefix it keeps are inside the queue.
TimerBounds == tj <= ti /\ ti <= Len(todelete)

\* A handler that works for a connection has one.
CallerIsConn == fn \in {"command_get", "drive_machine", "conn_cleanup"} => who \in Conns

\* A connection that reads data has an item to read it into, except while it
\* is being closed: conn_cleanup has then freed the item already.
ReaderHasItem ==
  \A c \in Conns :
    state[c] = "conn_nread" => citem[c] # NULL \/ (fn = "conn_cleanup" /\ who = c)

\* That item has a key, with which complete_nread looks for an old item.
ItemHasKey == \A c \in Conns : citem[c] # NULL => store.item[citem[c]].key \in Keys

\* TypeOK is not inductive by itself: it needs what makes the handlers' reads
\* of todelete, of c->item and of ITEM_key well defined.
IInv == TypeOK /\ TimerBounds /\ CallerIsConn /\ ReaderHasItem /\ ItemHasKey

\* realtime returns a rel_time_t, whatever the client sent.
LEMMA RealtimeType ==
  ASSUME NEW x \in Int, NEW now \in RelTime
  PROVE  realtime(x, now) \in ItemTimes
<1> DEFINE y == IF x > REALTIME_MAXDELTA THEN x - Started ELSE x + now
<1>1. /\ RelTimeMod \in Nat \ {0} /\ Started \in Nat
      /\ ItemTimes = 0 .. RelTimeMod - 1 /\ now \in Int
  BY TimeAssumption, ItemStoreAssumption DEF RelTime
<1>2. y \in Int
  BY <1>1
<1>3. realtime(x, now) = IF x = 0 THEN 0 ELSE y % RelTimeMod
  BY DEF realtime
<1> HIDE DEF y
<1>4. y % RelTimeMod \in 0 .. RelTimeMod - 1 /\ 0 \in 0 .. RelTimeMod - 1
  BY <1>1, <1>2
<1>5. QED
  BY <1>1, <1>3, <1>4

\* incr wraps around and decr stops at 0: the result is an unsigned int.
LEMMA NewValueType ==
  ASSUME NEW incr \in BOOLEAN, NEW v \in Vals, NEW d \in Deltas
  PROVE  NewValue(incr, v, d) \in Vals
<1>1. ValMod \in Nat \ {0} /\ Vals = 0 .. ValMod - 1 /\ d \in Nat
  BY ItemStoreAssumption
<1>2. (v + d) % ValMod \in 0 .. ValMod - 1
  BY <1>1
<1>3. d < v => v - d \in 0 .. ValMod - 1
  BY <1>1
<1>4. 0 \in 0 .. ValMod - 1
  BY <1>1
<1>5. QED
  BY <1>1, <1>2, <1>3, <1>4 DEF NewValue

\* An action that keeps the store good and gives no connection an item keeps
\* the keys of the items being read.
LEMMA KeysKept ==
  ASSUME TypeOK, ItemHasKey, Keeps(store, store'),
         \A c \in Conns : citem'[c] \in {citem[c], NULL}
  PROVE  ItemHasKey'
<1> SUFFICES ASSUME NEW c \in Conns, citem'[c] # NULL
             PROVE  store'.item[citem'[c]].key \in Keys
  BY DEF ItemHasKey
<1>1. citem'[c] = citem[c] /\ citem[c] \in Chunks
  BY DEF TypeOK
<1>2. QED
  BY <1>1 DEF ItemHasKey, Keeps

\* A command that only changes the store, and keeps it good.
LEMMA StoreStep ==
  ASSUME IInv, Keeps(store, store'),
         UNCHANGED <<timeVars, todelete, connVars, fn, who, timerVars>>
  PROVE  IInv'
<1> USE DEF timeVars, connVars, timerVars
<1>1. store' \in Store
  BY DEF Keeps
<1>2. TypeOK'
  BY <1>1 DEF IInv, TypeOK
<1>3. \A c \in Conns : citem'[c] \in {citem[c], NULL}
  OBVIOUS
<1>4. ItemHasKey'
  BY <1>3, KeysKept DEF IInv
<1>5. (TimerBounds /\ CallerIsConn /\ ReaderHasItem)'
  BY DEF IInv, TimerBounds, CallerIsConn, ReaderHasItem
<1>6. QED
  BY <1>2, <1>4, <1>5 DEF IInv

\* The invariant holds initially: the store is empty, and all is closed.
LEMMA InitIInv == Init => IInv
<1> SUFFICES ASSUME Init
             PROVE  IInv
  OBVIOUS
<1>1. 0 \in Vals /\ 0 \in ItemTimes /\ 0 \in 0 .. RefMod - 1 /\ Prealloc \in SUBSET Pages
  BY ItemsAssumption, PoolAssumption
<1>2. BlankItem \in Item
  BY <1>1 DEF BlankItem, Item
<1>3. ChunksOf(Prealloc) \in SUBSET Chunks
  BY DEF ChunksOf
<1>4. /\ [i \in Chunks |-> BlankItem] \in [Chunks -> Item]
      /\ [k \in Keys |-> <<>>] \in [Keys -> Seq(Chunks)]
      /\ [id \in Classes \cup {0} |-> <<>>] \in [Classes \cup {0} -> Seq(Chunks)]
  BY <1>2
<1>5. InitStore \in Store
  BY <1>1, <1>3, <1>4 DEF InitStore, Store
<1>6. 0 \in RelTime /\ <<>> \in Seq(Chunks) /\ <<>> \in Seq(Entry)
  BY <1>1, ItemStoreAssumption
<1>7. TypeOK
  BY <1>5, <1>6 DEF Init, TypeOK, ConnStates, Functions
<1>8. Len(todelete) = 0
  BY DEF Init
<1>9. QED
  BY <1>7, <1>8 DEF Init, IInv, TimerBounds, CallerIsConn, ReaderHasItem, ItemHasKey

-----------------------------------------------------------------------------
(* The actions preserve it *)

\* A connection is accepted.
LEMMA ConnNewStep ==
  ASSUME IInv, NEW c \in Conns, conn_new(c)
  PROVE  IInv'
<1> USE DEF conn_new, timeVars, timerVars
<1>1. TypeOK'
  BY DEF IInv, TypeOK, ConnStates
<1>2. ReaderHasItem'
  BY DEF IInv, TypeOK, ReaderHasItem
<1>3. (TimerBounds /\ CallerIsConn /\ ItemHasKey)'
  BY DEF IInv, TimerBounds, CallerIsConn, ItemHasKey
<1>4. QED
  BY <1>1, <1>2, <1>3 DEF IInv

\* conn_cleanup starts: the item being read is freed and forgotten.
LEMMA ConnCloseStep ==
  ASSUME IInv, NEW c \in Conns, conn_close(c)
  PROVE  IInv'
<1> USE DEF conn_close, timeVars, timerVars, Call
<1>1. Keeps(store, store')
  <2>1. store \in Store /\ citem[c] \in Chunks \cup {NULL}
    BY DEF IInv, TypeOK
  <2>2. QED
    BY <2>1, ItemFreeKeeps, KeepsSelf
<1>2. TypeOK'
  <2>1. store' \in Store
    BY <1>1 DEF Keeps
  <2>2. /\ citem' \in [Conns -> Chunks \cup {NULL}]
        /\ item_comm' \in [Conns -> Comms \cup {NULL}]
    BY DEF IInv, TypeOK
  <2>3. QED
    BY <2>1, <2>2 DEF IInv, TypeOK, Functions
<1>3. ReaderHasItem' /\ CallerIsConn' /\ TimerBounds'
  BY DEF IInv, TypeOK, ReaderHasItem, CallerIsConn, TimerBounds
<1>4. \A d \in Conns : citem'[d] \in {citem[d], NULL}
  BY DEF IInv, TypeOK
<1>5. ItemHasKey'
  BY <1>1, <1>4, KeysKept DEF IInv
<1>6. QED
  BY <1>2, <1>3, <1>5 DEF IInv

\* The handlers that only start a loop.
LEMMA CallStep ==
  ASSUME IInv, NEW c \in Conns, transmit_complete(c) \/ command_get(c)
  PROVE  IInv'
<1>1. /\ fn = "ae_loop" /\ fn' \in {"drive_machine", "command_get"} /\ who' = c
      /\ UNCHANGED <<store, timeVars, todelete, connVars, timerVars>>
  BY DEF transmit_complete, command_get, Ready, Call
<1> USE <1>1 DEF timeVars, connVars, timerVars
<1>2. TypeOK'
  BY DEF IInv, TypeOK, Functions
<1>3. (TimerBounds /\ CallerIsConn /\ ReaderHasItem /\ ItemHasKey)'
  BY DEF IInv, TimerBounds, CallerIsConn, ReaderHasItem, ItemHasKey
<1>4. QED
  BY <1>2, <1>3 DEF IInv

\* One item of a response is released.
LEMMA ReleaseItemStep ==
  ASSUME IInv, release_item
  PROVE  IInv'
<1> USE DEF release_item, timeVars, timerVars
<1>1. /\ who \in Conns /\ icurr[who] \in Nat /\ ilist[who] \in Seq(Entry)
      /\ store \in Store
  BY DEF IInv, TypeOK, CallerIsConn
<1>2. ilist[who][icurr[who] + 1].it \in Chunks
  <2>1. icurr[who] + 1 \in 1 .. Len(ilist[who])
    BY <1>1
  <2>2. ilist[who][icurr[who] + 1] \in Entry
    BY <1>1, <2>1
  <2>3. QED
    BY <2>2 DEF Entry
<1>3. Keeps(store, store')
  BY <1>1, <1>2, ItemRemoveKeeps
<1>4. TypeOK'
  <2>1. store' \in Store
    BY <1>3 DEF Keeps
  <2>2. icurr' \in [Conns -> Nat]
    BY <1>1 DEF IInv, TypeOK
  <2>3. QED
    BY <2>1, <2>2 DEF IInv, TypeOK
<1>5. ItemHasKey'
  BY <1>3, KeysKept DEF IInv, TypeOK
<1>6. (TimerBounds /\ CallerIsConn /\ ReaderHasItem)'
  BY DEF IInv, TimerBounds, CallerIsConn, ReaderHasItem
<1>7. QED
  BY <1>4, <1>5, <1>6 DEF IInv

\* The last item of a response is released, or its connection closed.
LEMMA ReleaseEndStep ==
  ASSUME IInv, release_end
  PROVE  IInv'
<1> USE DEF release_end, timeVars, timerVars, Return
<1>1. who \in Conns
  BY DEF IInv, CallerIsConn
<1>2. TypeOK'
  <2>1. state' \in [Conns -> ConnStates]
    BY <1>1 DEF IInv, TypeOK, ConnStates
  <2>2. ilist' \in [Conns -> Seq(Entry)] /\ icurr' \in [Conns -> Nat]
    BY <1>1 DEF IInv, TypeOK
  <2>3. QED
    BY <2>1, <2>2 DEF IInv, TypeOK, Functions
<1>3. ReaderHasItem'
  <2> SUFFICES ASSUME NEW d \in Conns, state'[d] = "conn_nread"
               PROVE  citem[d] # NULL
    BY DEF ReaderHasItem
  <2>1. d # who /\ state'[d] = state[d]
    BY <1>1 DEF IInv, TypeOK
  <2>2. QED
    BY <2>1 DEF IInv, ReaderHasItem
<1>4. (TimerBounds /\ CallerIsConn /\ ItemHasKey)'
  BY DEF IInv, TimerBounds, CallerIsConn, ItemHasKey
<1>5. QED
  BY <1>2, <1>3, <1>4 DEF IInv

\* An item is allocated for the data of a store command.
LEMMA CommandReplaceStep ==
  ASSUME IInv, NEW c \in Conns, NEW comm \in Comms, NEW k \in Keys, NEW len \in Lens,
         NEW t \in SetTimes, command_replace(c, comm, k, len, t)
  PROVE  IInv'
<1> DEFINE x == realtime(t, current_time)
<1>1. x \in ItemTimes
  <2>1. t \in Int /\ current_time \in RelTime
    BY ItemStoreAssumption DEF IInv, TypeOK
  <2>2. QED
    BY <2>1, RealtimeType
<1>2. PICK o \in item_alloc(store, k, len, x) :
         /\ store' = o.s
         /\ IF o.it = NULL
            THEN UNCHANGED <<state, citem, item_comm>>
            ELSE /\ state' = [state EXCEPT ![c] = "conn_nread"]
                 /\ citem' = [citem EXCEPT ![c] = o.it]
                 /\ item_comm' = [item_comm EXCEPT ![c] = comm]
  BY DEF command_replace
<1> HIDE DEF x
<1>3. Answer(store, o) /\ (o.it # NULL => o.s.item[o.it].key = k)
  BY <1>1, ItemAllocAnswer DEF IInv, TypeOK
<1>4. Keeps(store, store') /\ o.it \in Chunks \cup {NULL}
  BY <1>2, <1>3 DEF Answer
<1>5. /\ fn = "ae_loop" /\ state[c] = "conn_read"
      /\ UNCHANGED <<timeVars, todelete, ilist, icurr, fn, who, timerVars>>
  BY DEF command_replace, Ready
<1> USE <1>5 DEF timeVars, timerVars
<1>6. CASE o.it = NULL
  BY <1>2, <1>4, <1>6, StoreStep DEF connVars
<1>7. CASE o.it # NULL
  <2>1. TypeOK'
    <3>1. store' \in Store
      BY <1>4 DEF Keeps
    <3>2. /\ state' \in [Conns -> ConnStates]
          /\ citem' \in [Conns -> Chunks \cup {NULL}]
          /\ item_comm' \in [Conns -> Comms \cup {NULL}]
      BY <1>2, <1>4, <1>7 DEF IInv, TypeOK, ConnStates
    <3>3. QED
      BY <3>1, <3>2 DEF IInv, TypeOK
  <2>2. ItemHasKey'
    <3> SUFFICES ASSUME NEW d \in Conns, citem'[d] # NULL
                 PROVE  store'.item[citem'[d]].key \in Keys
      BY DEF ItemHasKey
    <3>1. CASE d = c
      BY <1>2, <1>3, <1>7, <3>1 DEF IInv, TypeOK
    <3>2. CASE d # c
      <4>1. citem'[d] = citem[d] /\ citem[d] \in Chunks
        BY <1>2, <1>7, <3>2 DEF IInv, TypeOK
      <4>2. QED
        BY <1>4, <4>1 DEF IInv, ItemHasKey, Keeps
    <3>3. QED
      BY <3>1, <3>2
  <2>3. ReaderHasItem'
    <3> SUFFICES ASSUME NEW d \in Conns, state'[d] = "conn_nread"
                 PROVE  citem'[d] # NULL
      BY DEF ReaderHasItem
    <3>1. CASE d = c
      BY <1>2, <1>7, <3>1 DEF IInv, TypeOK
    <3>2. CASE d # c
      BY <1>2, <1>7, <3>2 DEF IInv, TypeOK, ReaderHasItem
    <3>3. QED
      BY <3>1, <3>2
  <2>4. (TimerBounds /\ CallerIsConn)'
    BY DEF IInv, TimerBounds, CallerIsConn
  <2>5. QED
    BY <2>1, <2>2, <2>3, <2>4 DEF IInv
<1>8. QED
  BY <1>6, <1>7

\* Data written into an item keeps the store good.
LEMMA SetValKeeps ==
  ASSUME NEW s \in Store, NEW i \in Chunks, NEW v \in Vals
  PROVE  Keeps(s, [s EXCEPT !.item[i].val = v])
<1> DEFINE r == [s.item[i] EXCEPT !.val = v]
<1>1. s.item[i] \in Item
  BY DEF Store
<1>2. r \in Item /\ r.key = s.item[i].key
  BY <1>1, ItemFields DEF Item
<1>3. [s EXCEPT !.item[i].val = v] = [s EXCEPT !.item = [s.item EXCEPT ![i] = r]]
  OBVIOUS
<1> HIDE DEF r
<1>4. QED
  BY <1>2, <1>3, WithItem

\* Both outcomes of complete_nread after a lookup keep the store good.
LEMMA CompletionKeeps ==
  ASSUME NEW g, g.s \in Store, g.it \in Chunks \cup {NULL}, NEW k \in Keys,
         NEW it \in Chunks, NEW comm, current_time \in ItemTimes
  PROVE  /\ Keeps(g.s, Stored(g, k, it))
         /\ Keeps(g.s, item_free(Touched(g, comm), it))
<1> DEFINE old_it == IF g.delete_locked THEN assoc_find(g.s, k) ELSE g.it
           s == g.s
           t == Touched(g, comm)
<1>1. Keeps(s, Stored(g, k, it))
  <2>1. Stored(g, k, it) = IF old_it = NULL THEN item_link(s, it, current_time)
                           ELSE item_replace(s, old_it, it, current_time)
    BY DEF Stored
  <2>2. old_it \in Chunks \cup {NULL}
    BY AssocFindType
  <2> HIDE DEF old_it
  <2>3. QED
    BY <2>1, <2>2, ItemLinkKeeps, ItemReplaceKeeps
<1>2. Keeps(s, t)
  BY ItemUpdateKeeps, KeepsSelf DEF Touched
<1> HIDE DEF t
<1>3. Keeps(t, item_free(t, it))
  BY <1>2, ItemFreeKeeps DEF Keeps
<1>4. Keeps(s, item_free(t, it))
  BY <1>2, <1>3, KeepsTrans
<1>5. QED
  BY <1>1, <1>4 DEF t

\* The data of a store command is complete.
LEMMA CompleteNreadStep ==
  ASSUME IInv, NEW c \in Conns, NEW val \in Vals, NEW good \in BOOLEAN,
         complete_nread(c, val, good)
  PROVE  IInv'
<1> DEFINE it == citem[c]
           k == store.item[it].key
           s == [store EXCEPT !.item[it].val = val]
           g == get_item_notedeleted(s, k)
<1>1. /\ fn = "ae_loop" /\ state[c] = "conn_nread"
      /\ store' = IF ~ good THEN item_free(s, it)
                  ELSE IF Refused(g, item_comm[c])
                       THEN item_free(Touched(g, item_comm[c]), it)
                  ELSE Stored(g, k, it)
      /\ citem' = [citem EXCEPT ![c] = NULL]
      /\ item_comm' = [item_comm EXCEPT ![c] = NULL]
      /\ state' = [state EXCEPT ![c] = "conn_read"]
      /\ UNCHANGED <<timeVars, todelete, ilist, icurr, fn, who, timerVars>>
  BY DEF complete_nread
<1>2. it \in Chunks /\ k \in Keys /\ store \in Store /\ current_time \in ItemTimes
  BY <1>1, ItemStoreAssumption DEF IInv, TypeOK, ReaderHasItem, ItemHasKey
<1>3. Keeps(store, s)
  BY <1>2, SetValKeeps
<1> HIDE DEF it, k, s
<1>4. Keeps(s, g.s) /\ g.it \in Chunks \cup {NULL}
  BY <1>2, <1>3, LookupAnswer DEF Keeps
<1> HIDE DEF g
<1>5. Keeps(store, store')
  <2>1. Keeps(g.s, Stored(g, k, it)) /\ Keeps(g.s, item_free(Touched(g, item_comm[c]), it))
    BY <1>2, <1>4, CompletionKeeps DEF Keeps
  <2>2. Keeps(s, item_free(s, it))
    BY <1>2, <1>3, ItemFreeKeeps DEF Keeps
  <2>3. Keeps(s, store')
    BY <1>1, <1>4, <2>1, <2>2, KeepsTrans
  <2>4. QED
    BY <1>3, <2>3, KeepsTrans
<1> USE <1>1 DEF timeVars, timerVars
<1>6. TypeOK'
  <2>1. store' \in Store
    BY <1>5 DEF Keeps
  <2>2. /\ state' \in [Conns -> ConnStates]
        /\ citem' \in [Conns -> Chunks \cup {NULL}]
        /\ item_comm' \in [Conns -> Comms \cup {NULL}]
    BY DEF IInv, TypeOK, ConnStates
  <2>3. QED
    BY <2>1, <2>2 DEF IInv, TypeOK
<1>7. \A d \in Conns : citem'[d] \in {citem[d], NULL}
  BY DEF IInv, TypeOK
<1>8. ItemHasKey'
  BY <1>5, <1>7, KeysKept DEF IInv
<1>9. ReaderHasItem'
  <2> SUFFICES ASSUME NEW d \in Conns, state'[d] = "conn_nread"
               PROVE  citem'[d] # NULL
    BY DEF ReaderHasItem
  <2>1. d # c
    BY DEF IInv, TypeOK
  <2>2. QED
    BY <2>1 DEF IInv, TypeOK, ReaderHasItem
<1>10. (TimerBounds /\ CallerIsConn)'
  BY DEF IInv, TimerBounds, CallerIsConn
<1>11. QED
  BY <1>6, <1>8, <1>9, <1>10 DEF IInv

\* One key of a get: the item found is referenced and added to the response.
LEMMA CommandGetKeyStep ==
  ASSUME IInv, NEW k \in Keys, command_get_key(k)
  PROVE  IInv'
<1> DEFINE g == get_item_notedeleted(store, k)
           e == [it |-> g.it, key |-> g.s.item[g.it].key, nbytes |-> g.s.item[g.it].nbytes]
<1>1. /\ fn = "command_get"
      /\ \/ g.it = NULL /\ store' = g.s /\ UNCHANGED ilist
         \/ /\ g.it # NULL
            /\ store' = item_update(AddRef(g.s, g.it), g.it, current_time)
            /\ ilist' = [ilist EXCEPT ![who] = Append(@, e)]
      /\ UNCHANGED <<timeVars, todelete, state, citem, item_comm, icurr, fn, who, timerVars>>
  BY DEF command_get_key, get_item
<1> USE <1>1 DEF timeVars, timerVars
<1>2. store \in Store /\ current_time \in ItemTimes /\ who \in Conns
  BY ItemStoreAssumption DEF IInv, TypeOK, CallerIsConn
<1>3. Keeps(store, g.s) /\ g.it \in Chunks \cup {NULL}
  BY <1>2, LookupAnswer
<1> HIDE DEF g
<1>4. Keeps(store, store') /\ ilist' \in [Conns -> Seq(Entry)]
  <2>1. CASE g.it = NULL
    BY <1>3, <2>1 DEF IInv, TypeOK
  <2>2. CASE g.it # NULL
    <3> DEFINE t == AddRef(g.s, g.it)
    <3>1. g.it \in Chunks /\ Keeps(g.s, t)
      BY <1>3, <2>2, AddRefKeeps DEF Keeps
    <3>2. g.s.item[g.it] \in Item
      BY <1>3, <3>1 DEF Keeps, Store
    <3>3. e \in Entry
      BY <3>1, <3>2 DEF Item, Entry
    <3>4. store' = item_update(t, g.it, current_time) /\ ilist' = [ilist EXCEPT ![who] = Append(@, e)]
      BY <2>2
    <3> HIDE DEF t, e
    <3>5. Keeps(t, store')
      BY <1>2, <3>1, <3>4, ItemUpdateKeeps DEF Keeps
    <3>6. ilist' \in [Conns -> Seq(Entry)]
      BY <1>2, <3>3, <3>4 DEF IInv, TypeOK
    <3>7. QED
      BY <1>3, <3>1, <3>5, <3>6, KeepsTrans
  <2>3. QED
    BY <2>1, <2>2
<1>5. TypeOK'
  BY <1>4 DEF IInv, TypeOK, Keeps
<1>6. \A c \in Conns : citem'[c] \in {citem[c], NULL}
  OBVIOUS
<1>7. ItemHasKey'
  BY <1>4, <1>6, KeysKept DEF IInv
<1>8. (TimerBounds /\ CallerIsConn /\ ReaderHasItem)'
  BY DEF IInv, TimerBounds, CallerIsConn, ReaderHasItem
<1>9. QED
  BY <1>5, <1>7, <1>8 DEF IInv

\* The response of a get is ready to be sent.
LEMMA CommandGetEndStep ==
  ASSUME IInv, command_get_end
  PROVE  IInv'
<1> USE DEF command_get_end, timeVars, timerVars, Return
<1>1. who \in Conns
  BY DEF IInv, CallerIsConn
<1>2. TypeOK'
  BY <1>1 DEF IInv, TypeOK, ConnStates, Functions
<1>3. ReaderHasItem'
  BY <1>1 DEF IInv, TypeOK, ReaderHasItem
<1>4. (TimerBounds /\ CallerIsConn /\ ItemHasKey)'
  BY DEF IInv, TimerBounds, CallerIsConn, ItemHasKey
<1>5. QED
  BY <1>2, <1>3, <1>4 DEF IInv

\* incr and decr, in place or in a new item.
LEMMA CommandVaryDeltaStep ==
  ASSUME IInv, NEW c \in Conns, NEW k \in Keys, NEW incr \in BOOLEAN, NEW delta \in Deltas,
         command_vary_delta(c, k, incr, delta)
  PROVE  IInv'
<1> DEFINE g == get_item_notedeleted(store, k)
           old == g.s.item[g.it]
           v == NewValue(incr, old.val, delta)
<1>1. /\ \/ g.it = NULL /\ store' = g.s
         \/ /\ g.it # NULL
            /\ \E o \in item_alloc(g.s, k, DataLen[v], old.exptime) :
                 store' = IF o.it = NULL THEN o.s
                          ELSE item_replace([o.s EXCEPT !.item[o.it].val = v],
                                            g.it, o.it, current_time)
         \/ g.it # NULL /\ store' = [g.s EXCEPT !.item[g.it].val = v]
      /\ UNCHANGED <<timeVars, todelete, connVars, fn, who, timerVars>>
  BY ZenonT(60) DEF command_vary_delta, get_item
<1>2. store \in Store /\ current_time \in ItemTimes
  BY ItemStoreAssumption DEF IInv, TypeOK
<1>3. Keeps(store, g.s) /\ g.it \in Chunks \cup {NULL}
  BY <1>2, LookupAnswer
<1> HIDE DEF g
<1>4. g.s \in Store
  BY <1>3 DEF Keeps
<1>5. g.it # NULL => g.it \in Chunks /\ old.exptime \in ItemTimes /\ v \in Vals /\ DataLen[v] \in Lens
  <2> SUFFICES ASSUME g.it # NULL
               PROVE  g.it \in Chunks /\ old.exptime \in ItemTimes /\ v \in Vals /\ DataLen[v] \in Lens
    OBVIOUS
  <2>1. g.it \in Chunks
    BY <1>3
  <2>2. old \in Item
    BY <1>4, <2>1 DEF Store
  <2> HIDE DEF old
  <2>3. old.val \in Vals /\ old.exptime \in ItemTimes
    BY <2>2 DEF Item
  <2>4. v \in Vals
    BY <2>3, NewValueType
  <2>5. QED
    BY <2>1, <2>3, <2>4, ItemStoreAssumption
<1> HIDE DEF old, v
<1>6. Keeps(g.s, store')
  <2>1. CASE g.it = NULL /\ store' = g.s
    BY <1>4, <2>1, KeepsSelf
  <2>2. CASE g.it # NULL /\ \E o \in item_alloc(g.s, k, DataLen[v], old.exptime) :
                 store' = IF o.it = NULL THEN o.s
                          ELSE item_replace([o.s EXCEPT !.item[o.it].val = v],
                                            g.it, o.it, current_time)
    <3>1. PICK o \in item_alloc(g.s, k, DataLen[v], old.exptime) :
                 store' = IF o.it = NULL THEN o.s
                          ELSE item_replace([o.s EXCEPT !.item[o.it].val = v],
                                            g.it, o.it, current_time)
      BY <2>2
    <3>2. Answer(g.s, o)
      BY <1>4, <1>5, <2>2, ItemAllocAnswer
    <3>3. CASE o.it = NULL
      BY <3>1, <3>2, <3>3 DEF Answer
    <3>4. CASE o.it # NULL
      <4> DEFINE s == o.s
                 t == [s EXCEPT !.item[o.it].val = v]
      <4>1. store' = item_replace(t, g.it, o.it, current_time)
        BY <3>1, <3>4
      <4>2. s \in Store /\ o.it \in Chunks /\ Keeps(g.s, s)
        BY <3>2, <3>4 DEF Answer, Keeps
      <4> HIDE DEF s
      <4>3. Keeps(s, t)
        BY <1>5, <2>2, <4>2, SetValKeeps
      <4> HIDE DEF t
      <4>4. Keeps(t, store')
        BY <1>2, <1>5, <2>2, <4>1, <4>2, <4>3, ItemReplaceKeeps DEF Keeps
      <4>5. QED
        BY <4>2, <4>3, <4>4, KeepsTrans
    <3>5. QED
      BY <3>3, <3>4
  <2>3. CASE g.it # NULL /\ store' = [g.s EXCEPT !.item[g.it].val = v]
    <3> DEFINE s == g.s
    <3>1. s \in Store /\ store' = [s EXCEPT !.item[g.it].val = v]
      BY <1>4, <2>3
    <3> HIDE DEF s
    <3>2. Keeps(s, store')
      BY <1>5, <2>3, <3>1, SetValKeeps
    <3>3. QED
      BY <3>2 DEF s
  <2>4. QED
    BY <1>1, <2>1, <2>2, <2>3
<1>7. Keeps(store, store')
  BY <1>3, <1>6, KeepsTrans
<1>8. QED
  BY <1>1, <1>7, StoreStep, SMTT(60)

\* A delete with a lock: the item is flagged and gets its new time.
LEMMA LockKeeps ==
  ASSUME NEW s \in Store, NEW i \in Chunks, NEW x \in ItemTimes
  PROVE  Keeps(s, [s EXCEPT !.item[i].exptime = x, !.item[i].it_flags = @ \cup {"DELETED"}])
<1> DEFINE w == s.item[i].it_flags \cup {"DELETED"}
           r == [s.item[i] EXCEPT !.exptime = x, !.it_flags = w]
<1>1. s.item[i] \in Item /\ w \in SUBSET Flags
  BY DEF Store, Item, Flags
<1>2. [s EXCEPT !.item[i].exptime = x, !.item[i].it_flags = @ \cup {"DELETED"}]
        = [s EXCEPT !.item = [s.item EXCEPT ![i] = r]]
  OBVIOUS
<1> HIDE DEF w
<1>3. r \in Item /\ r.key = s.item[i].key
  BY <1>1, ItemFields DEF Item
<1> HIDE DEF r
<1>4. QED
  BY <1>2, <1>3, WithItem

\* The timer ends the lock of an item: it clears its flag.
LEMMA UnlockKeeps ==
  ASSUME NEW s \in Store, NEW i \in Chunks
  PROVE  Keeps(s, [s EXCEPT !.item[i].it_flags = @ \ {"DELETED"}])
<1> DEFINE w == s.item[i].it_flags \ {"DELETED"}
           r == [s.item[i] EXCEPT !.it_flags = w]
<1>1. s.item[i] \in Item /\ w \in SUBSET Flags
  BY DEF Store, Item, Flags
<1>2. [s EXCEPT !.item[i].it_flags = @ \ {"DELETED"}]
        = [s EXCEPT !.item = [s.item EXCEPT ![i] = r]]
  OBVIOUS
<1> HIDE DEF w
<1>3. r \in Item /\ r.key = s.item[i].key
  BY <1>1, ItemFields DEF Item
<1> HIDE DEF r
<1>4. QED
  BY <1>2, <1>3, WithItem

\* A delete: at once, or with a lock and an entry in the delete queue.
LEMMA DeleteHandlerStep ==
  ASSUME IInv, NEW c \in Conns, NEW k \in Keys, NEW t \in DelTimes,
         delete_handler(c, k, t)
  PROVE  IInv'
<1> DEFINE g == get_item_notedeleted(store, k)
           x == realtime(t, current_time)
           locked == [AddRef(g.s, g.it) EXCEPT !.item[g.it].exptime = x,
                        !.item[g.it].it_flags = @ \cup {"DELETED"}]
<1>1. /\ \/ store' = g.s /\ UNCHANGED todelete
         \/ g.it # NULL /\ store' = item_unlink(g.s, g.it) /\ UNCHANGED todelete
         \/ g.it # NULL /\ store' = locked /\ todelete' = Append(todelete, g.it)
      /\ UNCHANGED <<timeVars, connVars, fn, who, timerVars>>
  BY DEF delete_handler, get_item
<1>2. store \in Store /\ todelete \in Seq(Chunks)
  BY DEF IInv, TypeOK
<1>3. Keeps(store, g.s) /\ g.it \in Chunks \cup {NULL}
  BY <1>2, LookupAnswer
<1>4. x \in ItemTimes
  <2>1. t \in Int /\ current_time \in RelTime
    BY ItemStoreAssumption DEF IInv, TypeOK
  <2>2. QED
    BY <2>1, RealtimeType
<1> HIDE DEF g, x
<1>5. g.it # NULL => Keeps(g.s, item_unlink(g.s, g.it))
  BY <1>3, ItemUnlinkKeeps DEF Keeps
<1>6. g.it # NULL => Keeps(g.s, locked)
  <2> SUFFICES ASSUME g.it # NULL
               PROVE  Keeps(g.s, locked)
    OBVIOUS
  <2> DEFINE s == AddRef(g.s, g.it)
  <2>1. g.it \in Chunks /\ Keeps(g.s, s)
    BY <1>3, AddRefKeeps, SMTT(60) DEF Keeps
  <2>2. locked = [s EXCEPT !.item[g.it].exptime = x, !.item[g.it].it_flags = @ \cup {"DELETED"}]
    OBVIOUS
  <2> HIDE DEF s, locked
  <2>3. Keeps(s, locked)
    BY <1>4, <2>1, <2>2, LockKeeps DEF Keeps
  <2>4. QED
    BY <2>1, <2>3, KeepsTrans
<1> HIDE DEF locked
<1>7. Keeps(store, store')
  BY <1>1, <1>3, <1>5, <1>6, KeepsTrans
<1>8. todelete' \in Seq(Chunks) /\ Len(todelete) <= Len(todelete')
  BY <1>1, <1>2, <1>3
<1> USE <1>1 DEF timeVars, connVars, timerVars
<1>9. TypeOK'
  BY <1>7, <1>8 DEF IInv, TypeOK, Keeps
<1>10. \A d \in Conns : citem'[d] \in {citem[d], NULL}
  BY <1>1
<1>11. ItemHasKey'
  BY <1>7, <1>10, KeysKept DEF IInv
<1>12. TimerBounds'
  BY <1>2, <1>8 DEF IInv, TypeOK, TimerBounds
<1>13. (CallerIsConn /\ ReaderHasItem)'
  BY DEF IInv, CallerIsConn, ReaderHasItem
<1>14. QED
  BY <1>9, <1>11, <1>12, <1>13 DEF IInv

\* The delete timer starts.
LEMMA TimerStep ==
  ASSUME IInv, timer_delete_handler
  PROVE  IInv'
<1> USE DEF timer_delete_handler, timeVars, connVars, Call
<1>1. TypeOK'
  BY DEF IInv, TypeOK, Functions
<1>2. TimerBounds'
  BY DEF IInv, TypeOK, TimerBounds
<1>3. (CallerIsConn /\ ReaderHasItem /\ ItemHasKey)'
  BY DEF IInv, CallerIsConn, ReaderHasItem, ItemHasKey
<1>4. QED
  BY <1>1, <1>2, <1>3 DEF IInv

\* One entry of the delete queue is released, or moved down.
LEMMA TimerDeleteStep ==
  ASSUME IInv, timer_delete_step
  PROVE  IInv'
<1> DEFINE it == todelete[ti + 1]
           s == [store EXCEPT !.item[it].it_flags = @ \ {"DELETED"}]
<1>1. /\ fn = "timer_delete_handler" /\ ti < Len(todelete)
      /\ \/ /\ store' = item_remove(item_unlink(s, it), it)
            /\ UNCHANGED <<todelete, tj>>
         \/ /\ todelete' = [todelete EXCEPT ![tj + 1] = it]
            /\ tj' = tj + 1
            /\ UNCHANGED store
      /\ ti' = ti + 1
      /\ UNCHANGED <<timeVars, connVars, fn, who>>
  BY DEF timer_delete_step
<1> USE <1>1 DEF timeVars, connVars
<1>2. /\ store \in Store /\ todelete \in Seq(Chunks) /\ ti \in Nat /\ tj \in Nat
      /\ tj <= ti /\ Len(todelete) \in Nat
  BY DEF IInv, TypeOK, TimerBounds
<1>3. it \in Chunks
  <2>1. ti + 1 \in 1 .. Len(todelete)
    BY <1>2
  <2>2. QED
    BY <1>2, <2>1
<1> HIDE DEF it
<1>4. Keeps(store, item_remove(item_unlink(s, it), it))
  <2> DEFINE u == item_unlink(s, it)
  <2>1. Keeps(store, s)
    BY <1>2, <1>3, UnlockKeeps
  <2> HIDE DEF s
  <2>2. Keeps(s, u)
    BY <1>3, <2>1, ItemUnlinkKeeps DEF Keeps
  <2> HIDE DEF u
  <2>3. Keeps(u, item_remove(u, it))
    BY <1>3, <2>2, ItemRemoveKeeps DEF Keeps
  <2>4. QED
    BY <2>1, <2>2, <2>3, KeepsTrans DEF u
<1> HIDE DEF s
<1>5. Keeps(store, store')
  BY <1>2, <1>4, KeepsSelf
<1>6. /\ todelete' \in Seq(Chunks) /\ Len(todelete') = Len(todelete)
      /\ tj' \in Nat /\ tj' <= ti + 1
  <2>1. CASE UNCHANGED <<todelete, tj>>
    BY <1>2, <2>1
  <2>2. CASE todelete' = [todelete EXCEPT ![tj + 1] = it] /\ tj' = tj + 1
    BY <1>2, <1>3, <2>2
  <2>3. QED
    BY <2>1, <2>2
<1>7. TypeOK'
  BY <1>2, <1>5, <1>6 DEF IInv, TypeOK, Keeps
<1>8. \A d \in Conns : citem'[d] \in {citem[d], NULL}
  BY <1>1
<1>9. ItemHasKey'
  BY <1>5, <1>8, KeysKept DEF IInv
<1>10. TimerBounds'
  BY <1>2, <1>6 DEF TimerBounds
<1>11. (CallerIsConn /\ ReaderHasItem)'
  BY DEF IInv, CallerIsConn, ReaderHasItem
<1>12. QED
  BY <1>7, <1>9, <1>10, <1>11 DEF IInv

\* The queue is cut down to the entries kept.
LEMMA TimerEndStep ==
  ASSUME IInv, timer_delete_end
  PROVE  IInv'
<1> USE DEF timer_delete_end, timeVars, connVars, Return
<1>1. todelete \in Seq(Chunks) /\ tj \in Nat /\ tj <= Len(todelete) /\ Len(todelete) \in Nat
  BY DEF IInv, TypeOK, TimerBounds
<1>2. todelete' \in Seq(Chunks)
  <2>1. \A n \in 1 .. tj : todelete[n] \in Chunks
    BY <1>1
  <2>2. SubSeq(todelete, 1, tj) \in Seq(Chunks)
    BY <1>1, <2>1
  <2>3. QED
    BY <2>2
<1>3. TypeOK'
  BY <1>2 DEF IInv, TypeOK, Functions
<1>4. TimerBounds'
  BY <1>2 DEF TimerBounds
<1>5. (CallerIsConn /\ ReaderHasItem /\ ItemHasKey)'
  BY DEF IInv, CallerIsConn, ReaderHasItem, ItemHasKey
<1>6. QED
  BY <1>3, <1>4, <1>5 DEF IInv

\* The clock, and the flushes, which bring it up to date.
LEMMA TimeStep ==
  ASSUME IInv,
         \/ clock_handler
         \/ \E c \in Conns : flush_all_handler(c)
         \/ \E c \in Conns, t \in FlushTimes : flush_all_at(c, t)
  PROVE  IInv'
<1>1. MaxTime \in RelTime /\ RelTime = ItemTimes /\ current_time \in RelTime /\ RelTime \subseteq Nat
  BY ItemStoreAssumption, ItemsAssumption DEF IInv, TypeOK
<1>2. \A t \in Nat : t <= MaxTime => t \in RelTime
  BY <1>1, TimeAssumption DEF RelTime
<1>3. /\ current_time' \in RelTime
      /\ UNCHANGED <<store, todelete, connVars, fn, who, timerVars>>
  <2>1. CASE clock_handler
    BY <1>1, <1>2, <2>1 DEF clock_handler, set_current_time
  <2>2. CASE \E c \in Conns : flush_all_handler(c)
    BY <1>1, <1>2, <2>2 DEF flush_all_handler, set_current_time
  <2>3. CASE \E c \in Conns, t \in FlushTimes : flush_all_at(c, t)
    BY <1>1, <1>2, <2>3 DEF flush_all_at, set_current_time
  <2>4. QED
    BY <2>1, <2>2, <2>3
<1>4. oldest_live' \in RelTime
  <2>1. CASE clock_handler
    BY <2>1 DEF clock_handler, IInv, TypeOK
  <2>2. CASE \E c \in Conns : flush_all_handler(c)
    BY <1>3, <2>2 DEF flush_all_handler
  <2>3. CASE \E c \in Conns, t \in FlushTimes : flush_all_at(c, t)
    <3>1. PICK c \in Conns, t \in FlushTimes : flush_all_at(c, t)
      BY <2>3
    <3>2. oldest_live' = realtime(t, current_time') /\ t \in Int
      BY <3>1, ItemStoreAssumption DEF flush_all_at
    <3>3. QED
      BY <1>1, <1>3, <3>2, RealtimeType
  <2>4. QED
    BY <2>1, <2>2, <2>3
<1> USE <1>3 DEF connVars, timerVars
<1>5. TypeOK'
  BY <1>4 DEF IInv, TypeOK
<1>6. (TimerBounds /\ CallerIsConn /\ ReaderHasItem /\ ItemHasKey)'
  BY DEF IInv, TimerBounds, CallerIsConn, ReaderHasItem, ItemHasKey
<1>7. QED
  BY <1>5, <1>6 DEF IInv

\* Every command that a connection can send.
LEMMA CommandStep ==
  ASSUME IInv, NEW c \in Conns, Command(c)
  PROVE  IInv'
<1>1. CASE \E comm \in Comms, k \in Keys, len \in Lens, t \in SetTimes :
             command_replace(c, comm, k, len, t)
  BY <1>1, CommandReplaceStep
<1>2. CASE command_get(c)
  BY <1>2, CallStep
<1>3. CASE \E k \in Keys, incr \in BOOLEAN, d \in Deltas : command_vary_delta(c, k, incr, d)
  BY <1>3, CommandVaryDeltaStep
<1>4. CASE \E k \in Keys, t \in DelTimes : delete_handler(c, k, t)
  BY <1>4, DeleteHandlerStep
<1>5. CASE flush_all_handler(c) \/ \E t \in FlushTimes : flush_all_at(c, t)
  BY <1>5, TimeStep
<1>6. QED
  BY <1>1, <1>2, <1>3, <1>4, <1>5 DEF Command

\* Every step of the server preserves the invariant.
LEMMA NextIInv == IInv /\ [Next]_vars => IInv'
<1> SUFFICES ASSUME IInv, [Next]_vars
             PROVE  IInv'
  OBVIOUS
<1>1. ASSUME NEW c \in Conns, conn_new(c)
      PROVE  IInv'
  BY <1>1, ConnNewStep
<1>2. ASSUME NEW c \in Conns, conn_close(c)
      PROVE  IInv'
  BY <1>2, ConnCloseStep
<1>3. ASSUME NEW c \in Conns, Command(c)
      PROVE  IInv'
  BY <1>3, CommandStep
<1>4. ASSUME NEW c \in Conns, \E v \in Vals, good \in BOOLEAN : complete_nread(c, v, good)
      PROVE  IInv'
  BY <1>4, CompleteNreadStep
<1>5. ASSUME NEW c \in Conns, transmit_complete(c)
      PROVE  IInv'
  BY <1>5, CallStep
<1>6. CASE \E k \in Keys : command_get_key(k)
  BY <1>6, CommandGetKeyStep
<1>7. CASE command_get_end
  BY <1>7, CommandGetEndStep
<1>8. CASE release_item
  BY <1>8, ReleaseItemStep
<1>9. CASE release_end
  BY <1>9, ReleaseEndStep
<1>10. CASE timer_delete_handler
  BY <1>10, TimerStep
<1>11. CASE timer_delete_step
  BY <1>11, TimerDeleteStep
<1>12. CASE timer_delete_end
  BY <1>12, TimerEndStep
<1>13. CASE clock_handler
  BY <1>13, TimeStep
<1>14. CASE UNCHANGED vars
  BY <1>14 DEF vars, timeVars, connVars, timerVars, IInv, TypeOK, TimerBounds,
               CallerIsConn, ReaderHasItem, ItemHasKey
<1>15. QED
  BY <1>1, <1>2, <1>3, <1>4, <1>5, <1>6, <1>7, <1>8, <1>9, <1>10, <1>11, <1>12,
     <1>13, <1>14 DEF Next

\* The inductive invariant holds in every state of the server.
LEMMA SpecIInv == Spec => []IInv
BY InitIInv, NextIInv, PTL DEF Spec

\* Every global of the store keeps its type for any number of connections,
\* keys, chunks, pages and classes: refcounts stay unsigned shorts, times stay
\* unsigned ints, lists and hash chains hold chunks only, and no handler indexes
\* todelete or ilist outside what is there or calls a lookup without a key
\* (items.c, memcached.c:176-229, 1453-1472).
THEOREM TypeCorrect == Spec => []TypeOK
<1>1. IInv => TypeOK
  BY DEF IInv
<1>2. QED
  BY <1>1, SpecIInv, PTL

\* The delete timer's in-place compaction never writes ahead of what it has
\* read: while it runs j <= i <= delcurr (memcached.c:1453-1472).
THEOREM CompactionStaysBehind == Spec => []TimerBounds
<1>1. IInv => TimerBounds
  BY DEF IInv
<1>2. QED
  BY <1>1, SpecIInv, PTL

\* A connection in state conn_nread, with no conn_cleanup of it running, has an
\* item to read into, and that item has a key: what complete_nread dereferences
\* (memcached.c:176-190).
THEOREM ReaderCanComplete == Spec => [](ReaderHasItem /\ ItemHasKey)
<1>1. IInv => ReaderHasItem /\ ItemHasKey
  BY DEF IInv
<1>2. QED
  BY <1>1, SpecIInv, PTL

-----------------------------------------------------------------------------
(* Lists without repetition *)

\* Item i is in list q.
In(i, q) == \E n \in 1 .. Len(q) : q[n] = i

\* List q names no item twice.
NoDup(q) == \A m, n \in 1 .. Len(q) : q[m] = q[n] => m = n

\* Times do not increase from the head of list q to its tail.
Descending(q, time) == \A m, n \in 1 .. Len(q) : m < n => time[q[m]] >= time[q[n]]

\* Taking an item out of a list closes the gap at its position.
LEMMA WithoutCut ==
  ASSUME NEW q \in Seq(Chunks), NEW i \in Chunks, In(i, q)
  PROVE  LET w == Without(q, i)
         IN  /\ w \in Seq(Chunks) /\ Len(w) = Len(q) - 1
             /\ \E c \in 1 .. Len(q) :
                  /\ q[c] = i
                  /\ \A m \in 1 .. Len(w) : w[m] = IF m < c THEN q[m] ELSE q[m + 1]
<1> DEFINE c == CHOOSE n \in DOMAIN q : q[n] = i
           l == SubSeq(q, 1, c - 1)
           r == SubSeq(q, c + 1, Len(q))
           w == l \o r
<1>1. DOMAIN q = 1 .. Len(q) /\ Len(q) \in Nat
  OBVIOUS
<1>2. c \in 1 .. Len(q) /\ q[c] = i
  BY <1>1 DEF In
<1>3. Without(q, i) = w
  BY <1>1 DEF Without, In
<1> HIDE DEF c
<1>4. l \in Seq(Chunks) /\ Len(l) = c - 1 /\ \A m \in 1 .. c - 1 : l[m] = q[m]
  BY <1>1, <1>2
<1>5. /\ r \in Seq(Chunks) /\ Len(r) = Len(q) - c
      /\ \A m \in 1 .. Len(q) - c : r[m] = q[c + m]
  <2>1. \A n \in c + 1 .. Len(q) : q[n] \in Chunks
    BY <1>1, <1>2
  <2>2. c + 1 \in Int /\ Len(q) \in Int
    BY <1>1, <1>2
  <2>3. /\ r \in Seq(Chunks)
        /\ Len(r) = IF c + 1 <= Len(q) THEN Len(q) - (c + 1) + 1 ELSE 0
        /\ \A m \in 1 .. Len(q) - (c + 1) + 1 : r[m] = q[c + 1 + m - 1]
    BY <2>1, <2>2, SubSeqProperties
  <2> HIDE DEF r
  <2>4. Len(r) = Len(q) - c
    <3>1. c \in Int /\ Len(q) \in Int /\ c <= Len(q)
      BY <1>1, <1>2
    <3>2. Len(r) = IF c + 1 <= Len(q) THEN Len(q) - (c + 1) + 1 ELSE 0
      BY <2>3
    <3>3. QED
      BY <3>1, <3>2
  <2>5. \A m \in 1 .. Len(q) - c : m \in 1 .. Len(q) - (c + 1) + 1 /\ c + 1 + m - 1 = c + m
    BY <1>1, <1>2
  <2>6. QED
    BY <2>3, <2>4, <2>5
<1> HIDE DEF l, r
<1>6. /\ w \in Seq(Chunks) /\ Len(w) = Len(q) - 1
      /\ \A m \in 1 .. Len(w) : w[m] = IF m <= Len(l) THEN l[m] ELSE r[m - Len(l)]
  <2>1. Len(w) = Len(l) + Len(r) /\ w \in Seq(Chunks)
    BY <1>4, <1>5
  <2>2. \A m \in 1 .. Len(l) + Len(r) : w[m] = IF m <= Len(l) THEN l[m] ELSE r[m - Len(l)]
    BY <1>4, <1>5, ConcatProperties
  <2>3. Len(l) + Len(r) = Len(q) - 1
    BY <1>1, <1>2, <1>4, <1>5
  <2>4. QED
    BY <2>1, <2>2, <2>3
<1> HIDE DEF w
<1>7. ASSUME NEW m \in 1 .. Len(w)
      PROVE  w[m] = IF m < c THEN q[m] ELSE q[m + 1]
  <2>1. CASE m < c
    <3>1. m \in 1 .. c - 1 /\ m <= Len(l)
      BY <1>1, <1>2, <1>4, <1>6, <2>1
    <3>2. w[m] = l[m]
      BY <1>6, <3>1
    <3>3. QED
      BY <1>4, <2>1, <3>1, <3>2
  <2>2. CASE ~ m < c
    <3>1. m - (c - 1) \in 1 .. Len(q) - c /\ c + (m - (c - 1)) = m + 1
      BY <1>1, <1>2, <1>6, <2>2
    <3>2. w[m] = r[m - (c - 1)]
      BY <1>1, <1>2, <1>4, <1>6, <2>2
    <3>3. QED
      BY <1>5, <2>2, <3>1, <3>2
  <2>3. QED
    BY <2>1, <2>2
<1>8. QED
  BY <1>2, <1>3, <1>6, <1>7

\* What is left are the other items, each still once, and in their order.
LEMMA WithoutRest ==
  ASSUME NEW q \in Seq(Chunks), NEW i \in Chunks, In(i, q), NoDup(q)
  PROVE  LET w == Without(q, i)
         IN  /\ w \in Seq(Chunks) /\ NoDup(w)
             /\ \A j \in Chunks : In(j, w) <=> In(j, q) /\ j # i
             /\ \A time : Descending(q, time) => Descending(w, time)
<1> DEFINE w == Without(q, i)
<1>1. PICK c \in 1 .. Len(q) :
         /\ q[c] = i
         /\ \A m \in 1 .. Len(w) : w[m] = IF m < c THEN q[m] ELSE q[m + 1]
  BY WithoutCut
<1>2. w \in Seq(Chunks) /\ Len(w) = Len(q) - 1 /\ Len(q) \in Nat
  BY WithoutCut
<1> HIDE DEF w
<1>3. NoDup(w)
  BY <1>1, <1>2 DEF NoDup
<1>4. ASSUME NEW j \in Chunks, In(j, w)
      PROVE  In(j, q) /\ j # i
  BY <1>1, <1>2, <1>4 DEF In, NoDup
<1>5. ASSUME NEW j \in Chunks, In(j, q), j # i
      PROVE  In(j, w)
  <2>1. PICK n \in 1 .. Len(q) : q[n] = j
    BY <1>5 DEF In
  <2>2. n # c
    BY <1>1, <1>5, <2>1
  <2>3. CASE n < c
    <3>1. n \in 1 .. Len(w) /\ w[n] = j
      BY <1>1, <1>2, <2>1, <2>3
    <3>2. QED
      BY <3>1 DEF In
  <2>4. CASE n > c
    <3>1. n - 1 \in 1 .. Len(w) /\ w[n - 1] = j
      BY <1>1, <1>2, <2>1, <2>4
    <3>2. QED
      BY <3>1 DEF In
  <2>5. QED
    BY <1>2, <2>1, <2>2, <2>3, <2>4
<1>6. ASSUME NEW time, Descending(q, time)
      PROVE  Descending(w, time)
  <2> SUFFICES ASSUME NEW m \in 1 .. Len(w), NEW n \in 1 .. Len(w), m < n
               PROVE  time[w[m]] >= time[w[n]]
    BY DEF Descending
  <2>1. \E a, b \in 1 .. Len(q) : a < b /\ w[m] = q[a] /\ w[n] = q[b]
    <3> DEFINE At(d) == IF d < c THEN d ELSE d + 1
    <3>1. At(m) \in 1 .. Len(q) /\ At(n) \in 1 .. Len(q) /\ At(m) < At(n)
      BY <1>2
    <3>2. w[m] = q[At(m)] /\ w[n] = q[At(n)]
      BY <1>1
    <3>3. QED
      BY <3>1, <3>2
  <2>2. QED
    BY <1>6, <2>1 DEF Descending
<1>7. QED
  BY <1>2, <1>3, <1>4, <1>5, <1>6 DEF w

\* List q with item i in front.
Pushed(i, q) == <<i>> \o q

\* A new item at the head of a list.
LEMMA PushedFront ==
  ASSUME NEW q \in Seq(Chunks), NEW i \in Chunks, ~ In(i, q), NoDup(q)
  PROVE  LET w == Pushed(i, q)
         IN  /\ w \in Seq(Chunks) /\ NoDup(w)
             /\ \A j \in Chunks : In(j, w) <=> In(j, q) \/ j = i
             /\ \A time : Descending(q, time) /\ (\A j \in Chunks : In(j, q) => time[i] >= time[j])
                            => Descending(w, time)
<1> DEFINE w == Pushed(i, q)
<1>1. /\ w \in Seq(Chunks) /\ Len(w) = Len(q) + 1 /\ Len(q) \in Nat
      /\ w[1] = i /\ \A m \in 1 .. Len(q) : w[m + 1] = q[m]
  BY DEF Pushed
<1> HIDE DEF w
<1>2. \A m \in 1 .. Len(w) : m = 1 \/ (m - 1 \in 1 .. Len(q) /\ w[m] = q[m - 1])
  BY <1>1
<1>3. NoDup(w)
  <2> SUFFICES ASSUME NEW m \in 1 .. Len(w), NEW n \in 1 .. Len(w), w[m] = w[n]
               PROVE  m = n
    BY DEF NoDup
  <2>1. \A a \in 1 .. Len(q) : q[a] # i
    BY DEF In
  <2>2. CASE m = 1 \/ n = 1
    BY <1>1, <1>2, <2>1, <2>2
  <2>3. CASE m # 1 /\ n # 1
    <3>1. m - 1 = n - 1
      BY <1>2, <2>3 DEF NoDup
    <3>2. QED
      BY <1>1, <3>1
  <2>4. QED
    BY <2>2, <2>3
<1>4. ASSUME NEW j \in Chunks
      PROVE  In(j, w) <=> In(j, q) \/ j = i
  <2>1. In(j, w) => In(j, q) \/ j = i
    <3>1. ASSUME NEW m \in 1 .. Len(w), w[m] = j
          PROVE  In(j, q) \/ j = i
      <4>1. CASE m = 1
        BY <1>1, <3>1, <4>1
      <4>2. CASE m - 1 \in 1 .. Len(q) /\ w[m] = q[m - 1]
        BY <3>1, <4>2 DEF In
      <4>3. QED
        BY <1>2, <4>1, <4>2
    <3>2. QED
      BY <3>1 DEF In
  <2>2. j = i => In(j, w)
    <3>1. 1 \in 1 .. Len(w)
      BY <1>1
    <3>2. QED
      BY <1>1, <3>1 DEF In
  <2>3. ASSUME In(j, q)
        PROVE  In(j, w)
    <3>1. PICK m \in 1 .. Len(q) : q[m] = j
      BY <2>3 DEF In
    <3>2. m + 1 \in 1 .. Len(w) /\ w[m + 1] = j
      BY <1>1, <3>1
    <3>3. QED
      BY <3>2 DEF In
  <2>4. QED
    BY <2>1, <2>2, <2>3
<1>5. ASSUME NEW time, Descending(q, time), \A j \in Chunks : In(j, q) => time[i] >= time[j]
      PROVE  Descending(w, time)
  <2> SUFFICES ASSUME NEW m \in 1 .. Len(w), NEW n \in 1 .. Len(w), m < n
               PROVE  time[w[m]] >= time[w[n]]
    BY DEF Descending
  <2>1. n - 1 \in 1 .. Len(q) /\ w[n] = q[n - 1]
    BY <1>1, <1>2
  <2>2. CASE m = 1
    <3>1. In(q[n - 1], q) /\ q[n - 1] \in Chunks
      BY <2>1 DEF In
    <3>2. QED
      BY <1>1, <1>5, <2>1, <2>2, <3>1
  <2>3. CASE m # 1
    <3>1. m - 1 \in 1 .. Len(q) /\ w[m] = q[m - 1] /\ m - 1 < n - 1
      BY <1>1, <1>2, <2>3
    <3>2. QED
      BY <1>5, <2>1, <3>1 DEF Descending
  <2>4. QED
    BY <2>2, <2>3
<1>6. QED
  BY <1>1, <1>3, <1>4, <1>5 DEF w

-----------------------------------------------------------------------------
(* What holds of a store in which `O' are the chunks a connection owns *)

\* The lists of items: one for each class, and that of items given back.
Ids == Classes \cup {0}

\* The hash chain of a key is empty or the one linked item of that key.
Table(s) ==
  /\ \A i \in Chunks : Linked(s, i) =>
       s.item[i].key \in Keys /\ s.hashtable[s.item[i].key] = <<i>>
  /\ \A k \in Keys :
       \/ s.hashtable[k] = <<>>
       \/ \E i \in Chunks : s.hashtable[k] = <<i>> /\ Linked(s, i) /\ s.item[i].key = k

\* The time of last use of each item, which orders nothing on a clock that may
\* be set back.
Times(s) == [i \in Chunks |-> IF SetBack THEN 0 ELSE s.item[i].time]

\* The LRU list of a class holds the linked items of that class, each once,
\* the last used first.
Order(s, now) ==
  /\ \A id \in Ids :
       /\ NoDup(s.lru[id]) /\ Descending(s.lru[id], Times(s))
       /\ \A i \in Chunks :
            In(i, s.lru[id]) <=> Linked(s, i) /\ s.item[i].slabs_clsid = id
  /\ \A i \in Chunks : Linked(s, i) => SetBack \/ s.item[i].time <= now

\* A referenced item is not given back; a live one is in use.
Referenced(s, i) == s.item[i].refcount > 0
Live(s, i) == Linked(s, i) \/ Referenced(s, i)

\* A chunk is free, or not mapped yet, or live, or owned: one of the four.
Placed(s, O) ==
  \A i \in Chunks :
    /\ i \in s.free => PageOf[i] \in s.pages /\ ~ Live(s, i) /\ i \notin O
    /\ PageOf[i] \notin s.pages => ~ Live(s, i) /\ i \notin O
    /\ Live(s, i) => i \notin O
    /\ i \in s.free \/ PageOf[i] \notin s.pages \/ Live(s, i) \/ i \in O

\* A store as the handlers expect to find it.
Sound(s, O, now) == s \in Store /\ Table(s) /\ Order(s, now) /\ Placed(s, O)

\* Item i of s is what it was in r, but for its link and its refcount.
SameItem(r, s, i) ==
  /\ s.item[i].key = r.item[i].key /\ s.item[i].nbytes = r.item[i].nbytes
  /\ s.item[i].val = r.item[i].val /\ s.item[i].slabs_clsid = r.item[i].slabs_clsid
  /\ s.item[i].exptime = r.item[i].exptime /\ s.item[i].time = r.item[i].time
  /\ s.item[i].it_flags \ {"LINKED"} = r.item[i].it_flags \ {"LINKED"}

\* No refcount changes.
SameRefs(r, s) == \A i \in Chunks : s.item[i].refcount = r.item[i].refcount

\* From r to s no item is linked, no reference taken or dropped, and what is
\* still linked, referenced or owned is not changed.
Fades(r, s, O) ==
  /\ SameRefs(r, s) /\ r.pages \subseteq s.pages
  /\ \A i \in Chunks : Linked(s, i) => Linked(r, i)
  /\ \A i \in Chunks : Linked(s, i) \/ Referenced(r, i) \/ i \in O => SameItem(r, s, i)

\* Fades composes.
LEMMA FadesTrans ==
  ASSUME NEW r, NEW s, NEW t, NEW O, NEW P, Fades(r, s, O), Fades(s, t, P), O \subseteq P
  PROVE  Fades(r, t, O)
<1>1. SameRefs(r, t) /\ r.pages \subseteq t.pages
  BY DEF Fades, SameRefs
<1>2. ASSUME NEW i \in Chunks, Linked(t, i)
      PROVE  Linked(r, i)
  BY <1>2 DEF Fades
<1>3. ASSUME NEW i \in Chunks, Linked(t, i) \/ Referenced(r, i) \/ i \in O
      PROVE  SameItem(r, t, i)
  <2>1. Linked(s, i) \/ Referenced(r, i) \/ i \in O
    BY <1>3 DEF Fades
  <2>2. Linked(t, i) \/ Referenced(s, i) \/ i \in P
    BY <1>3 DEF Fades, SameRefs, Referenced
  <2>3. SameItem(r, s, i) /\ SameItem(s, t, i)
    BY <2>1, <2>2 DEF Fades
  <2>4. QED
    BY <2>3 DEF SameItem
<1>4. QED
  BY <1>1, <1>2, <1>3 DEF Fades

\* Doing nothing is fading.
LEMMA FadesSelf ==
  ASSUME NEW s, NEW O
  PROVE  Fades(s, s, O)
BY DEF Fades, SameRefs, SameItem

\* The types of the fields of an item.
LEMMA ItemTypes ==
  ASSUME NEW s \in Store, NEW i \in Chunks
  PROVE  /\ s.item[i] \in Item /\ s.item[i].refcount \in 0 .. RefMod - 1
         /\ s.item[i].refcount \in Nat /\ s.item[i].time \in Nat
         /\ s.item[i].slabs_clsid \in Ids /\ s.item[i].key \in Keys \cup {NULL}
         /\ s.item[i].it_flags \subseteq Flags
<1>1. s.item[i] \in Item
  BY DEF Store
<1>2. /\ s.item[i].refcount \in 0 .. RefMod - 1 /\ s.item[i].time \in ItemTimes
      /\ s.item[i].slabs_clsid \in Ids /\ s.item[i].key \in Keys \cup {NULL}
      /\ s.item[i].it_flags \subseteq Flags
  BY <1>1 DEF Item, Ids
<1>3. ItemTimes \subseteq Nat /\ 0 .. RefMod - 1 \subseteq Nat
  BY ItemsAssumption
<1>4. QED
  BY <1>1, <1>2, <1>3

-----------------------------------------------------------------------------
(* Unlinking, freeing, references *)

\* What UnlinkLinked does to each field.
LEMMA UnlinkFields ==
  ASSUME NEW s \in Store, NEW i \in Chunks
  PROVE  LET t == UnlinkLinked(s, i)
             r == s.item[i]
         IN  /\ t.pages = s.pages /\ t.free = s.free /\ t.mem_malloced = s.mem_malloced
             /\ t.item = [s.item EXCEPT ![i] = [r EXCEPT !.it_flags = r.it_flags \ {"LINKED"}]]
             /\ t.hashtable = [s.hashtable EXCEPT ![r.key] = IF @ = <<>> THEN @ ELSE Tail(@)]
             /\ t.lru = [s.lru EXCEPT ![r.slabs_clsid] = Without(@, i)]
BY DEF UnlinkLinked, item_unlink_q, assoc_delete, Store, Item

\* The items after UnlinkLinked: only the link of i is gone.
LEMMA UnlinkItems ==
  ASSUME NEW s \in Store, NEW i \in Chunks
  PROVE  LET t == UnlinkLinked(s, i)
         IN  /\ SameRefs(s, t)
             /\ \A j \in Chunks : SameItem(s, t, j) /\ (Linked(t, j) <=> Linked(s, j) /\ j # i)
<1> DEFINE t == UnlinkLinked(s, i)
           r == [s.item[i] EXCEPT !.it_flags = s.item[i].it_flags \ {"LINKED"}]
<1>1. t.item = [s.item EXCEPT ![i] = r]
  BY UnlinkFields
<1>2. s.item \in [Chunks -> Item] /\ s.item[i] \in Item
  BY DEF Store
<1> HIDE DEF t
<1>3. /\ r.key = s.item[i].key /\ r.nbytes = s.item[i].nbytes /\ r.val = s.item[i].val
      /\ r.slabs_clsid = s.item[i].slabs_clsid /\ r.exptime = s.item[i].exptime
      /\ r.time = s.item[i].time /\ r.refcount = s.item[i].refcount
      /\ r.it_flags = s.item[i].it_flags \ {"LINKED"}
  BY <1>2 DEF Item
<1> HIDE DEF r
<1>4. \A j \in Chunks : t.item[j] = IF j = i THEN r ELSE s.item[j]
  BY <1>1, <1>2
<1>5. SameRefs(s, t)
  BY <1>3, <1>4 DEF SameRefs
<1>6. ASSUME NEW j \in Chunks
      PROVE  SameItem(s, t, j) /\ (Linked(t, j) <=> Linked(s, j) /\ j # i)
  BY <1>3, <1>4 DEF SameItem, Linked
<1>7. QED
  BY <1>5, <1>6 DEF t

\* A linked item is taken out of its chain and its list.  If nothing refers to
\* it, the caller owns it.
LEMMA UnlinkSound ==
  ASSUME NEW s, NEW O, NEW now, NEW i \in Chunks, Sound(s, O, now), Linked(s, i)
  PROVE  LET t == UnlinkLinked(s, i)
         IN  /\ Sound(t, IF Referenced(s, i) THEN O ELSE O \cup {i}, now)
             /\ Fades(s, t, O)
             /\ t.hashtable[s.item[i].key] = <<>>
             /\ \A j \in Chunks : Linked(t, j) <=> Linked(s, j) /\ j # i
             /\ t.free = s.free
<1> DEFINE t == UnlinkLinked(s, i)
           P == IF Referenced(s, i) THEN O ELSE O \cup {i}
           k == s.item[i].key
           id == s.item[i].slabs_clsid
<1>1. s \in Store /\ t \in Store
  BY UnlinkLinkedKeeps DEF Sound, Keeps
<1>2. /\ t.pages = s.pages /\ t.free = s.free
      /\ t.hashtable = [s.hashtable EXCEPT ![k] = IF @ = <<>> THEN @ ELSE Tail(@)]
      /\ t.lru = [s.lru EXCEPT ![id] = Without(@, i)]
  BY <1>1, UnlinkFields
<1>3. /\ SameRefs(s, t)
      /\ \A j \in Chunks : SameItem(s, t, j) /\ (Linked(t, j) <=> Linked(s, j) /\ j # i)
  BY <1>1, UnlinkItems
<1>4. k \in Keys /\ s.hashtable[k] = <<i>> /\ id \in Ids
  BY <1>1, ItemTypes DEF Sound, Table
<1> HIDE DEF t, k, id
<1>5. t.hashtable[k] = <<>> /\ \A l \in Keys \ {k} : t.hashtable[l] = s.hashtable[l]
  BY <1>1, <1>2, <1>4 DEF Store
<1>6. \A j \in Chunks : Linked(t, j) => t.item[j].key # k
  <2> SUFFICES ASSUME NEW j \in Chunks, Linked(s, j), j # i
               PROVE  s.item[j].key # k
    BY <1>3 DEF SameItem
  <2>1. s.hashtable[s.item[j].key] = <<j>>
    BY DEF Sound, Table
  <2>2. <<i>> # <<j>>
    OBVIOUS
  <2>3. QED
    BY <1>4, <2>1, <2>2
<1>7. Table(t)
  <2>1. ASSUME NEW j \in Chunks, Linked(t, j)
        PROVE  t.item[j].key \in Keys /\ t.hashtable[t.item[j].key] = <<j>>
    <3>1. s.item[j].key \in Keys /\ s.hashtable[s.item[j].key] = <<j>>
      BY <1>3, <2>1 DEF Sound, Table
    <3>2. QED
      BY <1>3, <1>5, <1>6, <2>1, <3>1 DEF SameItem
  <2>2. ASSUME NEW l \in Keys, t.hashtable[l] # <<>>
        PROVE  \E j \in Chunks : t.hashtable[l] = <<j>> /\ Linked(t, j) /\ t.item[j].key = l
    <3>1. l # k /\ t.hashtable[l] = s.hashtable[l]
      BY <1>5, <2>2
    <3>2. PICK j \in Chunks : s.hashtable[l] = <<j>> /\ Linked(s, j) /\ s.item[j].key = l
      BY <2>2, <3>1 DEF Sound, Table
    <3>3. j # i
      BY <3>1, <3>2 DEF k
    <3>4. QED
      BY <1>3, <3>1, <3>2, <3>3 DEF SameItem
  <2>3. QED
    BY <2>1, <2>2 DEF Table
<1>8. Order(t, now)
  <2>1. Times(t) = Times(s)
    BY <1>3 DEF Times, SameItem
  <2>2. ASSUME NEW x \in Ids, x # id
        PROVE  t.lru[x] = s.lru[x]
    BY <1>1, <1>2, <2>2 DEF Store, Ids
  <2>3. /\ s.lru[id] \in Seq(Chunks) /\ In(i, s.lru[id]) /\ NoDup(s.lru[id])
        /\ t.lru[id] = Without(s.lru[id], i)
    BY <1>1, <1>2, <1>4 DEF Store, Ids, Sound, Order, id
  <2>4. /\ NoDup(t.lru[id])
        /\ \A j \in Chunks : In(j, t.lru[id]) <=> In(j, s.lru[id]) /\ j # i
        /\ Descending(s.lru[id], Times(s)) => Descending(t.lru[id], Times(s))
    BY <2>3, WithoutRest
  <2>5. ASSUME NEW x \in Ids
        PROVE  /\ NoDup(t.lru[x]) /\ Descending(t.lru[x], Times(t))
               /\ \A j \in Chunks : In(j, t.lru[x]) <=> Linked(t, j) /\ t.item[j].slabs_clsid = x
    <3>1. CASE x = id
      BY <1>3, <1>4, <2>1, <2>4, <3>1 DEF Sound, Order, SameItem
    <3>2. CASE x # id
      <4>1. NoDup(t.lru[x]) /\ Descending(t.lru[x], Times(t))
        BY <2>1, <2>2, <3>2 DEF Sound, Order
      <4>2. ASSUME NEW j \in Chunks
            PROVE  In(j, t.lru[x]) <=> Linked(t, j) /\ t.item[j].slabs_clsid = x
        <5>1. In(j, t.lru[x]) <=> Linked(s, j) /\ s.item[j].slabs_clsid = x
          BY <2>2, <3>2 DEF Sound, Order
        <5>2. QED
          BY <1>3, <3>2, <5>1 DEF SameItem, id
      <4>3. QED
        BY <4>1, <4>2
    <3>3. QED
      BY <3>1, <3>2
  <2>6. \A j \in Chunks : Linked(t, j) => SetBack \/ t.item[j].time <= now
    BY <1>3 DEF Sound, Order, SameItem
  <2>7. QED
    BY <2>5, <2>6 DEF Order
<1>9. Placed(t, P)
  <2>1. \A j \in Chunks : (Referenced(t, j) <=> Referenced(s, j))
                          /\ (Live(t, j) <=> IF j = i THEN Referenced(s, i) ELSE Live(s, j))
    BY <1>3 DEF Referenced, Live, SameRefs
  <2>2. Live(s, i)
    BY DEF Live
  <2>3. QED
    BY <1>2, <2>1, <2>2 DEF Sound, Placed
<1>10. Fades(s, t, O)
  BY <1>2, <1>3 DEF Fades
<1>11. QED
  BY <1>1, <1>2, <1>3, <1>5, <1>7, <1>8, <1>9, <1>10 DEF Sound, t, k

\* The chains agree with the items when links and keys are what they were.
LEMMA TableCong ==
  ASSUME NEW s, NEW t, Table(s), t.hashtable = s.hashtable,
         \A j \in Chunks : /\ Linked(t, j) <=> Linked(s, j)
                           /\ Linked(s, j) => t.item[j].key = s.item[j].key
  PROVE  Table(t)
<1>1. ASSUME NEW k \in Keys, t.hashtable[k] # <<>>
      PROVE  \E i \in Chunks : t.hashtable[k] = <<i>> /\ Linked(t, i) /\ t.item[i].key = k
  <2>1. PICK i \in Chunks : s.hashtable[k] = <<i>> /\ Linked(s, i) /\ s.item[i].key = k
    BY <1>1 DEF Table
  <2>2. QED
    BY <2>1
<1>2. QED
  BY <1>1 DEF Table

\* So do the lists when links, classes and times are.
LEMMA OrderCong ==
  ASSUME NEW s \in Store, NEW t, NEW now, Order(s, now), t.lru = s.lru,
         \A j \in Chunks :
           /\ Linked(t, j) <=> Linked(s, j)
           /\ Linked(s, j) => t.item[j].slabs_clsid = s.item[j].slabs_clsid
                              /\ t.item[j].time = s.item[j].time
  PROVE  Order(t, now)
<1>1. ASSUME NEW id \in Ids
      PROVE  /\ NoDup(t.lru[id])
             /\ \A j \in Chunks : In(j, t.lru[id]) <=> Linked(t, j) /\ t.item[j].slabs_clsid = id
  <2>1. /\ NoDup(s.lru[id])
        /\ \A j \in Chunks : In(j, s.lru[id]) <=> Linked(s, j) /\ s.item[j].slabs_clsid = id
    BY DEF Order
  <2>2. QED
    BY <2>1
<1>2. ASSUME NEW id \in Ids
      PROVE  Descending(t.lru[id], Times(t))
  <2> DEFINE q == s.lru[id]
  <2>1. q \in Seq(Chunks) /\ Descending(q, Times(s))
    BY DEF Order, Store, Ids
  <2>2. \A n \in 1 .. Len(q) : q[n] \in Chunks /\ In(q[n], q)
    BY <2>1 DEF In
  <2>3. \A n \in 1 .. Len(q) : Linked(s, q[n])
    BY <2>2 DEF Order
  <2> HIDE DEF q
  <2>4. \A n \in 1 .. Len(q) : Times(t)[q[n]] = Times(s)[q[n]]
    BY <2>2, <2>3 DEF Times
  <2>5. Descending(q, Times(t))
    BY <2>1, <2>4 DEF Descending
  <2>6. QED
    BY <2>5 DEF q
<1>3. \A j \in Chunks : Linked(t, j) => SetBack \/ t.item[j].time <= now
  BY DEF Order
<1>4. QED
  BY <1>1, <1>2, <1>3 DEF Order

\* What item_free does to each field.
LEMMA FreeFields ==
  ASSUME NEW s \in Store, NEW i \in Chunks
  PROVE  LET t == item_free(s, i)
             r == s.item[i]
         IN  /\ t.pages = s.pages /\ t.free = s.free \cup {i} /\ t.mem_malloced = s.mem_malloced
             /\ t.item = [s.item EXCEPT ![i] = [r EXCEPT !.slabs_clsid = 0,
                                                         !.it_flags = @ \cup {"SLABBED"}]]
             /\ t.hashtable = s.hashtable /\ t.lru = s.lru
BY DEF item_free, mem_cache_free, Store, Item

\* The items after item_free: only i has changed, and not its references.
LEMMA FreeItems ==
  ASSUME NEW s \in Store, NEW i \in Chunks
  PROVE  LET t == item_free(s, i)
         IN  /\ SameRefs(s, t)
             /\ \A j \in Chunks \ {i} : SameItem(s, t, j)
             /\ \A j \in Chunks : Linked(t, j) <=> Linked(s, j)
<1> DEFINE t == item_free(s, i)
           r == [s.item[i] EXCEPT !.slabs_clsid = 0, !.it_flags = @ \cup {"SLABBED"}]
<1>1. t.item = [s.item EXCEPT ![i] = r]
  BY FreeFields
<1>2. s.item \in [Chunks -> Item] /\ s.item[i] \in Item
  BY DEF Store
<1> HIDE DEF t
<1>3. r.refcount = s.item[i].refcount /\ r.it_flags = s.item[i].it_flags \cup {"SLABBED"}
  BY <1>2 DEF Item
<1> HIDE DEF r
<1>4. \A j \in Chunks : t.item[j] = IF j = i THEN r ELSE s.item[j]
  BY <1>1, <1>2
<1>5. SameRefs(s, t) /\ \A j \in Chunks \ {i} : SameItem(s, t, j)
  BY <1>3, <1>4 DEF SameRefs, SameItem
<1>6. \A j \in Chunks : Linked(t, j) <=> Linked(s, j)
  BY <1>3, <1>4 DEF Linked
<1>7. QED
  BY <1>5, <1>6 DEF t

\* A chunk that nothing needs any more is given back.
LEMMA FreeSound ==
  ASSUME NEW s, NEW O, NEW now, NEW i \in Chunks, Sound(s, O, now),
         ~ Live(s, i), PageOf[i] \in s.pages
  PROVE  LET t == item_free(s, i)
         IN  /\ Sound(t, O \ {i}, now) /\ Fades(s, t, O \ {i})
             /\ \A j \in Chunks : Linked(t, j) <=> Linked(s, j)
             /\ t.hashtable = s.hashtable /\ t.mem_malloced = s.mem_malloced
<1> DEFINE t == item_free(s, i)
<1>1. s \in Store /\ t \in Store
  BY ItemFreeKeeps DEF Sound, Keeps
<1>2. /\ t.pages = s.pages /\ t.free = s.free \cup {i} /\ t.mem_malloced = s.mem_malloced
      /\ t.hashtable = s.hashtable /\ t.lru = s.lru
  BY <1>1, FreeFields
<1>3. /\ SameRefs(s, t)
      /\ \A j \in Chunks \ {i} : SameItem(s, t, j)
      /\ \A j \in Chunks : Linked(t, j) <=> Linked(s, j)
  BY <1>1, FreeItems
<1> HIDE DEF t
<1>4. ~ Linked(s, i) /\ ~ Referenced(s, i)
  BY DEF Live
<1>5. Table(t)
  BY <1>2, <1>3, <1>4, TableCong DEF Sound, SameItem
<1>6. Order(t, now)
  BY <1>1, <1>2, <1>3, <1>4, OrderCong DEF Sound, SameItem
<1>7. Placed(t, O \ {i})
  <2>1. \A j \in Chunks : Live(t, j) <=> Live(s, j)
    BY <1>3 DEF Live, Referenced, SameRefs
  <2>2. QED
    BY <1>2, <2>1 DEF Sound, Placed
<1>8. Fades(s, t, O \ {i})
  BY <1>2, <1>3, <1>4 DEF Fades
<1>9. QED
  BY <1>1, <1>2, <1>3, <1>5, <1>6, <1>7, <1>8 DEF Sound, t

\* item_unlink of a chunk that no connection owns.
LEMMA ItemUnlinkSound ==
  ASSUME NEW s, NEW O, NEW now, NEW i \in Chunks, Sound(s, O, now),
         i \notin O, PageOf[i] \in s.pages
  PROVE  LET t == item_unlink(s, i)
         IN  /\ Sound(t, O, now) /\ Fades(s, t, O)
             /\ \A j \in Chunks : Linked(t, j) <=> Linked(s, j) /\ j # i
             /\ Linked(s, i) => t.hashtable[s.item[i].key] = <<>>
<1> DEFINE t == item_unlink(s, i)
<1>1. CASE Linked(s, i)
  <2> DEFINE u == UnlinkLinked(s, i)
  <2>1. /\ Sound(u, IF Referenced(s, i) THEN O ELSE O \cup {i}, now) /\ Fades(s, u, O)
        /\ u.hashtable[s.item[i].key] = <<>>
        /\ \A j \in Chunks : Linked(u, j) <=> Linked(s, j) /\ j # i
    BY <1>1, UnlinkSound
  <2>2. t = IF u.item[i].refcount = 0 THEN item_free(u, i) ELSE u
    BY <1>1 DEF item_unlink, FreeIfUnreferenced
  <2> HIDE DEF t, u
  <2>3. u.item[i].refcount = s.item[i].refcount /\ s.item[i].refcount \in Nat
    BY <2>1, ItemTypes DEF Fades, SameRefs, Sound
  <2>4. CASE Referenced(s, i)
    <3>1. t = u
      BY <2>2, <2>3, <2>4 DEF Referenced
    <3>2. QED
      BY <2>1, <2>4, <3>1 DEF t
  <2>5. CASE ~ Referenced(s, i)
    <3>1. t = item_free(u, i) /\ ~ Live(u, i)
      BY <2>1, <2>2, <2>3, <2>5 DEF Referenced, Live
    <3>2. Sound(u, O \cup {i}, now) /\ PageOf[i] \in u.pages
      BY <2>1, <2>5 DEF Fades
    <3>3. (O \cup {i}) \ {i} = O
      OBVIOUS
    <3>4. /\ Sound(t, O, now) /\ Fades(u, t, O)
          /\ \A j \in Chunks : Linked(t, j) <=> Linked(u, j)
          /\ t.hashtable = u.hashtable
      BY <3>1, <3>2, <3>3, FreeSound
    <3>5. Fades(s, t, O)
      BY <2>1, <3>4, FadesTrans
    <3>6. QED
      BY <2>1, <3>4, <3>5 DEF t
  <2>6. QED
    BY <2>4, <2>5
<1>2. CASE ~ Linked(s, i)
  <2>1. t = IF s.item[i].refcount = 0 THEN item_free(s, i) ELSE s
    BY <1>2 DEF item_unlink, FreeIfUnreferenced
  <2> HIDE DEF t
  <2>2. CASE s.item[i].refcount = 0
    <3>1. ~ Live(s, i) /\ O \ {i} = O /\ t = item_free(s, i)
      BY <1>2, <2>1, <2>2 DEF Live, Referenced
    <3>2. /\ Sound(t, O, now) /\ Fades(s, t, O)
          /\ \A j \in Chunks : Linked(t, j) <=> Linked(s, j)
      BY <3>1, FreeSound
    <3>3. QED
      BY <1>2, <3>2 DEF t
  <2>3. CASE s.item[i].refcount # 0
    BY <1>2, <2>1, <2>3, FadesSelf DEF t
  <2>4. QED
    BY <2>2, <2>3
<1>3. QED
  BY <1>1, <1>2

\* s with another refcount on item i.
WithRef(s, i, n) ==
  [s EXCEPT !.item = [s.item EXCEPT ![i] = [s.item[i] EXCEPT !.refcount = n]]]

\* The items of a store with another refcount in one of them.
LEMMA RefItems ==
  ASSUME NEW s \in Store, NEW i \in Chunks, NEW n \in 0 .. RefMod - 1,
         NEW t, t = WithRef(s, i, n)
  PROVE  /\ t.pages = s.pages /\ t.free = s.free /\ t.mem_malloced = s.mem_malloced
         /\ t.hashtable = s.hashtable /\ t.lru = s.lru
         /\ \A j \in Chunks :
              /\ SameItem(s, t, j) /\ (Linked(t, j) <=> Linked(s, j))
              /\ t.item[j].refcount = IF j = i THEN n ELSE s.item[j].refcount
<1> DEFINE r == [s.item[i] EXCEPT !.refcount = n]
<1>1. s.item \in [Chunks -> Item] /\ s.item[i] \in Item
  BY DEF Store
<1>2. /\ t.pages = s.pages /\ t.free = s.free /\ t.mem_malloced = s.mem_malloced
      /\ t.hashtable = s.hashtable /\ t.lru = s.lru /\ t.item = [s.item EXCEPT ![i] = r]
  BY DEF Store, WithRef
<1>3. /\ r.key = s.item[i].key /\ r.nbytes = s.item[i].nbytes /\ r.val = s.item[i].val
      /\ r.slabs_clsid = s.item[i].slabs_clsid /\ r.exptime = s.item[i].exptime
      /\ r.time = s.item[i].time /\ r.refcount = n /\ r.it_flags = s.item[i].it_flags
  BY <1>1 DEF Item
<1> HIDE DEF r
<1>4. \A j \in Chunks : t.item[j] = IF j = i THEN r ELSE s.item[j]
  BY <1>1, <1>2
<1>5. ASSUME NEW j \in Chunks
      PROVE  /\ SameItem(s, t, j) /\ (Linked(t, j) <=> Linked(s, j))
             /\ t.item[j].refcount = IF j = i THEN n ELSE s.item[j].refcount
  BY <1>3, <1>4 DEF SameItem, Linked
<1>6. QED
  BY <1>2, <1>5

\* A live item whose refcount becomes n.  One that is not linked and loses its
\* last reference is the caller's.
LEMMA RefSound ==
  ASSUME NEW s, NEW O, NEW now, NEW i \in Chunks, NEW n \in 0 .. RefMod - 1,
         Sound(s, O, now), Live(s, i),
         NEW t \in Store, t = WithRef(s, i, n)
  PROVE  Sound(t, IF Linked(s, i) \/ n > 0 THEN O ELSE O \cup {i}, now)
<1> DEFINE P == IF Linked(s, i) \/ n > 0 THEN O ELSE O \cup {i}
<1>1. s \in Store /\ n \in Nat
  BY ItemsAssumption DEF Sound
<1>2. /\ t.pages = s.pages /\ t.free = s.free
      /\ t.hashtable = s.hashtable /\ t.lru = s.lru
      /\ \A j \in Chunks :
           /\ SameItem(s, t, j) /\ (Linked(t, j) <=> Linked(s, j))
           /\ t.item[j].refcount = IF j = i THEN n ELSE s.item[j].refcount
  BY <1>1, RefItems
<1>3. Table(t)
  BY <1>2, TableCong DEF Sound, SameItem
<1>4. Order(t, now)
  <2>1. \A j \in Chunks : t.item[j].slabs_clsid = s.item[j].slabs_clsid
                          /\ t.item[j].time = s.item[j].time
    BY <1>2 DEF SameItem
  <2>2. QED
    BY <1>1, <1>2, <2>1, OrderCong DEF Sound
<1>5. \A j \in Chunks : Live(t, j) <=> IF j = i THEN Linked(s, i) \/ n > 0 ELSE Live(s, j)
  BY <1>2 DEF Live, Referenced
<1>6. Placed(t, P)
  BY <1>2, <1>5 DEF Sound, Placed
<1>7. QED
  BY <1>3, <1>4, <1>6 DEF Sound

\* A reference to a live item is taken, below the limit of the counter.
LEMMA AddRefSound ==
  ASSUME NEW s, NEW O, NEW now, NEW i \in Chunks, Sound(s, O, now), Live(s, i),
         s.item[i].refcount < RefMod - 1
  PROVE  LET t == AddRef(s, i)
         IN  /\ Sound(t, O, now) /\ t.hashtable = s.hashtable
             /\ t.pages = s.pages /\ t.lru = s.lru
             /\ \A j \in Chunks :
                  /\ SameItem(s, t, j) /\ (Linked(t, j) <=> Linked(s, j))
                  /\ t.item[j].refcount = IF j = i THEN s.item[i].refcount + 1
                                          ELSE s.item[j].refcount
<1> DEFINE t == AddRef(s, i)
           n == s.item[i].refcount + 1
<1>1. s \in Store /\ t \in Store
  BY AddRefKeeps DEF Sound, Keeps
<1>2. s.item[i].refcount \in Nat /\ RefMod \in Nat
  BY <1>1, ItemTypes, ItemsAssumption
<1>3. n \in 0 .. RefMod - 1 /\ n > 0 /\ n % RefMod = n
  BY <1>2
<1>4. t = [s EXCEPT !.item = [s.item EXCEPT ![i] =
             [s.item[i] EXCEPT !.refcount = (s.item[i].refcount + 1) % RefMod]]]
  BY DEF AddRef
<1>5. t = WithRef(s, i, n)
  BY <1>3, <1>4 DEF WithRef
<1> HIDE DEF t, n
<1>6. Sound(t, O, now)
  BY <1>1, <1>3, <1>5, RefSound
<1>7. /\ t.hashtable = s.hashtable /\ t.pages = s.pages /\ t.lru = s.lru
      /\ \A j \in Chunks :
           /\ SameItem(s, t, j) /\ (Linked(t, j) <=> Linked(s, j))
           /\ t.item[j].refcount = IF j = i THEN n ELSE s.item[j].refcount
  BY <1>1, <1>3, <1>5, RefItems
<1>8. QED
  BY <1>6, <1>7 DEF t, n

\* Item i of s has one reference less in t, and what is still needed is unchanged.
Dropped(s, t, i, O) ==
  /\ s.pages \subseteq t.pages
  /\ \A j \in Chunks :
       /\ Linked(t, j) <=> Linked(s, j)
       /\ t.item[j].refcount = IF j = i THEN s.item[i].refcount - 1 ELSE s.item[j].refcount
       /\ Live(t, j) \/ j \in O => SameItem(s, t, j)

\* item_remove of a referenced item: the last reference to an unlinked one
\* gives its chunk back.
LEMMA ItemRemoveSound ==
  ASSUME NEW s, NEW O, NEW now, NEW i \in Chunks, Sound(s, O, now), Referenced(s, i)
  PROVE  Sound(item_remove(s, i), O, now) /\ Dropped(s, item_remove(s, i), i, O)
<1> DEFINE t == item_remove(s, i)
           u == DropRef(s, i)
           n == s.item[i].refcount - 1
<1>1. s \in Store /\ u \in Store
  BY DropRefKeeps DEF Sound, Keeps
<1>2. s.item[i].refcount \in Nat /\ s.item[i].refcount <= RefMod - 1 /\ RefMod \in Nat
  BY <1>1, ItemTypes, ItemsAssumption
<1>3. n \in 0 .. RefMod - 1 /\ s.item[i].refcount # 0
  BY <1>2 DEF Referenced
<1>4. u = WithRef(s, i, n)
  BY <1>3 DEF DropRef, WithRef
<1>5. t = IF Linked(u, i) THEN u ELSE IF u.item[i].refcount = 0 THEN item_free(u, i) ELSE u
  BY DEF item_remove, FreeIfUnreferenced
<1> HIDE DEF t, u, n
<1>6. Live(s, i) /\ i \notin O /\ PageOf[i] \in s.pages
  BY DEF Live, Sound, Placed
<1>7. Sound(u, IF Linked(s, i) \/ n > 0 THEN O ELSE O \cup {i}, now)
  BY <1>1, <1>3, <1>4, <1>6, RefSound
<1>8. /\ u.pages = s.pages
      /\ \A j \in Chunks :
           /\ SameItem(s, u, j) /\ (Linked(u, j) <=> Linked(s, j))
           /\ u.item[j].refcount = IF j = i THEN n ELSE s.item[j].refcount
  BY <1>1, <1>3, <1>4, RefItems
<1>9. CASE Linked(s, i) \/ n > 0
  <2>1. t = u
    BY <1>3, <1>5, <1>8, <1>9
  <2>2. QED
    BY <1>7, <1>8, <1>9, <2>1 DEF t, n, Dropped
<1>10. CASE ~ Linked(s, i) /\ ~ n > 0
  <2>1. t = item_free(u, i) /\ ~ Live(u, i)
    BY <1>3, <1>5, <1>8, <1>10 DEF Live, Referenced
  <2>2. Sound(u, O \cup {i}, now) /\ PageOf[i] \in u.pages
    BY <1>6, <1>7, <1>8, <1>10
  <2>3. (O \cup {i}) \ {i} = O
    BY <1>6
  <2>4. /\ Sound(t, O, now) /\ Fades(u, t, O)
        /\ \A j \in Chunks : Linked(t, j) <=> Linked(u, j)
    BY <2>1, <2>2, <2>3, FreeSound
  <2>5. \A j \in Chunks : t.item[j].refcount = u.item[j].refcount
    BY <2>4 DEF Fades, SameRefs
  <2>6. ASSUME NEW j \in Chunks, Live(t, j) \/ j \in O
        PROVE  SameItem(s, t, j)
    <3>1. Linked(t, j) \/ Referenced(u, j) \/ j \in O
      BY <2>5, <2>6 DEF Live, Referenced
    <3>2. SameItem(u, t, j) /\ SameItem(s, u, j)
      BY <1>8, <2>4, <3>1 DEF Fades
    <3>3. QED
      BY <3>2 DEF SameItem
  <2>7. QED
    BY <1>8, <2>4, <2>5, <2>6 DEF t, n, Fades, Dropped
<1>11. QED
  BY <1>9, <1>10

-----------------------------------------------------------------------------
(* Linking *)

\* A list stays in order when the times of its own items do not change.
LEMMA DescendingCong ==
  ASSUME NEW q \in Seq(Chunks), NEW f, NEW g, Descending(q, f),
         \A j \in Chunks : In(j, q) => g[j] = f[j]
  PROVE  Descending(q, g)
<1>1. \A n \in 1 .. Len(q) : q[n] \in Chunks /\ In(q[n], q)
  BY DEF In
<1>2. \A n \in 1 .. Len(q) : g[q[n]] = f[q[n]]
  BY <1>1
<1>3. QED
  BY <1>2 DEF Descending

\* Item r once it is linked.
AsLinked(r, now) == [r EXCEPT !.it_flags = r.it_flags \cup {"LINKED"}, !.time = now]

\* The fields of s with item i linked.
LinkEffect(s, t, i, now) ==
  /\ t.pages = s.pages /\ t.free = s.free /\ t.mem_malloced = s.mem_malloced
  /\ t.item = [s.item EXCEPT ![i] = AsLinked(s.item[i], now)]
  /\ t.hashtable = [s.hashtable EXCEPT ![s.item[i].key] = Pushed(i, @)]
  /\ t.lru = [s.lru EXCEPT ![s.item[i].slabs_clsid] = Pushed(i, @)]

\* What item_link does to each field.
LEMMA LinkFields ==
  ASSUME NEW s \in Store, NEW i \in Chunks, NEW now
  PROVE  LinkEffect(s, item_link(s, i, now), i, now)
BY DEF LinkEffect, item_link, item_link_q, assoc_insert, AsLinked, Pushed, Store, Item

\* Item i of t is that of s, used now.
UsedNow(s, t, i, now) ==
  /\ t.item[i].key = s.item[i].key /\ t.item[i].nbytes = s.item[i].nbytes
  /\ t.item[i].val = s.item[i].val /\ t.item[i].slabs_clsid = s.item[i].slabs_clsid
  /\ t.item[i].exptime = s.item[i].exptime /\ t.item[i].time = now
  /\ t.item[i].it_flags \ {"LINKED"} = s.item[i].it_flags \ {"LINKED"}

\* The items after item_link: i is linked and used now, the others are as before.
LEMMA LinkItems ==
  ASSUME NEW s \in Store, NEW i \in Chunks, NEW now
  PROVE  LET t == item_link(s, i, now)
         IN  /\ SameRefs(s, t)
             /\ \A j \in Chunks \ {i} : SameItem(s, t, j)
             /\ \A j \in Chunks : Linked(t, j) <=> Linked(s, j) \/ j = i
             /\ UsedNow(s, t, i, now)
<1> DEFINE t == item_link(s, i, now)
           r == AsLinked(s.item[i], now)
<1>1. LinkEffect(s, t, i, now)
  BY LinkFields
<1>2. s.item \in [Chunks -> Item] /\ s.item[i] \in Item
  BY DEF Store
<1> HIDE DEF t
<1>3. /\ r.key = s.item[i].key /\ r.nbytes = s.item[i].nbytes /\ r.val = s.item[i].val
      /\ r.slabs_clsid = s.item[i].slabs_clsid /\ r.exptime = s.item[i].exptime
      /\ r.time = now /\ r.refcount = s.item[i].refcount
      /\ r.it_flags = s.item[i].it_flags \cup {"LINKED"}
  BY <1>2 DEF Item, AsLinked
<1> HIDE DEF r
<1>4. \A j \in Chunks : t.item[j] = IF j = i THEN r ELSE s.item[j]
  BY <1>1, <1>2 DEF LinkEffect, r
<1>5. SameRefs(s, t) /\ \A j \in Chunks \ {i} : SameItem(s, t, j)
  BY <1>3, <1>4 DEF SameRefs, SameItem
<1>6. \A j \in Chunks : Linked(t, j) <=> Linked(s, j) \/ j = i
  BY <1>3, <1>4 DEF Linked
<1>7. UsedNow(s, t, i, now)
  BY <1>3, <1>4 DEF UsedNow
<1>8. QED
  BY <1>5, <1>6, <1>7 DEF t

\* t is s with item i linked and used now.
Linking(s, t, i, now) ==
  /\ SameRefs(s, t) /\ t.pages = s.pages
  /\ \A j \in Chunks \ {i} : SameItem(s, t, j)
  /\ \A j \in Chunks : Linked(t, j) <=> Linked(s, j) \/ j = i
  /\ UsedNow(s, t, i, now)

\* An owned item is linked, when no item of its key is.
LEMMA ItemLinkSound ==
  ASSUME NEW s, NEW O, NEW now \in ItemTimes, NEW i \in Chunks, Sound(s, O, now), i \in O,
         s.item[i].key \in Keys, s.hashtable[s.item[i].key] = <<>>
  PROVE  Sound(item_link(s, i, now), O \ {i}, now) /\ Linking(s, item_link(s, i, now), i, now)
<1> DEFINE t == item_link(s, i, now)
           k == s.item[i].key
           id == s.item[i].slabs_clsid
<1>1. s \in Store /\ t \in Store /\ now \in Nat
  BY ItemLinkKeeps, ItemsAssumption DEF Sound, Keeps
<1>2. /\ t.pages = s.pages /\ t.free = s.free
      /\ t.hashtable = [s.hashtable EXCEPT ![k] = Pushed(i, @)]
      /\ t.lru = [s.lru EXCEPT ![id] = Pushed(i, @)]
  <2>1. LinkEffect(s, t, i, now)
    BY <1>1, LinkFields
  <2>2. QED
    BY <2>1 DEF LinkEffect
<1>3. /\ SameRefs(s, t)
      /\ \A j \in Chunks \ {i} : SameItem(s, t, j)
      /\ \A j \in Chunks : Linked(t, j) <=> Linked(s, j) \/ j = i
      /\ UsedNow(s, t, i, now)
  BY <1>1, LinkItems
<1>4. k \in Keys /\ s.hashtable[k] = <<>> /\ id \in Ids /\ ~ Live(s, i)
  BY <1>1, ItemTypes DEF Sound, Placed
<1> HIDE DEF t, k
<1>5. t.hashtable[k] = <<i>> /\ \A l \in Keys \ {k} : t.hashtable[l] = s.hashtable[l]
  <2>1. Pushed(i, <<>>) = <<i>>
    BY DEF Pushed
  <2>2. QED
    BY <1>1, <1>2, <1>4, <2>1 DEF Store
<1>6. ASSUME NEW j \in Chunks, Linked(s, j)
      PROVE  s.item[j].key # k
  <2>1. s.hashtable[s.item[j].key] = <<j>>
    BY <1>6 DEF Sound, Table
  <2>2. <<j>> # <<>>
    OBVIOUS
  <2>3. QED
    BY <1>4, <2>1, <2>2
<1>7. Table(t)
  <2>1. ASSUME NEW j \in Chunks, Linked(t, j)
        PROVE  t.item[j].key \in Keys /\ t.hashtable[t.item[j].key] = <<j>>
    <3>1. CASE j = i
      BY <1>3, <1>4, <1>5, <3>1 DEF UsedNow, k
    <3>2. CASE j # i
      <4>1. Linked(s, j) /\ t.item[j].key = s.item[j].key
        BY <1>3, <2>1, <3>2 DEF SameItem
      <4>2. s.item[j].key \in Keys /\ s.hashtable[s.item[j].key] = <<j>>
        BY <4>1 DEF Sound, Table
      <4>3. QED
        BY <1>5, <1>6, <4>1, <4>2
    <3>3. QED
      BY <3>1, <3>2
  <2>2. ASSUME NEW l \in Keys, t.hashtable[l] # <<>>
        PROVE  \E j \in Chunks : t.hashtable[l] = <<j>> /\ Linked(t, j) /\ t.item[j].key = l
    <3>1. CASE l = k
      BY <1>3, <1>5, <3>1 DEF UsedNow, k
    <3>2. CASE l # k
      <4>1. PICK j \in Chunks : s.hashtable[l] = <<j>> /\ Linked(s, j) /\ s.item[j].key = l
        BY <1>5, <2>2, <3>2 DEF Sound, Table
      <4>2. j # i
        BY <1>4, <4>1 DEF Live
      <4>3. QED
        BY <1>3, <1>5, <3>2, <4>1, <4>2 DEF SameItem
    <3>3. QED
      BY <3>1, <3>2
  <2>3. QED
    BY <2>1, <2>2 DEF Table
<1> DEFINE q == s.lru[id]
<1>8. /\ q \in Seq(Chunks) /\ NoDup(q) /\ Descending(q, Times(s))
      /\ \A j \in Chunks : In(j, q) <=> Linked(s, j) /\ s.item[j].slabs_clsid = id
      /\ \A x \in Ids : s.lru[x] \in Seq(Chunks)
  BY <1>1, <1>4 DEF Store, Ids, Sound, Order
<1>9. t.lru[id] = Pushed(i, q) /\ \A x \in Ids \ {id} : t.lru[x] = s.lru[x]
  BY <1>1, <1>2, <1>4 DEF Store, Ids
<1> HIDE DEF q, id
<1>10. ~ In(i, q) /\ \A x \in Ids : ~ In(i, s.lru[x])
  BY <1>4, <1>8 DEF Live, Sound, Order
<1>11. \A j \in Chunks \ {i} : Times(t)[j] = Times(s)[j]
  BY <1>3 DEF Times, SameItem
<1>12. Order(t, now)
  <2>1. /\ NoDup(t.lru[id])
        /\ \A j \in Chunks : In(j, t.lru[id]) <=> In(j, q) \/ j = i
        /\ Descending(q, Times(t)) /\ (\A j \in Chunks : In(j, q) => Times(t)[i] >= Times(t)[j])
             => Descending(t.lru[id], Times(t))
    BY <1>8, <1>9, <1>10, PushedFront
  <2>2. Descending(q, Times(t))
    BY <1>8, <1>10, <1>11, DescendingCong
  <2>3. ASSUME NEW j \in Chunks, In(j, q)
        PROVE  Times(t)[i] >= Times(t)[j]
    <3>1. Linked(s, j) /\ j # i
      BY <1>8, <1>10, <2>3
    <3>2. CASE SetBack
      BY <3>2 DEF Times
    <3>3. CASE ~ SetBack
      <4>1. Times(t)[j] = s.item[j].time /\ s.item[j].time <= now /\ s.item[j].time \in Nat
        BY <1>1, <1>3, <3>1, <3>3, ItemTypes DEF Times, SameItem, Sound, Order
      <4>2. Times(t)[i] = now
        BY <1>3, <3>3 DEF Times, UsedNow
      <4>3. QED
        BY <1>1, <4>1, <4>2
    <3>4. QED
      BY <3>2, <3>3
  <2>4. ASSUME NEW x \in Ids
        PROVE  /\ NoDup(t.lru[x]) /\ Descending(t.lru[x], Times(t))
               /\ \A j \in Chunks : In(j, t.lru[x]) <=> Linked(t, j) /\ t.item[j].slabs_clsid = x
    <3>1. CASE x = id
      <4>1. ASSUME NEW j \in Chunks
            PROVE  In(j, t.lru[x]) <=> Linked(t, j) /\ t.item[j].slabs_clsid = x
        BY <1>3, <1>8, <2>1, <3>1 DEF SameItem, UsedNow, id
      <4>2. QED
        BY <2>1, <2>2, <2>3, <3>1, <4>1
    <3>2. CASE x # id
      <4>1. t.lru[x] = s.lru[x]
        BY <1>9, <3>2
      <4>2. NoDup(s.lru[x]) /\ Descending(s.lru[x], Times(s))
        BY DEF Sound, Order
      <4>3. Descending(s.lru[x], Times(t))
        BY <1>8, <1>10, <1>11, <4>2, DescendingCong
      <4>4. ASSUME NEW j \in Chunks
            PROVE  In(j, t.lru[x]) <=> Linked(t, j) /\ t.item[j].slabs_clsid = x
        <5>1. In(j, t.lru[x]) <=> Linked(s, j) /\ s.item[j].slabs_clsid = x
          BY <4>1 DEF Sound, Order
        <5>2. QED
          BY <1>3, <3>2, <5>1 DEF SameItem, UsedNow, id
      <4>5. QED
        BY <4>1, <4>2, <4>3, <4>4
    <3>3. QED
      BY <3>1, <3>2
  <2>5. ASSUME NEW j \in Chunks, Linked(t, j)
        PROVE  SetBack \/ t.item[j].time <= now
    BY <1>1, <1>3, <2>5 DEF Sound, Order, SameItem, UsedNow
  <2>6. QED
    BY <2>4, <2>5 DEF Order
<1>13. Placed(t, O \ {i})
  <2>1. \A j \in Chunks : Live(t, j) <=> Live(s, j) \/ j = i
    BY <1>3 DEF Live, Referenced, SameRefs
  <2>2. QED
    BY <1>2, <2>1 DEF Sound, Placed
<1>14. QED
  BY <1>1, <1>2, <1>3, <1>7, <1>12, <1>13 DEF Sound, t, Linking

\* The fields of s with item i moved to the head of its list.
UpdateEffect(s, t, i, now) ==
  /\ t.pages = s.pages /\ t.free = s.free /\ t.mem_malloced = s.mem_malloced
  /\ t.item = [s.item EXCEPT ![i] = [s.item[i] EXCEPT !.time = now]]
  /\ t.hashtable = s.hashtable
  /\ t.lru = [s.lru EXCEPT ![s.item[i].slabs_clsid] = Pushed(i, Without(@, i))]

\* What item_update does to each field.
LEMMA UpdateFields ==
  ASSUME NEW s \in Store, NEW i \in Chunks, NEW now
  PROVE  UpdateEffect(s, item_update(s, i, now), i, now)
<1> DEFINE r == s.item[i]
           id == r.slabs_clsid
           u == item_unlink_q(s, i)
           v == [u EXCEPT !.item[i].time = now]
<1>1. s.item \in [Chunks -> Item] /\ r \in Item /\ id \in Ids /\ s.lru \in [Ids -> Seq(Chunks)]
  BY ItemTypes DEF Store, Ids
<1>2. /\ u.pages = s.pages /\ u.free = s.free /\ u.mem_malloced = s.mem_malloced
      /\ u.item = s.item /\ u.hashtable = s.hashtable
      /\ u.lru = [s.lru EXCEPT ![id] = Without(@, i)] /\ u \in Store
  <2>1. u \in Store
    BY UnlinkQKeeps DEF Keeps
  <2>2. QED
    BY <2>1 DEF item_unlink_q, Store
<1>3. v = [u EXCEPT !.item = [u.item EXCEPT ![i] = [u.item[i] EXCEPT !.time = now]]]
  OBVIOUS
<1> HIDE DEF u, v
<1>4. /\ v.pages = s.pages /\ v.free = s.free /\ v.mem_malloced = s.mem_malloced
      /\ v.item = [s.item EXCEPT ![i] = [r EXCEPT !.time = now]] /\ v.hashtable = s.hashtable
      /\ v.lru = u.lru
  BY <1>2, <1>3 DEF Store
<1>5. v.item[i].slabs_clsid = id
  BY <1>1, <1>4 DEF Item
<1>6. item_update(s, i, now) = [v EXCEPT !.lru = [v.lru EXCEPT ![id] = Pushed(i, v.lru[id])]]
  BY <1>5 DEF item_update, item_link_q, Pushed, u, v
<1>7. v.lru[id] = Without(s.lru[id], i)
  BY <1>1, <1>2, <1>4
<1>8. [v.lru EXCEPT ![id] = Pushed(i, v.lru[id])] = [s.lru EXCEPT ![id] = Pushed(i, Without(@, i))]
  BY <1>1, <1>2, <1>4, <1>7
<1> DEFINE t == item_update(s, i, now)
<1>9. t = [v EXCEPT !.lru = [s.lru EXCEPT ![id] = Pushed(i, Without(@, i))]]
  BY <1>6, <1>8
<1> HIDE DEF t
<1>10. DOMAIN v = DOMAIN s
  BY <1>2, <1>3 DEF Store
<1>11. /\ t.pages = v.pages /\ t.free = v.free /\ t.mem_malloced = v.mem_malloced
       /\ t.item = v.item /\ t.hashtable = v.hashtable
       /\ t.lru = [s.lru EXCEPT ![id] = Pushed(i, Without(@, i))]
  BY <1>9, <1>10 DEF Store
<1>12. UpdateEffect(s, t, i, now)
  BY <1>4, <1>11 DEF UpdateEffect
<1>13. QED
  BY <1>12 DEF t

\* The items after item_update: i is used now, the others are as before.
LEMMA UpdateItems ==
  ASSUME NEW s \in Store, NEW i \in Chunks, NEW now
  PROVE  LET t == item_update(s, i, now)
         IN  /\ SameRefs(s, t)
             /\ \A j \in Chunks \ {i} : SameItem(s, t, j)
             /\ \A j \in Chunks : Linked(t, j) <=> Linked(s, j)
             /\ UsedNow(s, t, i, now)
<1> DEFINE t == item_update(s, i, now)
           r == [s.item[i] EXCEPT !.time = now]
<1>1. UpdateEffect(s, t, i, now)
  BY UpdateFields
<1>2. s.item \in [Chunks -> Item] /\ s.item[i] \in Item
  BY DEF Store
<1> HIDE DEF t
<1>3. /\ r.key = s.item[i].key /\ r.nbytes = s.item[i].nbytes /\ r.val = s.item[i].val
      /\ r.slabs_clsid = s.item[i].slabs_clsid /\ r.exptime = s.item[i].exptime
      /\ r.time = now /\ r.refcount = s.item[i].refcount /\ r.it_flags = s.item[i].it_flags
  BY <1>2 DEF Item
<1> HIDE DEF r
<1>4. \A j \in Chunks : t.item[j] = IF j = i THEN r ELSE s.item[j]
  BY <1>1, <1>2 DEF UpdateEffect, r
<1>5. SameRefs(s, t) /\ \A j \in Chunks \ {i} : SameItem(s, t, j)
  BY <1>3, <1>4 DEF SameRefs, SameItem
<1>6. \A j \in Chunks : Linked(t, j) <=> Linked(s, j)
  BY <1>3, <1>4 DEF Linked
<1>7. UsedNow(s, t, i, now)
  BY <1>3, <1>4 DEF UsedNow
<1>8. QED
  BY <1>5, <1>6, <1>7 DEF t

\* A linked item is touched.
LEMMA ItemUpdateSound ==
  ASSUME NEW s, NEW O, NEW now \in ItemTimes, NEW i \in Chunks, Sound(s, O, now), Linked(s, i)
  PROVE  LET t == item_update(s, i, now)
         IN  /\ Sound(t, O, now) /\ SameRefs(s, t) /\ t.pages = s.pages
             /\ t.hashtable = s.hashtable
             /\ \A j \in Chunks \ {i} : SameItem(s, t, j)
             /\ \A j \in Chunks : Linked(t, j) <=> Linked(s, j)
             /\ UsedNow(s, t, i, now)
<1> DEFINE t == item_update(s, i, now)
           id == s.item[i].slabs_clsid
<1>1. s \in Store /\ t \in Store /\ now \in Nat
  BY ItemUpdateKeeps, ItemsAssumption DEF Sound, Keeps
<1>2. /\ t.pages = s.pages /\ t.free = s.free /\ t.hashtable = s.hashtable
      /\ t.lru = [s.lru EXCEPT ![id] = Pushed(i, Without(@, i))]
  <2>1. UpdateEffect(s, t, i, now)
    BY <1>1, UpdateFields
  <2>2. QED
    BY <2>1 DEF UpdateEffect
<1>3. /\ SameRefs(s, t)
      /\ \A j \in Chunks \ {i} : SameItem(s, t, j)
      /\ \A j \in Chunks : Linked(t, j) <=> Linked(s, j)
      /\ UsedNow(s, t, i, now)
  BY <1>1, UpdateItems
<1>4. id \in Ids
  BY <1>1, ItemTypes
<1> HIDE DEF t
<1>5. Table(t)
  <2>1. \A j \in Chunks : t.item[j].key = s.item[j].key
    BY <1>3 DEF SameItem, UsedNow
  <2>2. QED
    BY <1>2, <1>3, <2>1, TableCong DEF Sound
<1> DEFINE q == s.lru[id]
           w == Without(q, i)
<1>6. /\ q \in Seq(Chunks) /\ NoDup(q) /\ Descending(q, Times(s)) /\ In(i, q)
      /\ \A j \in Chunks : In(j, q) <=> Linked(s, j) /\ s.item[j].slabs_clsid = id
      /\ \A x \in Ids : s.lru[x] \in Seq(Chunks)
  BY <1>1, <1>4 DEF Store, Ids, Sound, Order
<1>7. t.lru[id] = Pushed(i, w) /\ \A x \in Ids \ {id} : t.lru[x] = s.lru[x]
  BY <1>1, <1>2, <1>4 DEF Store, Ids
<1> HIDE DEF q
<1>8. /\ w \in Seq(Chunks) /\ NoDup(w) /\ Descending(w, Times(s))
      /\ \A j \in Chunks : In(j, w) <=> In(j, q) /\ j # i
  BY <1>6, WithoutRest
<1> HIDE DEF w
<1>9. \A x \in Ids : x # id => ~ In(i, s.lru[x])
  BY DEF Sound, Order, id
<1>10. \A j \in Chunks \ {i} : Times(t)[j] = Times(s)[j]
  BY <1>3 DEF Times, SameItem
<1>11. Order(t, now)
  <2>1. /\ NoDup(t.lru[id])
        /\ \A j \in Chunks : In(j, t.lru[id]) <=> In(j, w) \/ j = i
        /\ Descending(w, Times(t)) /\ (\A j \in Chunks : In(j, w) => Times(t)[i] >= Times(t)[j])
             => Descending(t.lru[id], Times(t))
    BY <1>7, <1>8, PushedFront
  <2>2. Descending(w, Times(t))
    BY <1>8, <1>10, DescendingCong
  <2>3. ASSUME NEW j \in Chunks, In(j, w)
        PROVE  Times(t)[i] >= Times(t)[j]
    <3>1. Linked(s, j) /\ j # i
      BY <1>6, <1>8, <2>3
    <3>2. CASE SetBack
      BY <3>2 DEF Times
    <3>3. CASE ~ SetBack
      <4>1. Times(t)[j] = s.item[j].time /\ s.item[j].time <= now /\ s.item[j].time \in Nat
        BY <1>1, <1>3, <3>1, <3>3, ItemTypes DEF Times, SameItem, Sound, Order
      <4>2. Times(t)[i] = now
        BY <1>3, <3>3 DEF Times, UsedNow
      <4>3. QED
        BY <1>1, <4>1, <4>2
    <3>4. QED
      BY <3>2, <3>3
  <2>4. \A j \in Chunks : t.item[j].slabs_clsid = s.item[j].slabs_clsid
    BY <1>3 DEF SameItem, UsedNow
  <2>5. ASSUME NEW x \in Ids
        PROVE  /\ NoDup(t.lru[x]) /\ Descending(t.lru[x], Times(t))
               /\ \A j \in Chunks : In(j, t.lru[x]) <=> Linked(t, j) /\ t.item[j].slabs_clsid = x
    <3>1. CASE x = id
      <4>1. ASSUME NEW j \in Chunks
            PROVE  In(j, t.lru[x]) <=> Linked(t, j) /\ t.item[j].slabs_clsid = x
        BY <1>3, <1>6, <1>8, <2>1, <2>4, <3>1
      <4>2. QED
        BY <2>1, <2>2, <2>3, <3>1, <4>1
    <3>2. CASE x # id
      <4>1. t.lru[x] = s.lru[x]
        BY <1>7, <3>2
      <4>2. NoDup(s.lru[x]) /\ Descending(s.lru[x], Times(s))
        BY DEF Sound, Order
      <4>3. Descending(s.lru[x], Times(t))
        BY <1>6, <1>9, <1>10, <3>2, <4>2, DescendingCong
      <4>4. ASSUME NEW j \in Chunks
            PROVE  In(j, t.lru[x]) <=> Linked(t, j) /\ t.item[j].slabs_clsid = x
        BY <1>3, <2>4, <4>1 DEF Sound, Order
      <4>5. QED
        BY <4>1, <4>2, <4>3, <4>4
    <3>3. QED
      BY <3>1, <3>2
  <2>6. ASSUME NEW j \in Chunks, Linked(t, j)
        PROVE  SetBack \/ t.item[j].time <= now
    BY <1>1, <1>3, <2>6 DEF Sound, Order, SameItem, UsedNow
  <2>7. QED
    BY <2>5, <2>6 DEF Order
<1>12. Placed(t, O)
  <2>1. \A j \in Chunks : Live(t, j) <=> Live(s, j)
    BY <1>3 DEF Live, Referenced, SameRefs
  <2>2. QED
    BY <1>2, <2>1 DEF Sound, Placed
<1>13. QED
  BY <1>1, <1>2, <1>3, <1>5, <1>11, <1>12 DEF Sound, t

-----------------------------------------------------------------------------
(* Replacing *)

\* t is s with item i linked, used now, and item old no longer linked.
Replacing(s, t, old, i, O, now) ==
  /\ SameRefs(s, t)
  /\ \A j \in Chunks : Linked(t, j) <=> (Linked(s, j) /\ j # old) \/ j = i
  /\ \A j \in Chunks \ {i} : Live(t, j) \/ j \in O => SameItem(s, t, j)
  /\ UsedNow(s, t, i, now)

\* A new item takes the place of an old one of its key, linked or already
\* unlinked.
LEMMA ItemReplaceSound ==
  ASSUME NEW s, NEW O, NEW now \in ItemTimes, NEW old \in Chunks, NEW i \in Chunks,
         Sound(s, O, now), i \in O, old \notin O, PageOf[old] \in s.pages,
         s.item[i].key \in Keys,
         \A j \in Chunks : Linked(s, j) /\ s.item[j].key = s.item[i].key => j = old
  PROVE  LET t == item_replace(s, old, i, now)
         IN  Sound(t, O \ {i}, now) /\ Replacing(s, t, old, i, O, now)
<1> DEFINE u == item_unlink(s, old)
           t == item_link(u, i, now)
<1>2. /\ Sound(u, O, now) /\ Fades(s, u, O)
      /\ \A j \in Chunks : Linked(u, j) <=> Linked(s, j) /\ j # old
  BY ItemUnlinkSound
<1> HIDE DEF u
<1>3. SameItem(s, u, i)
  BY <1>2 DEF Fades
<1>4. ASSUME NEW j \in Chunks, Linked(u, j)
      PROVE  u.item[j].key # u.item[i].key
  <2>1. Linked(s, j) /\ j # old /\ SameItem(s, u, j)
    BY <1>2, <1>4 DEF Fades
  <2>2. QED
    BY <1>3, <2>1 DEF SameItem
<1>5. u.item[i].key \in Keys /\ u.hashtable[u.item[i].key] = <<>>
  BY <1>2, <1>3, <1>4 DEF SameItem, Sound, Table
<1>6. /\ Sound(t, O \ {i}, now) /\ SameRefs(u, t)
      /\ \A j \in Chunks \ {i} : SameItem(u, t, j)
      /\ \A j \in Chunks : Linked(t, j) <=> Linked(u, j) \/ j = i
      /\ UsedNow(u, t, i, now)
  BY <1>2, <1>5, ItemLinkSound DEF Linking
<1> HIDE DEF t
<1>7. SameRefs(s, t)
  BY <1>2, <1>6 DEF Fades, SameRefs
<1>8. \A j \in Chunks : Linked(t, j) <=> (Linked(s, j) /\ j # old) \/ j = i
  BY <1>2, <1>6
<1>9. ASSUME NEW j \in Chunks \ {i}, Live(t, j) \/ j \in O
      PROVE  SameItem(s, t, j)
  <2>1. Linked(u, j) \/ Referenced(s, j) \/ j \in O
    BY <1>6, <1>7, <1>9 DEF Live, Referenced, SameRefs
  <2>2. SameItem(s, u, j) /\ SameItem(u, t, j)
    BY <1>2, <1>6, <2>1 DEF Fades
  <2>3. QED
    BY <2>2 DEF SameItem
<1>10. UsedNow(s, t, i, now)
  BY <1>3, <1>6 DEF SameItem, UsedNow
<1>11. QED
  BY <1>6, <1>7, <1>8, <1>9, <1>10 DEF item_replace, t, u, Replacing

-----------------------------------------------------------------------------
(* Allocation *)

\* A free chunk becomes owned.
LEMMA TakeSound ==
  ASSUME NEW s, NEW O, NEW now, NEW i \in Chunks, Sound(s, O, now), i \in s.free
  PROVE  LET t == TakeChunk(s, i)
         IN  Sound(t, O \cup {i}, now) /\ t.item = s.item /\ t.pages = s.pages
<1> DEFINE t == TakeChunk(s, i)
<1>1. s \in Store /\ t \in Store
  BY TakeChunkKeeps DEF Sound, Keeps
<1>2. /\ t.pages = s.pages /\ t.free = s.free \ {i} /\ t.item = s.item
      /\ t.hashtable = s.hashtable /\ t.lru = s.lru
  BY <1>1 DEF TakeChunk, Store
<1> HIDE DEF t
<1>3. Table(t) /\ Order(t, now)
  BY <1>1, <1>2, TableCong, OrderCong DEF Sound, Linked
<1>4. \A j \in Chunks : Live(t, j) <=> Live(s, j)
  BY <1>2 DEF Live, Linked, Referenced
<1>5. Placed(t, O \cup {i})
  BY <1>2, <1>4 DEF Sound, Placed
<1>6. QED
  BY <1>1, <1>2, <1>3, <1>5 DEF Sound, t

\* The chunks of a new page are free.
LEMMA MapSound ==
  ASSUME NEW s, NEW O, NEW now, NEW p \in Pages, Sound(s, O, now), p \notin s.pages
  PROVE  LET t == MapPage(s, p)
         IN  /\ Sound(t, O, now) /\ t.item = s.item /\ s.pages \subseteq t.pages
             /\ ChunksOf({p}) \subseteq t.free
<1> DEFINE t == MapPage(s, p)
<1>1. s \in Store /\ t \in Store
  BY MapPageKeeps DEF Sound, Keeps
<1>2. /\ t.pages = s.pages \cup {p} /\ t.free = s.free \cup ChunksOf({p}) /\ t.item = s.item
      /\ t.hashtable = s.hashtable /\ t.lru = s.lru
  BY <1>1 DEF MapPage, Store
<1> HIDE DEF t
<1>3. Table(t) /\ Order(t, now)
  BY <1>1, <1>2, TableCong, OrderCong DEF Sound, Linked
<1>4. \A j \in Chunks : Live(t, j) <=> Live(s, j)
  BY <1>2 DEF Live, Linked, Referenced
<1>5. \A j \in Chunks : j \in ChunksOf({p}) <=> PageOf[j] = p
  BY DEF ChunksOf
<1>6. Placed(t, O)
  BY <1>2, <1>4, <1>5 DEF Sound, Placed
<1>7. QED
  BY <1>1, <1>2, <1>3, <1>6 DEF Sound, t

\* What an allocation answers: NULL, or a chunk nobody had, now owned.
Gives(s, o, O, now) ==
  \/ o.it = NULL /\ Sound(o.s, O, now)
  \/ /\ o.it \in Chunks /\ o.it \notin O /\ ~ Live(s, o.it)
     /\ Sound(o.s, O \cup {o.it}, now)

\* mem_cache_alloc: the items are not touched.
LEMMA AllocSound ==
  ASSUME NEW s, NEW O, NEW now, Sound(s, O, now), NEW id, NEW o \in mem_cache_alloc(s, id)
  PROVE  Gives(s, o, O, now) /\ o.s.item = s.item /\ s.pages \subseteq o.s.pages
<1> USE DEF Outcome
<1>1. CASE o = Outcome(s, NULL)
  BY <1>1 DEF Gives
<1>2. CASE \E i \in FreeOf(s, id) : o = Outcome(TakeChunk(s, i), i)
  <2>1. PICK i \in FreeOf(s, id) : o = Outcome(TakeChunk(s, i), i)
    BY <1>2
  <2>2. i \in Chunks /\ i \in s.free
    BY StoreFields DEF FreeOf, Sound
  <2>3. /\ Sound(TakeChunk(s, i), O \cup {i}, now) /\ TakeChunk(s, i).item = s.item
        /\ TakeChunk(s, i).pages = s.pages
    BY <2>2, TakeSound
  <2>4. i \notin O /\ ~ Live(s, i)
    BY <2>2 DEF Sound, Placed
  <2>5. QED
    BY <2>1, <2>2, <2>3, <2>4 DEF Gives
<1>3. CASE \E p \in NewPages(s, id) : \E i \in ChunksOf({p}) :
             o = Outcome(TakeChunk(MapPage(s, p), i), i)
  <2>1. PICK p \in NewPages(s, id) : \E i \in ChunksOf({p}) :
               o = Outcome(TakeChunk(MapPage(s, p), i), i)
    BY <1>3
  <2>2. PICK i \in ChunksOf({p}) : o = Outcome(TakeChunk(MapPage(s, p), i), i)
    BY <2>1
  <2> DEFINE t == MapPage(s, p)
             u == TakeChunk(t, i)
  <2>3. i \in Chunks /\ p \in Pages /\ p \notin s.pages /\ PageOf[i] = p
    BY DEF ChunksOf, NewPages
  <2>4. Sound(t, O, now) /\ t.item = s.item /\ s.pages \subseteq t.pages /\ i \in t.free
    BY <2>3, MapSound
  <2>5. o.s = u /\ o.it = i
    BY <2>2
  <2> HIDE DEF t
  <2>6. Sound(u, O \cup {i}, now) /\ u.item = t.item /\ u.pages = t.pages
    BY <2>3, <2>4, TakeSound
  <2>7. i \notin O /\ ~ Live(s, i)
    BY <2>3 DEF Sound, Placed
  <2> HIDE DEF u
  <2>8. QED
    BY <2>3, <2>4, <2>5, <2>6, <2>7 DEF Gives
<1>4. QED
  BY <1>1, <1>2, <1>3 DEF mem_cache_alloc

\* Every linked item of r that is referenced is linked in s.
Spares(r, s) == \A i \in Chunks : Linked(r, i) /\ Referenced(r, i) => Linked(s, i)

\* The eviction loop unlinks one item, and one that nothing refers to.
LEMMA EvictSound ==
  ASSUME NEW s, NEW O, NEW now, Sound(s, O, now), NEW id \in Ids, NEW e \in evict(s, id)
  PROVE  Sound(e, O, now) /\ Fades(s, e, O) /\ Spares(s, e)
<1> DEFINE q == s.lru[id]
<1>1. CASE e = s
  BY <1>1, FadesSelf DEF Spares
<1>2. CASE \E n \in Unreferenced(s, q) : e = item_unlink(s, q[n])
  <2>1. PICK n \in Unreferenced(s, q) : e = item_unlink(s, q[n])
    BY <1>2
  <2>2. q \in Seq(Chunks) /\ n \in 1 .. Len(q) /\ s.item[q[n]].refcount = 0
    BY StoreFields DEF Sound, Ids, Unreferenced
  <2> DEFINE i == q[n]
  <2>3. i \in Chunks /\ In(i, q)
    BY <2>2 DEF In
  <2>4. ~ Referenced(s, i)
    BY <2>2 DEF Referenced
  <2>5. e = item_unlink(s, i)
    BY <2>1
  <2> HIDE DEF i
  <2>6. Linked(s, i)
    BY <2>3 DEF Sound, Order
  <2>7. i \notin O /\ PageOf[i] \in s.pages
    BY <2>3, <2>6 DEF Sound, Placed, Live
  <2>8. /\ Sound(e, O, now) /\ Fades(s, e, O)
        /\ \A j \in Chunks : Linked(e, j) <=> Linked(s, j) /\ j # i
    BY <2>3, <2>5, <2>7, ItemUnlinkSound
  <2>9. QED
    BY <2>4, <2>8 DEF Spares
<1>3. QED
  BY <1>1, <1>2 DEF evict

\* The allocation with its retry.
LEMMA ChunkForSound ==
  ASSUME NEW s, NEW O, NEW now, Sound(s, O, now), NEW id \in Ids, NEW o \in ChunkFor(s, id)
  PROVE  /\ Fades(s, o.s, O) /\ Spares(s, o.s)
         /\ \/ o.it = NULL /\ Sound(o.s, O, now)
            \/ /\ o.it \in Chunks /\ o.it \notin O /\ ~ Live(o.s, o.it)
               /\ Sound(o.s, O \cup {o.it}, now)
<1>1. ASSUME NEW r, Sound(r, O, now), NEW a \in mem_cache_alloc(r, id)
      PROVE  /\ Fades(r, a.s, O) /\ Spares(r, a.s)
             /\ \/ a.it = NULL /\ Sound(a.s, O, now)
                \/ /\ a.it \in Chunks /\ a.it \notin O /\ ~ Live(a.s, a.it)
                   /\ Sound(a.s, O \cup {a.it}, now)
  <2>1. Gives(r, a, O, now) /\ a.s.item = r.item /\ r.pages \subseteq a.s.pages
    BY <1>1, AllocSound
  <2>2. Fades(r, a.s, O) /\ Spares(r, a.s)
    BY <2>1 DEF Fades, SameRefs, SameItem, Spares, Linked
  <2>3. \A i \in Chunks : Live(a.s, i) <=> Live(r, i)
    BY <2>1 DEF Live, Linked, Referenced
  <2>4. QED
    BY <2>1, <2>2, <2>3 DEF Gives
<1>2. CASE o \in mem_cache_alloc(s, id)
  BY <1>1, <1>2
<1>3. CASE \E f \in mem_cache_alloc(s, id) : f.it = NULL /\ \E e \in evict(f.s, id) :
             o \in mem_cache_alloc(e, id)
  <2>1. PICK f \in mem_cache_alloc(s, id) : f.it = NULL /\ \E e \in evict(f.s, id) :
               o \in mem_cache_alloc(e, id)
    BY <1>3
  <2>2. PICK e \in evict(f.s, id) : o \in mem_cache_alloc(e, id)
    BY <2>1
  <2>3. Fades(s, f.s, O) /\ Spares(s, f.s) /\ Sound(f.s, O, now)
    BY <1>1, <2>1, ItemsAssumption, PoolAssumption
  <2>4. Sound(e, O, now) /\ Fades(f.s, e, O) /\ Spares(f.s, e)
    BY <2>2, <2>3, EvictSound
  <2>5. /\ Fades(e, o.s, O) /\ Spares(e, o.s)
        /\ \/ o.it = NULL /\ Sound(o.s, O, now)
           \/ /\ o.it \in Chunks /\ o.it \notin O /\ ~ Live(o.s, o.it)
              /\ Sound(o.s, O \cup {o.it}, now)
    BY <1>1, <2>2, <2>4
  <2>6. Fades(s, o.s, O)
    BY <2>3, <2>4, <2>5, FadesTrans
  <2>7. Spares(s, o.s)
    BY <2>3, <2>4, <2>5 DEF Spares, Fades, SameRefs, Referenced
  <2>8. QED
    BY <2>5, <2>6, <2>7
<1>4. QED
  BY <1>2, <1>3 DEF ChunkFor

\* item_alloc: a new item, on a chunk nobody had or one just evicted.
LEMMA ItemAllocSound ==
  ASSUME NEW s, NEW O, NEW now, Sound(s, O, now), NEW k \in Keys, NEW len \in Lens,
         NEW x \in ItemTimes, NEW a \in item_alloc(s, k, len, x)
  PROVE  /\ Fades(s, a.s, O) /\ Spares(s, a.s)
         /\ \/ a.it = NULL /\ Sound(a.s, O, now)
            \/ /\ a.it \in Chunks /\ a.it \notin O /\ Sound(a.s, O \cup {a.it}, now)
               /\ a.s.item[a.it] = NewItem(k, len, x)
<1>1. CASE a = Outcome(s, NULL)
  BY <1>1, FadesSelf DEF Outcome, Spares
<1>2. CASE \E o \in ChunkFor(s, ClsId[len]) : a = InitItem(o, k, len, x)
  <2>1. PICK o \in ChunkFor(s, ClsId[len]) : a = InitItem(o, k, len, x)
    BY <1>2
  <2>2. ClsId[len] \in Ids
    BY ItemsAssumption DEF Ids
  <2>3. /\ Fades(s, o.s, O) /\ Spares(s, o.s)
        /\ \/ o.it = NULL /\ Sound(o.s, O, now)
           \/ /\ o.it \in Chunks /\ o.it \notin O /\ ~ Live(o.s, o.it)
              /\ Sound(o.s, O \cup {o.it}, now)
    BY <2>1, <2>2, ChunkForSound
  <2>4. CASE o.it = NULL
    BY <2>1, <2>3, <2>4, PoolAssumption DEF InitItem
  <2>5. CASE o.it # NULL
    <3> DEFINE r == NewItem(k, len, x)
               u == o.s
               i == o.it
               t == [u EXCEPT !.item = [u.item EXCEPT ![i] = r]]
    <3>1. i \in Chunks /\ i \notin O /\ ~ Live(u, i) /\ Sound(u, O \cup {i}, now) /\ u \in Store
      BY <2>3, <2>5 DEF Sound
    <3>2. a.s = t /\ a.it = i
      BY <2>1, <2>5 DEF InitItem, Outcome
    <3>3. /\ r \in Item /\ r.refcount = 0 /\ r.it_flags = {}
      <4>1. 0 \in Vals /\ 0 \in ItemTimes /\ 0 \in 0 .. RefMod - 1 /\ {} \in SUBSET Flags
        BY ItemsAssumption
      <4>2. QED
        BY <2>2, <4>1 DEF NewItem, BlankItem, Item, Ids
    <3> HIDE DEF r, u, i
    <3>4. t \in Store
      BY <3>1, <3>3 DEF Store
    <3>5. /\ t.pages = u.pages /\ t.free = u.free /\ t.hashtable = u.hashtable /\ t.lru = u.lru
          /\ t.item[i] = r /\ \A j \in Chunks \ {i} : t.item[j] = u.item[j]
      BY <3>1 DEF Store
    <3> HIDE DEF t
    <3>6. ~ Linked(u, i) /\ ~ Referenced(u, i) /\ u.item[i].refcount = 0
      BY <3>1, ItemTypes DEF Live, Referenced
    <3>7. ~ Linked(t, i) /\ ~ Referenced(t, i)
      BY <3>3, <3>5 DEF Linked, Referenced
    <3>8. \A j \in Chunks : (Linked(t, j) <=> Linked(u, j)) /\ (Live(t, j) <=> Live(u, j))
      BY <3>5, <3>6, <3>7 DEF Live, Linked, Referenced
    <3>9. \A j \in Chunks : Linked(u, j) => t.item[j] = u.item[j]
      BY <3>5, <3>6
    <3>10. Table(t) /\ Order(t, now)
      BY <3>1, <3>5, <3>8, <3>9, TableCong, OrderCong DEF Sound
    <3>11. Placed(t, O \cup {i})
      BY <3>1, <3>5, <3>8 DEF Sound, Placed
    <3>12. Fades(u, t, O)
      <4>1. SameRefs(u, t)
        BY <3>3, <3>5, <3>6 DEF SameRefs
      <4>2. \A j \in Chunks \ {i} : SameItem(u, t, j)
        BY <3>5 DEF SameItem
      <4>3. QED
        BY <3>1, <3>5, <3>6, <3>7, <3>8, <4>1, <4>2 DEF Fades
    <3>13. Fades(s, t, O)
      BY <2>3, <3>12, FadesTrans DEF u
    <3>14. Spares(s, t)
      BY <2>3, <3>8 DEF Spares, u
    <3>15. QED
      BY <3>1, <3>2, <3>4, <3>5, <3>10, <3>11, <3>13, <3>14 DEF Sound, r
  <2>6. QED
    BY <2>4, <2>5
<1>3. QED
  BY <1>1, <1>2 DEF item_alloc

\* A lookup unlinks the item it finds when that is flushed or expired, and
\* finds the linked item of the key otherwise.
LEMMA LookupSound ==
  ASSUME NEW s, NEW O, NEW now, Sound(s, O, now), NEW k \in Keys
  PROVE  LET g == get_item_notedeleted(s, k)
             i == assoc_find(s, k)
         IN  /\ Sound(g.s, O, now) /\ Fades(s, g.s, O)
             /\ \/ /\ i \in Chunks /\ Linked(s, i) /\ s.item[i].key = k
                   /\ \/ /\ ~ DeleteLocked(s, i) /\ ~ Flushed(s, i) /\ ~ Expired(s, i)
                         /\ g = Found(s, i, FALSE)
                      \/ DeleteLocked(s, i) /\ g = Found(s, NULL, TRUE)
                      \/ /\ ~ DeleteLocked(s, i) /\ (Flushed(s, i) \/ Expired(s, i))
                         /\ g.it = NULL /\ g.delete_locked = FALSE
                         /\ \A j \in Chunks : Linked(g.s, j) <=> Linked(s, j) /\ j # i
                         /\ g.s.hashtable[k] = <<>>
                \/ s.hashtable[k] = <<>> /\ g = Found(s, NULL, FALSE)
<1> DEFINE i == assoc_find(s, k)
           g == get_item_notedeleted(s, k)
<1>1. CASE s.hashtable[k] = <<>>
  <2>1. g = Found(s, NULL, FALSE)
    BY <1>1 DEF get_item_notedeleted, assoc_find
  <2>2. QED
    BY <1>1, <2>1, FadesSelf DEF Found
<1>2. CASE s.hashtable[k] # <<>>
  <2>1. PICK c \in Chunks : s.hashtable[k] = <<c>> /\ Linked(s, c) /\ s.item[c].key = k
    BY <1>2 DEF Sound, Table
  <2>2. i = c /\ i # NULL
    BY <1>2, <2>1, PoolAssumption DEF assoc_find
  <2> HIDE DEF i
  <2>3. PageOf[i] \in s.pages /\ i \notin O
    BY <2>1, <2>2 DEF Sound, Placed, Live
  <2> DEFINE u == item_unlink(s, i)
  <2>4. g = IF DeleteLocked(s, i) THEN Found(s, NULL, TRUE)
            ELSE IF Flushed(s, i) \/ Expired(s, i) THEN Found(u, NULL, FALSE)
            ELSE Found(s, i, FALSE)
    BY <2>2 DEF get_item_notedeleted, i
  <2>5. /\ Sound(u, O, now) /\ Fades(s, u, O)
        /\ \A j \in Chunks : Linked(u, j) <=> Linked(s, j) /\ j # i
        /\ u.hashtable[s.item[i].key] = <<>>
    BY <2>1, <2>2, <2>3, ItemUnlinkSound
  <2> HIDE DEF u, g
  <2>6. CASE DeleteLocked(s, i)
    <3>1. g = Found(s, NULL, TRUE)
      BY <2>4, <2>6
    <3>2. QED
      BY <2>1, <2>2, <2>6, <3>1, FadesSelf DEF Found, g, i
  <2>7. CASE ~ DeleteLocked(s, i) /\ (Flushed(s, i) \/ Expired(s, i))
    <3>1. g.s = u /\ g.it = NULL /\ g.delete_locked = FALSE
      BY <2>4, <2>7 DEF Found
    <3>2. QED
      BY <2>1, <2>2, <2>5, <2>7, <3>1 DEF g, i
  <2>8. CASE ~ DeleteLocked(s, i) /\ ~ Flushed(s, i) /\ ~ Expired(s, i)
    <3>1. g = Found(s, i, FALSE)
      BY <2>4, <2>8
    <3>2. QED
      BY <2>1, <2>2, <2>8, <3>1, FadesSelf DEF Found, g, i
  <2>9. QED
    BY <2>6, <2>7, <2>8
<1>3. QED
  BY <1>1, <1>2

=============================================================================
