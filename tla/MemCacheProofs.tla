--------------------------- MODULE MemCacheProofs ----------------------------
(***************************************************************************)
(* Theorems about MemCache for every value of its constants: any number of *)
(* slab classes, chunks per page, pages, any memory limit, and whether or  *)
(* not calloc fails.  The last part shows that MemCache implements the     *)
(* pool of ChunkPool, on which the item store is built, as long as the     *)
(* realloc of the free list succeeds.                                      *)
(***************************************************************************)
EXTENDS MemCache, FunctionTheorems, FiniteSetTheorems, TLAPS

-----------------------------------------------------------------------------
(* One slab class *)

ListedIn(sl) == {sl.free_chunk_list[n] : n \in DOMAIN sl.free_chunk_list}
EndIn(sl) ==
  LET p == sl.end_page_ptr
  IN  IF p = NULL THEN {} ELSE {i \in Chunks : i[1] = p[1] /\ i[2] = p[2] /\ i[3] >= p[3]}

FreeIn(sl) == ListedIn(sl) \cup EndIn(sl)

\* end_page_ptr is in the last page of the class, and end_page_free counts the
\* chunks from there to the end of the page.
EndInLastPage(id, sl) ==
  IF sl.end_page_ptr = NULL THEN sl.end_page_free = 0
  ELSE /\ sl.end_page_ptr[1] = id /\ sl.end_page_ptr[2] = sl.page_total
       /\ sl.end_page_free > 0
       /\ sl.end_page_ptr[3] + sl.end_page_free = chunk_number_per_page[id] + 1

\* The free list holds different chunks of mapped pages of the class, none of
\* them in use (U) or still in the end of the page.
ListGood(id, sl, U) ==
  /\ \A n \in DOMAIN sl.free_chunk_list :
       LET i == sl.free_chunk_list[n]
       IN  i[1] = id /\ i[2] <= sl.page_total /\ i \notin U /\ i \notin EndIn(sl)
  /\ \A m, n \in DOMAIN sl.free_chunk_list :
       sl.free_chunk_list[m] = sl.free_chunk_list[n] => m = n

\* The chunks in use come from mapped pages, and from before the end.
UsedGood(id, sl, U) ==
  \A i \in U : i[1] = id => i[2] <= sl.page_total /\ i \notin EndIn(sl)

SlabGood(id, sl, U) ==
  /\ sl \in Slab /\ sl.page_total <= MaxPages
  /\ Len(sl.free_chunk_list) <= sl.free_chunk_list_length
  /\ EndInLastPage(id, sl)
  /\ ListGood(id, sl, U)
  /\ UsedGood(id, sl, U)

\* No chunk of a mapped page of the class is missing.
NoneLost(id, sl, U) ==
  \A i \in Chunks : i[1] = id /\ i[2] <= sl.page_total =>
    i \in ListedIn(sl) \cup EndIn(sl) \cup U

\* A chunk is a triple of its class, its page and its place there.
LEMMA ChunkParts ==
  ASSUME NEW i \in Chunks
  PROVE  /\ i[1] \in Classes /\ i[2] \in 1 .. MaxPages /\ i[3] \in 1 .. page_size
         /\ i[3] <= chunk_number_per_page[i[1]]
         /\ i = <<i[1], i[2], i[3]>>
BY DEF Chunks

\* A triple with a place inside its page is a chunk.
LEMMA ChunkMade ==
  ASSUME NEW id \in Classes, NEW n \in 1 .. MaxPages, NEW m \in Nat \ {0},
         m <= chunk_number_per_page[id]
  PROVE  <<id, n, m>> \in Chunks
<1>1. chunk_number_per_page[id] \in 1 .. page_size /\ page_size \in Nat
  BY MemCacheAssumption
<1>2. m \in 1 .. page_size
  BY <1>1
<1>3. QED
  BY <1>2 DEF Chunks

\* The components of a slab.
LEMMA SlabFields ==
  ASSUME NEW sl \in Slab
  PROVE  /\ sl.end_page_ptr \in Chunks \cup {NULL} /\ sl.end_page_free \in Nat
         /\ sl.page_total \in Nat /\ sl.free_chunk_list \in Seq(Chunks)
         /\ sl.free_chunk_list_length \in Nat /\ Len(sl.free_chunk_list) \in Nat
         /\ DOMAIN sl.free_chunk_list = 1 .. Len(sl.free_chunk_list)
BY DEF Slab

\* Popping the last entry of the free list: it leaves the list for its user.
LEMMA PopGood ==
  ASSUME NEW id \in Classes, NEW sl, NEW U, SlabGood(id, sl, U), sl.free_chunk_list # <<>>
  PROVE  LET i == Last(sl.free_chunk_list)
         IN  /\ i \in Chunks /\ i[1] = id
             /\ SlabGood(id, PopFree(sl), U \cup {i})
             /\ NoneLost(id, sl, U) => NoneLost(id, PopFree(sl), U \cup {i})
             /\ i \in FreeIn(sl) /\ FreeIn(PopFree(sl)) = FreeIn(sl) \ {i}
             /\ PopFree(sl).page_total = sl.page_total
<1> DEFINE q == sl.free_chunk_list
           k == Len(q)
           i == q[k]
           q1 == Front(q)
           new == [sl EXCEPT !.free_chunk_list = q1]
<1>1. sl \in Slab /\ q \in Seq(Chunks) /\ k \in Nat \ {0} /\ DOMAIN q = 1 .. k
  BY SlabFields DEF SlabGood
<1>2. q1 \in Seq(Chunks) /\ Len(q1) = k - 1 /\ \A n \in 1 .. k - 1 : q1[n] = q[n]
  BY <1>1 DEF Front
<1>3. i \in Chunks /\ i[1] = id /\ i[2] <= sl.page_total /\ i \notin EndIn(sl)
  BY <1>1 DEF SlabGood, ListGood
<1>4. Last(q) = i /\ PopFree(sl) = new
  BY DEF Last, PopFree
<1> HIDE DEF q1
<1>5. /\ new \in Slab /\ new.free_chunk_list = q1 /\ new.end_page_ptr = sl.end_page_ptr
      /\ new.end_page_free = sl.end_page_free /\ new.page_total = sl.page_total
      /\ new.free_chunk_list_length = sl.free_chunk_list_length
  BY <1>1, <1>2 DEF Slab
<1>6. EndIn(new) = EndIn(sl) /\ DOMAIN q1 = 1 .. k - 1
  BY <1>2, <1>5 DEF EndIn
<1> HIDE DEF new
<1>7. ListGood(id, new, U \cup {i})
  <2>1. \A m, n \in DOMAIN q : q[m] = q[n] => m = n
    BY DEF SlabGood, ListGood
  <2>2. \A n \in 1 .. k - 1 : q1[n] = q[n] /\ n \in DOMAIN q /\ q[n] # i
    <3> HIDE DEF q
    <3>1. \A n \in 1 .. k - 1 : n \in DOMAIN q /\ k \in DOMAIN q /\ n # k
      <4> HIDE DEF k
      <4>1. QED
        BY <1>1
    <3>2. QED
      BY <1>2, <2>1, <3>1
  <2>3. \A n \in DOMAIN q : q[n][1] = id /\ q[n][2] <= sl.page_total /\ q[n] \notin U /\ q[n] \notin EndIn(sl)
    BY DEF SlabGood, ListGood
  <2> HIDE DEF q, i, k
  <2>4. \A n \in DOMAIN q1 :
          /\ q1[n][1] = id /\ q1[n][2] <= sl.page_total
          /\ q1[n] \notin U \cup {i} /\ q1[n] \notin EndIn(sl)
    BY <1>6, <2>2, <2>3
  <2>5. \A m, n \in DOMAIN q1 : q1[m] = q1[n] => m = n
    BY <1>6, <2>1, <2>2
  <2>6. QED
    BY <1>5, <1>6, <2>4, <2>5 DEF ListGood
<1>8. UsedGood(id, new, U \cup {i})
  BY <1>3, <1>5, <1>6 DEF SlabGood, UsedGood
<1>9. SlabGood(id, new, U \cup {i})
  <2>1. Len(q1) <= sl.free_chunk_list_length
    BY <1>1, <1>2, SlabFields DEF SlabGood
  <2>2. EndInLastPage(id, new)
    BY <1>5 DEF SlabGood, EndInLastPage
  <2>3. QED
    BY <1>5, <1>7, <1>8, <2>1, <2>2 DEF SlabGood
<1>10. ListedIn(sl) = ListedIn(new) \cup {i}
  BY <1>1, <1>2, <1>5, <1>6, SMTT(60) DEF ListedIn
<1>11. NoneLost(id, sl, U) => NoneLost(id, new, U \cup {i})
  BY <1>5, <1>6, <1>10 DEF NoneLost
<1>12. i \in FreeIn(sl) /\ FreeIn(new) = FreeIn(sl) \ {i}
  <2>1. i \notin ListedIn(new)
    BY <1>7 DEF ListGood, ListedIn
  <2>2. QED
    BY <1>3, <1>6, <1>10, <2>1 DEF FreeIn
<1>13. QED
  BY <1>3, <1>4, <1>5, <1>9, <1>11, <1>12

\* Cutting the next chunk off the end of the page.
LEMMA CutGood ==
  ASSUME NEW id \in Classes, NEW sl, NEW U, SlabGood(id, sl, U), sl.end_page_ptr # NULL
  PROVE  LET i == sl.end_page_ptr
         IN  /\ i \in Chunks /\ i[1] = id
             /\ SlabGood(id, CutPage(sl), U \cup {i})
             /\ NoneLost(id, sl, U) => NoneLost(id, CutPage(sl), U \cup {i})
             /\ i \in FreeIn(sl) /\ FreeIn(CutPage(sl)) = FreeIn(sl) \ {i}
             /\ CutPage(sl).page_total = sl.page_total
<1> DEFINE p == sl.end_page_ptr
           f == sl.end_page_free
           c == chunk_number_per_page[id]
           q == <<p[1], p[2], p[3] + 1>>
           r == IF f - 1 > 0 THEN q ELSE NULL
           new == [sl EXCEPT !.end_page_free = f - 1, !.end_page_ptr = r]
<1>1. /\ sl \in Slab /\ p \in Chunks /\ f \in Nat /\ f > 0
      /\ p[1] = id /\ p[2] = sl.page_total /\ p[3] + f = c + 1
  BY SlabFields DEF SlabGood, EndInLastPage
<1>2. /\ p[1] \in Classes /\ p[2] \in 1 .. MaxPages /\ p[3] \in Nat \ {0}
      /\ c \in Nat /\ p = <<p[1], p[2], p[3]>>
  <2>1. p[3] \in 1 .. page_size /\ page_size \in Nat /\ c \in 1 .. page_size
    BY <1>1, ChunkParts, MemCacheAssumption
  <2>2. QED
    BY <1>1, <2>1, ChunkParts
<1>3. f - 1 > 0 => q \in Chunks /\ q # NULL
  <2>1. f - 1 > 0 => p[3] + 1 \in Nat \ {0} /\ p[3] + 1 <= c
    BY <1>1, <1>2
  <2>2. QED
    BY <1>1, <1>2, <2>1, ChunkMade, MemCacheAssumption
<1>4. CutPage(sl) = new
  BY DEF CutPage
<1>5. r \in Chunks \cup {NULL} /\ f - 1 \in Nat
  BY <1>1, <1>3
<1> HIDE DEF r
<1>6. /\ new \in Slab /\ new.free_chunk_list = sl.free_chunk_list /\ new.end_page_ptr = r
      /\ new.end_page_free = f - 1 /\ new.page_total = sl.page_total
      /\ new.free_chunk_list_length = sl.free_chunk_list_length
  BY <1>1, <1>5 DEF Slab
<1> HIDE DEF new
<1>7. EndIn(sl) = {i \in Chunks : i[1] = p[1] /\ i[2] = p[2] /\ i[3] >= p[3]}
  BY DEF EndIn
<1>8. EndIn(new) = EndIn(sl) \ {p} /\ p \in EndIn(sl)
  <2>1. \A i \in Chunks : i[1] = p[1] /\ i[2] = p[2] /\ i[3] = p[3] => i = p
    BY <1>2, ChunkParts
  <2>2. \A i \in Chunks : i[3] \in Nat /\ (i[1] = p[1] => i[3] <= c)
    <3>1. \A i \in Chunks : i[3] \in 1 .. page_size /\ i[3] <= chunk_number_per_page[i[1]]
      BY ChunkParts
    <3>2. page_size \in Nat
      BY MemCacheAssumption
    <3>3. QED
      BY <1>1, <3>1, <3>2
  <2>3. CASE f - 1 > 0
    <3>1. EndIn(new) = {i \in Chunks : i[1] = p[1] /\ i[2] = p[2] /\ i[3] >= p[3] + 1}
      BY <1>3, <1>6, <2>3 DEF EndIn, r
    <3>2. QED
      BY <1>1, <1>2, <1>7, <2>1, <2>2, <3>1
  <2>4. CASE ~ (f - 1 > 0)
    <3>1. EndIn(new) = {} /\ p[3] = c
      BY <1>1, <1>2, <1>6, <2>4 DEF EndIn, r
    <3>2. QED
      BY <1>1, <1>2, <1>7, <2>1, <2>2, <3>1
  <2>5. QED
    BY <2>3, <2>4
<1>9. EndInLastPage(id, new)
  <2>1. CASE f - 1 > 0
    <3>1. new.end_page_ptr = q /\ q # NULL
      BY <1>3, <1>6, <2>1 DEF r
    <3>2. q[1] = id /\ q[2] = sl.page_total /\ q[3] + (f - 1) = c + 1
      BY <1>1, <1>2
    <3> HIDE DEF q
    <3>3. QED
      BY <1>6, <2>1, <3>1, <3>2 DEF EndInLastPage
  <2>2. CASE ~ (f - 1 > 0)
    BY <1>1, <1>6, <2>2 DEF EndInLastPage, r
  <2>3. QED
    BY <2>1, <2>2
<1> HIDE DEF p, f, c, q
<1>10. ListGood(id, new, U \cup {p})
  BY <1>6, <1>8 DEF SlabGood, ListGood
<1>11. UsedGood(id, new, U \cup {p})
  <2>1. p[2] <= sl.page_total
    BY <1>1, <1>2
  <2>2. QED
    BY <1>6, <1>8, <2>1 DEF SlabGood, UsedGood
<1>12. SlabGood(id, new, U \cup {p})
  BY <1>6, <1>9, <1>10, <1>11 DEF SlabGood
<1>13. NoneLost(id, sl, U) => NoneLost(id, new, U \cup {p})
  BY <1>6, <1>8 DEF NoneLost, ListedIn
<1>14. p \in FreeIn(sl) /\ FreeIn(new) = FreeIn(sl) \ {p}
  <2>1. p \notin ListedIn(sl)
    BY <1>6, <1>10 DEF ListGood, ListedIn
  <2>2. ListedIn(new) = ListedIn(sl)
    BY <1>6 DEF ListedIn
  <2>3. QED
    BY <1>8, <2>1, <2>2 DEF FreeIn
<1>15. QED
  BY <1>1, <1>4, <1>6, <1>12, <1>13, <1>14 DEF p

\* A new page: all of it is uncut, and none of it is in use or listed.
LEMMA NewPageGood ==
  ASSUME NEW id \in Classes, NEW sl, NEW U \in SUBSET Chunks, SlabGood(id, sl, U),
         sl.end_page_ptr = NULL, sl.page_total < MaxPages
  PROVE  LET new == slab_new_page(sl, id)
         IN  /\ new.end_page_ptr # NULL
             /\ SlabGood(id, new, U)
             /\ NoneLost(id, sl, U) => NoneLost(id, new, U)
             /\ FreeIn(new) = FreeIn(sl) \cup {i \in Chunks : i[1] = id /\ i[2] = new.page_total}
             /\ new.page_total = sl.page_total + 1
<1> DEFINE n == sl.page_total + 1
           c == chunk_number_per_page[id]
           q == <<id, n, 1>>
           new == [sl EXCEPT !.end_page_ptr = q, !.end_page_free = c, !.page_total = n]
<1>1. sl \in Slab /\ sl.page_total \in Nat /\ n \in 1 .. MaxPages /\ c \in Nat \ {0}
  BY SlabFields, MemCacheAssumption DEF SlabGood
<1>2. q \in Chunks /\ q # NULL
  BY <1>1, ChunkMade, MemCacheAssumption
<1>3. slab_new_page(sl, id) = new
  BY DEF slab_new_page
<1>4. q[1] = id /\ q[2] = n /\ q[3] = 1
  OBVIOUS
<1> HIDE DEF q
<1>5. n \in Nat
  BY <1>1
<1>6. /\ new \in Slab /\ new.free_chunk_list = sl.free_chunk_list /\ new.end_page_ptr = q
      /\ new.end_page_free = c /\ new.page_total = n
      /\ new.free_chunk_list_length = sl.free_chunk_list_length
  BY <1>1, <1>2, <1>5 DEF Slab
<1> HIDE DEF new
<1>7. EndIn(sl) = {} /\ EndIn(new) = {i \in Chunks : i[1] = id /\ i[2] = n}
  <2>1. \A i \in Chunks : i[3] >= 1
    BY ChunkParts, MemCacheAssumption
  <2>2. QED
    BY <1>2, <1>4, <1>6, <2>1 DEF EndIn
<1>8. sl.page_total < n
  BY <1>1
<1>9. EndInLastPage(id, new)
  BY <1>1, <1>2, <1>4, <1>6 DEF EndInLastPage
<1>10. \A i \in Chunks : i[2] \in Nat
  BY ChunkParts, MemCacheAssumption
<1>11. \A i \in Chunks : i[2] <= sl.page_total => i[2] <= n /\ i \notin EndIn(new)
  BY <1>1, <1>7, <1>10
<1>12. ListGood(id, new, U)
  <2>1. \A k \in DOMAIN sl.free_chunk_list : sl.free_chunk_list[k] \in Chunks
    BY <1>1, SlabFields
  <2>2. QED
    BY <1>6, <1>11, <2>1 DEF SlabGood, ListGood
<1>13. SlabGood(id, new, U)
  <2>1. UsedGood(id, new, U)
    BY <1>6, <1>11 DEF SlabGood, UsedGood
  <2>2. n <= MaxPages
    BY <1>1
  <2>3. QED
    BY <1>6, <1>9, <1>12, <2>1, <2>2 DEF SlabGood
<1>14. NoneLost(id, sl, U) => NoneLost(id, new, U)
  <2>1. \A i \in Chunks : i[2] <= n => i[2] <= sl.page_total \/ i[2] = n
    BY <1>1, <1>10
  <2>2. QED
    BY <1>6, <1>7, <2>1 DEF NoneLost, ListedIn
<1>15. FreeIn(new) = FreeIn(sl) \cup {i \in Chunks : i[1] = id /\ i[2] = n}
  BY <1>6, <1>7 DEF FreeIn, ListedIn
<1>16. QED
  BY <1>2, <1>3, <1>6, <1>13, <1>14, <1>15

\* Giving a chunk back, on a list that may have to grow, or, when realloc
\* fails, into nowhere: then nothing but the chunk itself is lost.
LEMMA FreeGood ==
  ASSUME NEW id \in Classes, NEW sl, NEW U \in SUBSET Chunks, SlabGood(id, sl, U),
         NEW i \in U, i[1] = id, NEW new \in slab_free_chunk(sl, i)
  PROVE  /\ SlabGood(id, new, U \ {i})
         /\ ~ ReallocMayFail /\ NoneLost(id, sl, U) => NoneLost(id, new, U \ {i})
         /\ ~ ReallocMayFail => FreeIn(new) = FreeIn(sl) \cup {i}
         /\ new.page_total = sl.page_total
<1> DEFINE q == sl.free_chunk_list
           k == Len(q)
           len == sl.free_chunk_list_length
           grown == IF len = 0 THEN FreeListFirst ELSE len * 2
           q1 == Append(q, i)
           len1 == IF k = len THEN grown ELSE len
           kept == [sl EXCEPT !.free_chunk_list = q1, !.free_chunk_list_length = len1]
<1>1. new = kept \/ (new = sl /\ ReallocMayFail)
  <2> DEFINE failed == {sl : x \in IF k = len /\ ReallocMayFail THEN {1} ELSE {}}
  <2>1. slab_free_chunk(sl, i) = {kept} \cup failed
    BY DEF slab_free_chunk
  <2>2. new \in failed => new = sl /\ ReallocMayFail
    OBVIOUS
  <2> HIDE DEF failed, kept
  <2>3. QED
    BY <2>1, <2>2
<1>2. CASE new = sl /\ ReallocMayFail
  BY <1>2 DEF SlabGood, ListGood, UsedGood
<1>3. CASE new = kept
  <2>1. sl \in Slab /\ q \in Seq(Chunks) /\ k \in Nat /\ len \in Nat /\ DOMAIN q = 1 .. k /\ k <= len
    BY SlabFields DEF SlabGood
  <2>2. /\ q1 \in Seq(Chunks) /\ Len(q1) = k + 1 /\ DOMAIN q1 = 1 .. k + 1
        /\ q1[k + 1] = i /\ \A n \in 1 .. k : q1[n] = q[n]
    BY <2>1
  <2>3. len1 \in Nat /\ k + 1 <= len1
    <3>1. FreeListFirst \in Nat \ {0}
      BY MemCacheAssumption
    <3>2. grown \in Nat /\ (k = len => k + 1 <= grown)
      BY <2>1, <3>1
    <3> HIDE DEF grown, k
    <3>3. QED
      BY <2>1, <3>2
  <2> HIDE DEF q1, len1
  <2>4. /\ new \in Slab /\ new.free_chunk_list = q1 /\ new.end_page_ptr = sl.end_page_ptr
        /\ new.end_page_free = sl.end_page_free /\ new.page_total = sl.page_total
        /\ new.free_chunk_list_length = len1
    BY <1>3, <2>1, <2>2, <2>3 DEF Slab
  <2>5. EndIn(new) = EndIn(sl)
    BY <2>4 DEF EndIn
  <2> HIDE DEF kept
  <2>6. i[2] <= sl.page_total /\ i \notin EndIn(sl)
    BY DEF SlabGood, UsedGood
  <2>7. /\ \A n \in DOMAIN q : /\ q[n][1] = id /\ q[n][2] <= sl.page_total
                               /\ q[n] \notin U /\ q[n] \notin EndIn(sl)
        /\ \A m, n \in DOMAIN q : q[m] = q[n] => m = n
    BY DEF SlabGood, ListGood
  <2> HIDE DEF q, k, len
  <2>8. ListGood(id, new, U \ {i})
    <3>1. \A n \in DOMAIN q1 : n \in DOMAIN q \/ n = k + 1
      BY <2>1, <2>2
    <3>2. \A n \in DOMAIN q1 :
            /\ q1[n][1] = id /\ q1[n][2] <= sl.page_total
            /\ q1[n] \notin U \ {i} /\ q1[n] \notin EndIn(sl)
      BY <2>1, <2>2, <2>6, <2>7, <3>1
    <3>3. \A n \in DOMAIN q : q1[n] # q1[k + 1]
      BY <2>1, <2>2, <2>7
    <3>4. \A m, n \in DOMAIN q1 : q1[m] = q1[n] => m = n
      BY <2>1, <2>2, <2>7, <3>1, <3>3
    <3>5. QED
      BY <2>4, <2>5, <3>2, <3>4 DEF ListGood
  <2>9. SlabGood(id, new, U \ {i})
    <3>1. UsedGood(id, new, U \ {i})
      BY <2>4, <2>5 DEF SlabGood, UsedGood
    <3>2. EndInLastPage(id, new)
      BY <2>4 DEF SlabGood, EndInLastPage
    <3>3. QED
      BY <2>2, <2>3, <2>4, <2>8, <3>1, <3>2 DEF SlabGood
  <2>10. ListedIn(new) = ListedIn(sl) \cup {i}
    <3>1. \A n \in DOMAIN q : n \in DOMAIN q1 /\ q1[n] = q[n]
      BY <2>1, <2>2
    <3>2. /\ k + 1 \in DOMAIN q1 /\ q1[k + 1] = i
          /\ \A n \in DOMAIN q1 : n \in DOMAIN q \/ n = k + 1
      BY <2>1, <2>2
    <3>3. ListedIn(sl) = {q[n] : n \in DOMAIN q} /\ ListedIn(new) = {q1[n] : n \in DOMAIN q1}
      BY <2>4 DEF ListedIn, q
    <3>4. QED
      BY <3>1, <3>2, <3>3
  <2>11. NoneLost(id, sl, U) => NoneLost(id, new, U \ {i})
    BY <2>4, <2>5, <2>10 DEF NoneLost
  <2>12. FreeIn(new) = FreeIn(sl) \cup {i}
    BY <2>5, <2>10 DEF FreeIn
  <2>13. QED
    BY <2>4, <2>9, <2>11, <2>12
<1>4. QED
  BY <1>1, <1>2, <1>3

\* What another class does to the chunks in use does not concern this one.
LEMMA OtherGood ==
  ASSUME NEW id, NEW sl, NEW U \in SUBSET Chunks, SlabGood(id, sl, U),
         NEW V \in SUBSET Chunks, \A i \in Chunks : i[1] = id => (i \in U <=> i \in V)
  PROVE  /\ SlabGood(id, sl, V)
         /\ NoneLost(id, sl, U) => NoneLost(id, sl, V)
<1>1. sl.free_chunk_list \in Seq(Chunks)
  BY SlabFields DEF SlabGood
<1>2. ListGood(id, sl, V)
  BY <1>1 DEF SlabGood, ListGood
<1>3. UsedGood(id, sl, V)
  BY DEF SlabGood, UsedGood
<1>4. QED
  BY <1>2, <1>3 DEF SlabGood, NoneLost

-----------------------------------------------------------------------------
(* All classes *)

AllGood == \A id \in Classes : SlabGood(id, slab[id], used)

\* Nothing is lost as long as no realloc fails.
AllThere == ReallocMayFail \/ \A id \in Classes : NoneLost(id, slab[id], used)

\* EachChunkOnce is not inductive: it needs the place of end_page_ptr in the
\* last page, so that cutting it off leaves the rest of that page, and the
\* pages of the chunks in use, so that a new page has none of them.
IInv == TypeOK /\ AllGood /\ AllThere

\* A class gets a new slab, and the chunks in use change by one of its chunks.
LEMMA ClassStep ==
  ASSUME IInv, NEW id \in Classes, NEW sl, NEW V \in SUBSET Chunks,
         SlabGood(id, sl, V),
         ReallocMayFail \/ (NoneLost(id, slab[id], used) => NoneLost(id, sl, V)),
         \A i \in Chunks : i[1] # id => (i \in used <=> i \in V),
         slab' = [slab EXCEPT ![id] = sl], used' = V,
         mem_malloced' \in Nat, ret' \in Chunks \cup {NULL}
  PROVE  IInv'
<1>1. slab \in [Classes -> Slab] /\ used \in SUBSET Chunks /\ sl \in Slab
  BY DEF IInv, TypeOK, SlabGood
<1>2. TypeOK'
  BY <1>1 DEF TypeOK
<1>3. slab'[id] = sl /\ \A d \in Classes \ {id} : slab'[d] = slab[d]
  BY <1>1
<1>4. \A d \in Classes \ {id} :
        /\ SlabGood(d, slab[d], V)
        /\ NoneLost(d, slab[d], used) => NoneLost(d, slab[d], V)
  <2> TAKE d \in Classes \ {id}
  <2>1. SlabGood(d, slab[d], used)
    BY DEF IInv, AllGood
  <2>2. \A i \in Chunks : i[1] = d => (i \in used <=> i \in V)
    OBVIOUS
  <2>3. QED
    BY <1>1, <2>1, <2>2, OtherGood
<1>5. AllGood'
  <2> SUFFICES ASSUME NEW d \in Classes
               PROVE  SlabGood(d, slab'[d], V)
    BY DEF AllGood
  <2>1. CASE d = id
    BY <1>3, <2>1
  <2>2. CASE d # id
    BY <1>3, <1>4, <2>2
  <2>3. QED
    BY <2>1, <2>2
<1>6. AllThere'
  <2> SUFFICES ASSUME ~ ReallocMayFail, NEW d \in Classes
               PROVE  NoneLost(d, slab'[d], V)
    BY DEF AllThere
  <2>1. NoneLost(d, slab[d], used)
    BY DEF IInv, AllThere
  <2>2. CASE d = id
    BY <1>3, <2>1, <2>2
  <2>3. CASE d # id
    BY <1>3, <1>4, <2>1, <2>3
  <2>4. QED
    BY <2>2, <2>3
<1>7. QED
  BY <1>2, <1>5, <1>6 DEF IInv

\* A chunk of the class is handed out.
LEMMA TakeStep ==
  ASSUME IInv, NEW id \in Classes, NEW sl, NEW i \in Chunks, i[1] = id,
         SlabGood(id, sl, used \cup {i}),
         NoneLost(id, slab[id], used) => NoneLost(id, sl, used \cup {i}),
         Take(id, sl, i)
  PROVE  IInv'
<1>1. used \cup {i} \in SUBSET Chunks /\ mem_malloced \in Nat
  BY DEF IInv, TypeOK
<1>2. mem_malloced' \in Nat
  BY <1>1, MemCacheAssumption DEF Take
<1>3. \A j \in Chunks : j[1] # id => (j \in used <=> j \in used \cup {i})
  OBVIOUS
<1>4. QED
  BY <1>1, <1>2, <1>3, ClassStep DEF Take

\* mem_cache_alloc preserves the invariant.
LEMMA AllocStep ==
  ASSUME IInv, NEW id \in Classes, mem_cache_alloc(id)
  PROVE  IInv'
<1> DEFINE sl == slab[id]
           new == slab_new_page(sl, id)
<1>1. SlabGood(id, sl, used) /\ used \in SUBSET Chunks
  BY DEF IInv, AllGood, TypeOK
<1>2. CASE Fail
  BY <1>2 DEF Fail, IInv, TypeOK, AllGood, AllThere
<1>3. CASE /\ sl.free_chunk_list # <<>>
           /\ Take(id, PopFree(sl), Last(sl.free_chunk_list))
  BY <1>1, <1>3, PopGood, TakeStep
<1>4. CASE /\ sl.end_page_ptr # NULL
           /\ Take(id, CutPage(sl), sl.end_page_ptr)
  BY <1>1, <1>4, CutGood, TakeStep
<1>5. CASE /\ sl.end_page_ptr = NULL /\ sl.page_total < MaxPages
           /\ Take(id, CutPage(new), new.end_page_ptr)
  <2> HIDE DEF new
  <2>1. /\ new.end_page_ptr # NULL /\ SlabGood(id, new, used)
        /\ NoneLost(id, sl, used) => NoneLost(id, new, used)
    BY <1>1, <1>5, NewPageGood DEF new
  <2>2. /\ new.end_page_ptr \in Chunks /\ new.end_page_ptr[1] = id
        /\ SlabGood(id, CutPage(new), used \cup {new.end_page_ptr})
        /\ NoneLost(id, new, used) => NoneLost(id, CutPage(new), used \cup {new.end_page_ptr})
    BY <2>1, CutGood
  <2>3. QED
    BY <1>5, <2>1, <2>2, TakeStep
<1>6. QED
  BY <1>2, <1>3, <1>4, <1>5 DEF mem_cache_alloc

\* So does mem_cache_free.
LEMMA FreeStep ==
  ASSUME IInv, NEW i \in Chunks, mem_cache_free(i)
  PROVE  IInv'
<1> DEFINE id == i[1]
<1>1. id \in Classes /\ i \in used /\ used \ {i} \in SUBSET Chunks
  BY ChunkParts DEF mem_cache_free, IInv, TypeOK
<1>2. PICK sl \in slab_free_chunk(slab[id], i) : slab' = [slab EXCEPT ![id] = sl]
  BY DEF mem_cache_free
<1>3. /\ used' = used \ {i} /\ ret' = NULL /\ mem_malloced' \in Nat
  BY DEF mem_cache_free, IInv, TypeOK
<1>4. SlabGood(id, slab[id], used) /\ used \in SUBSET Chunks
  BY <1>1 DEF IInv, AllGood, TypeOK
<1>5. \A j \in Chunks : j[1] # id => (j \in used <=> j \in used \ {i})
  OBVIOUS
<1> HIDE DEF id
<1>6. /\ SlabGood(id, sl, used \ {i})
      /\ ReallocMayFail \/ (NoneLost(id, slab[id], used) => NoneLost(id, sl, used \ {i}))
  BY <1>1, <1>2, <1>4, FreeGood DEF id
<1>7. QED
  BY <1>1, <1>2, <1>3, <1>5, <1>6, ClassStep

\* mem_cache_create: each class is empty, or has one page.
LEMMA InitIInv == Init => IInv
<1> SUFFICES ASSUME Init
             PROVE  IInv
  OBVIOUS
<1>1. \A id \in Classes : SlabGood(id, EmptySlab, {}) /\ NoneLost(id, EmptySlab, {})
  <2> TAKE id \in Classes
  <2>1. /\ EmptySlab.end_page_ptr = NULL /\ EmptySlab.end_page_free = 0
        /\ EmptySlab.page_total = 0 /\ EmptySlab.free_chunk_list = <<>>
        /\ EmptySlab.free_chunk_list_length = 0
    BY DEF EmptySlab
  <2>2. EmptySlab \in Slab
    BY DEF EmptySlab, Slab
  <2>3. MaxPages \in Nat /\ \A i \in Chunks : ~ (i[2] <= 0)
    BY ChunkParts, MemCacheAssumption
  <2>4. Len(<<>>) = 0 /\ DOMAIN <<>> = {}
    OBVIOUS
  <2>5. QED
    BY <2>1, <2>2, <2>3, <2>4
       DEF SlabGood, EndInLastPage, ListGood, UsedGood, NoneLost
<1>2. \A id \in Classes : SlabGood(id, slab_create(id), {}) /\ NoneLost(id, slab_create(id), {})
  <2> TAKE id \in Classes
  <2>1. EmptySlab.end_page_ptr = NULL /\ EmptySlab.page_total < MaxPages
    BY MemCacheAssumption DEF EmptySlab
  <2>2. QED
    BY <1>1, <2>1, NewPageGood DEF slab_create
<1>3. used = {} /\ slab = [id \in Classes |-> slab_create(id)]
  BY DEF Init
<1>4. AllGood /\ AllThere
  BY <1>2, <1>3 DEF AllGood, AllThere
<1>5. TypeOK
  <2>1. slab \in [Classes -> Slab]
    BY <1>2, <1>3 DEF SlabGood
  <2>2. QED
    BY <2>1, MemCacheAssumption DEF Init, TypeOK
<1>6. QED
  BY <1>4, <1>5 DEF IInv

\* Every call preserves the invariant.
LEMMA NextIInv == IInv /\ [Next]_vars => IInv'
<1> SUFFICES ASSUME IInv, [Next]_vars
             PROVE  IInv'
  OBVIOUS
<1>1. CASE \E id \in Classes : mem_cache_alloc(id)
  BY <1>1, AllocStep
<1>2. CASE \E i \in Chunks : mem_cache_free(i)
  BY <1>2, FreeStep
<1>3. CASE UNCHANGED vars
  BY <1>3 DEF vars, IInv, TypeOK, AllGood, AllThere
<1>4. QED
  BY <1>1, <1>2, <1>3 DEF Next

\* The invariant holds after any sequence of calls.
LEMMA SpecIInv == Spec => []IInv
BY InitIInv, NextIInv, PTL DEF Spec

-----------------------------------------------------------------------------
(* What it implies *)

\* The chunks of one page from a place on are as many as the places.
LEMMA EndCount ==
  ASSUME NEW id \in Classes, NEW sl, NEW U, SlabGood(id, sl, U)
  PROVE  Cardinality(EndIn(sl)) = sl.end_page_free
<1> DEFINE p == sl.end_page_ptr
           c == chunk_number_per_page[id]
<1>1. CASE p = NULL
  <2>1. EndIn(sl) = {} /\ sl.end_page_free = 0
    BY <1>1 DEF EndIn, SlabGood, EndInLastPage
  <2>2. QED
    BY <2>1, FS_EmptySet
<1>2. CASE p # NULL
  <2> DEFINE f == [m \in p[3] .. c |-> <<p[1], p[2], m>>]
  <2>1. /\ p \in Chunks /\ p[1] = id /\ p[3] + sl.end_page_free = c + 1
        /\ sl.end_page_free \in Nat
    BY <1>2, SlabFields DEF SlabGood, EndInLastPage
  <2>2. p[1] \in Classes /\ p[2] \in 1 .. MaxPages /\ p[3] \in Nat \ {0} /\ c \in Nat
    <3>1. page_size \in Nat /\ c \in 1 .. page_size /\ p[3] \in 1 .. page_size
      BY <2>1, ChunkParts, MemCacheAssumption
    <3>2. QED
      BY <2>1, <3>1, ChunkParts
  <2>3. EndIn(sl) = {i \in Chunks : i[1] = p[1] /\ i[2] = p[2] /\ i[3] >= p[3]}
    BY <1>2 DEF EndIn
  <2>4. \A m \in p[3] .. c : f[m] \in EndIn(sl)
    <3> TAKE m \in p[3] .. c
    <3>1. m \in Nat \ {0} /\ m <= c /\ m >= p[3]
      BY <2>2
    <3>2. <<p[1], p[2], m>> \in Chunks
      BY <2>1, <2>2, <3>1, ChunkMade
    <3>3. QED
      BY <2>3, <3>1, <3>2
  <2>5. \A i \in EndIn(sl) : \E m \in p[3] .. c : f[m] = i
    <3> TAKE i \in EndIn(sl)
    <3>1. i \in Chunks /\ i[1] = p[1] /\ i[2] = p[2] /\ i[3] >= p[3]
      BY <2>3
    <3>2. i[3] \in 1 .. page_size /\ page_size \in Nat /\ i[3] <= c /\ i = <<p[1], p[2], i[3]>>
      BY <2>1, <3>1, ChunkParts, MemCacheAssumption
    <3>3. i[3] \in p[3] .. c
      BY <2>2, <3>1, <3>2
    <3>4. QED
      BY <3>2, <3>3
  <2>6. \A m, n \in p[3] .. c : f[m] = f[n] => m = n
    OBVIOUS
  <2> HIDE DEF f, p, c
  <2>7. f \in Bijection(p[3] .. c, EndIn(sl))
    <3>1. f \in [p[3] .. c -> EndIn(sl)]
      BY <2>4 DEF f
    <3>2. QED
      BY <2>5, <2>6, <3>1, Fun_IsBij
  <2>8. Cardinality(EndIn(sl)) = Cardinality(p[3] .. c)
    <3>1. ExistsBijection(p[3] .. c, EndIn(sl))
      BY <2>7, Fun_ExistsBij
    <3>2. IsFiniteSet(p[3] .. c)
      BY <2>2, FS_Interval, SMTT(60)
    <3>3. QED
      BY <3>1, <3>2, FS_Bijection
  <2>9. Cardinality(p[3] .. c) = IF p[3] > c THEN 0 ELSE c - p[3] + 1
    <3>1. p[3] \in Int /\ c \in Int
      BY <2>2
    <3>2. \A a, b \in Int : Cardinality(a .. b) = IF a > b THEN 0 ELSE b - a + 1
      BY FS_Interval
    <3>3. QED
      BY <3>1, <3>2
  <2>10. (IF p[3] > c THEN 0 ELSE c - p[3] + 1) = sl.end_page_free
    BY <2>1, <2>2
  <2>11. QED
    BY <2>8, <2>9, <2>10
<1>3. QED
  BY <1>1, <1>2

\* The components of IInv are the invariants that the runs check.
LEMMA IInvImplies ==
  IInv => EachChunkOnce /\ ListInsideArray /\ EndPageAgrees
<1> SUFFICES ASSUME IInv, NEW id \in Classes
             PROVE  /\ \A m, n \in DOMAIN slab[id].free_chunk_list :
                         slab[id].free_chunk_list[m] = slab[id].free_chunk_list[n] => m = n
                    /\ Listed(id) \cap EndOfPage(id) = {}
                    /\ Free(id) \cap used = {}
                    /\ Free(id) \subseteq Mapped(id)
                    /\ Len(slab[id].free_chunk_list) <= slab[id].free_chunk_list_length
                    /\ slab[id].end_page_free = Cardinality(EndOfPage(id))
  BY DEF EachChunkOnce, ListInsideArray, EndPageAgrees
<1> DEFINE sl == slab[id]
<1>1. SlabGood(id, sl, used) /\ used \in SUBSET Chunks
  BY DEF IInv, AllGood, TypeOK
<1>2. Listed(id) = ListedIn(sl) /\ EndOfPage(id) = EndIn(sl)
  BY DEF Listed, EndOfPage, ListedIn, EndIn
<1>3. Mapped(id) = {i \in Chunks : i[1] = id /\ i[2] <= sl.page_total}
  BY DEF Mapped
<1> HIDE DEF sl
<1>4. \A i \in ListedIn(sl) :
        i \in Chunks /\ i[1] = id /\ i[2] <= sl.page_total /\ i \notin used /\ i \notin EndIn(sl)
  <2>1. \A n \in DOMAIN sl.free_chunk_list : sl.free_chunk_list[n] \in Chunks
    BY <1>1, SlabFields DEF SlabGood
  <2>2. QED
    BY <1>1, <2>1 DEF SlabGood, ListGood, ListedIn
<1>5. \A i \in EndIn(sl) : i \in Chunks /\ i[1] = id /\ i[2] <= sl.page_total /\ i \notin used
  <2>1. \A i \in EndIn(sl) : i \in Chunks /\ i[1] = id /\ i[2] = sl.page_total
    BY <1>1 DEF SlabGood, EndInLastPage, EndIn
  <2>2. sl.page_total \in Nat
    BY <1>1, SlabFields DEF SlabGood
  <2>3. QED
    BY <1>1, <2>1, <2>2 DEF SlabGood, UsedGood
<1>6. Free(id) = ListedIn(sl) \cup EndIn(sl)
  BY <1>2 DEF Free
<1>7. /\ \A m, n \in DOMAIN sl.free_chunk_list :
           sl.free_chunk_list[m] = sl.free_chunk_list[n] => m = n
      /\ Len(sl.free_chunk_list) <= sl.free_chunk_list_length
  BY <1>1 DEF SlabGood, ListGood
<1>8. sl.end_page_free = Cardinality(EndIn(sl))
  BY <1>1, EndCount
<1>9. QED
  BY <1>2, <1>3, <1>4, <1>5, <1>6, <1>7, <1>8 DEF sl

\* The globals of the allocator keep their types (slab.c, mem_cache.c).
THEOREM TypeCorrect == Spec => []TypeOK
<1>1. IInv => TypeOK
  BY DEF IInv
<1>2. QED
  BY <1>1, SpecIInv, PTL

\* Whatever the number of classes, the sizes of pages and chunks and the order
\* of the calls, a chunk is in one place, and slab_alloc_chunk never hands out
\* one that is in use (slab.c:98-109, 123-127).
THEOREM ChunkInOnePlace == Spec => []EachChunkOnce
BY IInvImplies, SpecIInv, PTL

\* slab_free_chunk never writes behind the array of the free list, at any
\* first size and after any number of doublings (slab.c:118-127).
THEOREM ListFits == Spec => []ListInsideArray
BY IInvImplies, SpecIInv, PTL

\* end_page_free counts the chunks from end_page_ptr to the end of the page,
\* so a class never refuses a new page for ever (slab.c:70, 103-108).
THEOREM EndPageCounted == Spec => []EndPageAgrees
BY IInvImplies, SpecIInv, PTL

\* As long as the realloc of the free list succeeds, no chunk is lost
\* (slab.c:64-127).
THEOREM NothingLost ==
  ASSUME ~ ReallocMayFail
  PROVE  Spec => []NoChunkLost
<1>1. IInv => NoChunkLost
  BY DEF IInv, AllThere, NoneLost, NoChunkLost, Mapped, Free, Listed, EndOfPage,
         ListedIn, EndIn
<1>2. QED
  BY <1>1, SpecIInv, PTL

-----------------------------------------------------------------------------
(* The memory obtained, counted in pages *)

\* mem_malloced started at the number of classes and grew by whole pages.
Counted(m) == \E n \in Nat : m = power_largest + n * page_size

PagesOf(m) == (m - power_largest) \div page_size
PageLimit == (mem_limit - power_largest + page_size - 1) \div page_size

\* What division is.
LEMMA Floor ==
  ASSUME NEW a \in Int, NEW b \in Nat \ {0}
  PROVE  LET q == a \div b IN q \in Int /\ b * q <= a /\ a < b * q + b
<1>1. a \div b \in Int
  OBVIOUS
<1>2. b * (a \div b) <= a
  OBVIOUS
<1>3. a < b * (a \div b) + b
  OBVIOUS
<1>4. QED
  BY <1>1, <1>2, <1>3

\* The quotient is the only such number.
LEMMA Division ==
  ASSUME NEW a \in Int, NEW b \in Nat \ {0}, NEW n \in Int, b * n <= a, a < b * n + b
  PROVE  a \div b = n
OBVIOUS

\* The count in pages is exact, a new page adds one to it, and the limit in
\* bytes is met exactly when the limit in pages is.
LEMMA Counting ==
  ASSUME NEW n \in Nat
  PROVE  LET m == power_largest + n * page_size
         IN  /\ PagesOf(m) = n
             /\ m + page_size = power_largest + (n + 1) * page_size
             /\ m >= mem_limit <=> n >= PageLimit
<1> DEFINE x == mem_limit - power_largest
           L == PageLimit
<1>1. page_size \in Nat \ {0} /\ power_largest \in Nat /\ mem_limit \in Nat
  BY MemCacheAssumption
<1>2. n * page_size \in Nat /\ (n + 1) * page_size = n * page_size + page_size
  BY <1>1
<1>3. PagesOf(power_largest + n * page_size) = n
  <2>1. (power_largest + n * page_size) - power_largest = n * page_size
    BY <1>1, <1>2
  <2>2. page_size * n = n * page_size
    BY <1>1
  <2>3. (n * page_size) \div page_size = n
    BY <1>1, <1>2, <2>2, Division
  <2>4. QED
    BY <2>1, <2>3, Zenon DEF PagesOf
<1>4. L \in Int /\ page_size * L <= x + page_size - 1 /\ x + page_size - 1 < page_size * L + page_size
  <2>1. x + page_size - 1 \in Int
    BY <1>1
  <2> DEFINE a == x + page_size - 1
             q == a \div page_size
  <2>2. a \in Int /\ L = q
    BY <2>1, Zenon DEF PageLimit
  <2> HIDE DEF a
  <2>3. q \in Int /\ page_size * q <= a /\ a < page_size * q + page_size
    BY <1>1, <2>2, Floor
  <2> HIDE DEF q
  <2>4. QED
    BY <2>2, <2>3 DEF a
<1>5. x \in Int
  BY <1>1
<1> HIDE DEF x, L
<1>6. n >= L => n * page_size >= x
  <2> SUFFICES ASSUME n >= L
               PROVE  n * page_size >= x
    OBVIOUS
  <2>1. n * page_size >= page_size * L /\ page_size * L \in Int
    BY <1>1, <1>4
  <2>2. QED
    BY <1>1, <1>2, <1>4, <1>5, <2>1
<1>7. n < L => n * page_size < x
  <2> SUFFICES ASSUME n < L
               PROVE  n * page_size < x
    OBVIOUS
  <2>1. n + 1 <= L
    BY <1>4
  <2>2. (n + 1) * page_size <= page_size * L /\ page_size * L \in Int
    BY <1>1, <1>4, <2>1
  <2>3. QED
    BY <1>1, <1>2, <1>4, <1>5, <2>2
<1>8. power_largest + n * page_size >= mem_limit <=> n >= L
  BY <1>1, <1>2, <1>4, <1>6, <1>7 DEF x
<1>9. QED
  BY <1>1, <1>2, <1>3, <1>8 DEF L

-----------------------------------------------------------------------------
(* The answers of the pool *)

\* Classes, chunks and free chunks of the pool.
LEMMA PoolParts ==
  ASSUME NEW s, NEW id
  PROVE  /\ s.free \subseteq Chunks => Pool!FreeOf(s, id) = {i \in s.free : i[1] = id}
         /\ \A p : Pool!ChunksOf({p}) = {i \in Chunks : <<i[1], i[2]>> = p}
         /\ Pool!NewPages(s, id) = {p \in Pages \ s.pages : p[1] = id}
<1>1. \A i \in Chunks : Pool!ClassOf(i) = i[1]
  <2> TAKE i \in Chunks
  <2>1. <<i[1], i[2]>> \in Pages
    BY ChunkParts DEF Pages
  <2>2. QED
    BY <2>1 DEF Pool!ClassOf
<1>2. s.free \subseteq Chunks => Pool!FreeOf(s, id) = {i \in s.free : i[1] = id}
  BY <1>1 DEF Pool!FreeOf
<1>3. \A p : Pool!ChunksOf({p}) = {i \in Chunks : <<i[1], i[2]>> = p}
  BY DEF Pool!ChunksOf
<1>4. Pool!NewPages(s, id) = {p \in Pages \ s.pages : p[1] = id}
  BY DEF Pool!NewPages
<1>5. QED
  BY <1>2, <1>3, <1>4

\* The four answers of an allocation, each with its condition.
LEMMA PoolAnswers ==
  ASSUME NEW s, NEW id
  PROVE  LET answers == Pool!mem_cache_alloc(s, id)
         IN  /\ s.mem_malloced >= PageLimit => Pool!Outcome(s, NULL) \in answers
             /\ ~ (s.mem_malloced >= PageLimit) =>
                  /\ \A i \in Pool!FreeOf(s, id) : Pool!Outcome(Pool!TakeChunk(s, i), i) \in answers
                  /\ Pool!FreeOf(s, id) = {} =>
                       /\ CallocMayFail => Pool!Outcome(s, NULL) \in answers
                       /\ \A p \in Pool!NewPages(s, id) : \A i \in Pool!ChunksOf({p}) :
                            Pool!Outcome(Pool!TakeChunk(Pool!MapPage(s, p), i), i) \in answers
<1> DEFINE answers == Pool!mem_cache_alloc(s, id)
           grow == Pool!FreeOf(s, id) = {}
           taken == {Pool!Outcome(Pool!TakeChunk(s, i), i) : i \in Pool!FreeOf(s, id)}
           mapped == UNION {{Pool!Outcome(Pool!TakeChunk(Pool!MapPage(s, p), i), i) :
                               i \in Pool!ChunksOf({p})} :
                              p \in IF grow THEN Pool!NewPages(s, id) ELSE {}}
           failed == {Pool!Outcome(s, NULL) : x \in IF grow /\ CallocMayFail THEN {1} ELSE {}}
<1>1. answers = IF s.mem_malloced >= PageLimit THEN {Pool!Outcome(s, NULL)}
                ELSE taken \cup mapped \cup failed
  BY DEF Pool!mem_cache_alloc, PageLimit
<1>2. \A i \in Pool!FreeOf(s, id) : Pool!Outcome(Pool!TakeChunk(s, i), i) \in taken
  OBVIOUS
<1>3. grow => \A p \in Pool!NewPages(s, id) : \A i \in Pool!ChunksOf({p}) :
                Pool!Outcome(Pool!TakeChunk(Pool!MapPage(s, p), i), i) \in mapped
  BY SMTT(60)
<1>4. grow /\ CallocMayFail => Pool!Outcome(s, NULL) \in failed
  OBVIOUS
<1> HIDE DEF answers, taken, mapped, failed
<1>5. QED
  BY <1>1, <1>2, <1>3, <1>4 DEF answers

-----------------------------------------------------------------------------
(* How the state of the pool follows that of the classes *)

AllFree == UNION {Free(id) : id \in Classes}
MappedPages == {p \in Pages : p[2] <= slab[p[1]].page_total}
MemCounted == Counted(mem_malloced)

\* One class changes: its chunks A become free, its chunks B no longer are.
LEMMA FreeChange ==
  ASSUME IInv, NEW id \in Classes, \A d \in Classes \ {id} : slab'[d] = slab[d],
         NEW A, NEW B, \A i \in B : i[1] = id,
         FreeIn(slab'[id]) = (FreeIn(slab[id]) \cup A) \ B
  PROVE  AllFree' = (AllFree \cup A) \ B
<1>1. \A d \in Classes : Free(d) = FreeIn(slab[d]) /\ Free(d)' = FreeIn(slab'[d])
  BY DEF Free, Listed, EndOfPage, FreeIn, ListedIn, EndIn
<1>2. \A d \in Classes : \A i \in FreeIn(slab[d]) : i[1] = d
  BY <1>1, IInvImplies DEF EachChunkOnce, Mapped
<1>3. AllFree = UNION {FreeIn(slab[d]) : d \in Classes}
  BY <1>1 DEF AllFree
<1>4. AllFree' = UNION {FreeIn(slab'[d]) : d \in Classes}
  BY <1>1 DEF AllFree
<1>5. \A i : i \in AllFree' <=> i \in (AllFree \cup A) \ B
  <2> TAKE i
  <2>1. i \in AllFree <=> \E d \in Classes : i \in FreeIn(slab[d])
    BY <1>3
  <2>2. i \in AllFree' <=> \E d \in Classes : i \in FreeIn(slab'[d])
    BY <1>4
  <2>3. \A d \in Classes \ {id} : i \in FreeIn(slab'[d]) <=> i \in FreeIn(slab[d]) /\ i \notin B
    BY <1>2
  <2>4. i \in FreeIn(slab'[id]) <=> (i \in FreeIn(slab[id]) \/ i \in A) /\ i \notin B
    OBVIOUS
  <2>5. QED
    BY <2>1, <2>2, <2>3, <2>4
<1>6. QED
  BY <1>5

\* The pages of a class that gets no new page, or one.
LEMMA PagesChange ==
  ASSUME IInv, NEW id \in Classes, NEW new, slab' = [slab EXCEPT ![id] = new],
         NEW n, n = slab[id].page_total
  PROVE  /\ new.page_total = n => MappedPages' = MappedPages
         /\ new.page_total = n + 1 /\ n < MaxPages =>
              /\ <<id, n + 1>> \in Pages \ MappedPages
              /\ MappedPages' = MappedPages \cup {<<id, n + 1>>}
<1>1. /\ slab'[id] = new /\ slab[id] \in Slab /\ n \in Nat
      /\ \A d \in Classes \ {id} : slab'[d] = slab[d]
  BY SlabFields DEF IInv, TypeOK
<1>2. \A p \in Pages : p[1] \in Classes /\ p[2] \in Nat /\ p = <<p[1], p[2]>>
  BY MemCacheAssumption DEF Pages
<1>3. new.page_total = n => MappedPages' = MappedPages
  BY <1>1, <1>2 DEF MappedPages
<1>4. ASSUME new.page_total = n + 1, n < MaxPages
      PROVE  /\ <<id, n + 1>> \in Pages \ MappedPages
             /\ MappedPages' = MappedPages \cup {<<id, n + 1>>}
  <2>1. n + 1 \in 1 .. MaxPages /\ ~ (n + 1 <= n)
    BY <1>1, <1>4, MemCacheAssumption
  <2>2. <<id, n + 1>> \in Pages /\ <<id, n + 1>> \notin MappedPages
    BY <2>1 DEF Pages, MappedPages
  <2>3. \A p \in Pages : p \in MappedPages' <=> p \in MappedPages \/ p = <<id, n + 1>>
    <3> TAKE p \in Pages
    <3>1. p \in MappedPages <=> p[2] <= slab[p[1]].page_total
      BY DEF MappedPages
    <3>2. p \in MappedPages' <=> p[2] <= slab'[p[1]].page_total
      BY DEF MappedPages
    <3>3. CASE p[1] = id
      <4>1. p[2] <= n + 1 <=> p[2] <= n \/ p[2] = n + 1
        BY <1>1, <1>2
      <4>2. p = <<id, n + 1>> <=> p[2] = n + 1
        BY <1>2, <3>3
      <4>3. QED
        BY <1>1, <1>4, <3>1, <3>2, <3>3, <4>1, <4>2
    <3>4. CASE p[1] # id
      BY <1>1, <1>2, <3>1, <3>2, <3>4
    <3>5. QED
      BY <3>3, <3>4
  <2>4. MappedPages \subseteq Pages /\ MappedPages' \subseteq Pages
    BY DEF MappedPages
  <2>5. QED
    BY <2>2, <2>3, <2>4
<1>5. QED
  BY <1>3, <1>4

\* The chunks that the pool may give class id are those free in its slab.
LEMMA FreeOfClass ==
  ASSUME IInv, NEW id \in Classes
  PROVE  Pool!FreeOf(pool, id) = FreeIn(slab[id])
<1>1. \A d \in Classes : Free(d) = FreeIn(slab[d]) /\ \A i \in Free(d) : i \in Chunks /\ i[1] = d
  BY IInvImplies DEF EachChunkOnce, Mapped, Free, Listed, EndOfPage, FreeIn, ListedIn, EndIn
<1>2. pool.free = UNION {Free(d) : d \in Classes}
  BY DEF pool
<1>3. pool.free \subseteq Chunks
  BY <1>1, <1>2
<1>4. Pool!FreeOf(pool, id) = {i \in pool.free : i[1] = id}
  <2> HIDE DEF pool
  <2>1. QED
    BY <1>3, PoolParts
<1>5. QED
  BY <1>1, <1>2, <1>4

-----------------------------------------------------------------------------
(* Every call of MemCache is a call of the pool *)

\* The pool as a record of its pages, its free chunks and its count.
Store(P, F, m) == [pages |-> P, free |-> F, mem_malloced |-> m]

\* The pool without a chunk, and with a chunk more.
LEMMA PoolSteps ==
  ASSUME NEW P, NEW F, NEW m, NEW i, NEW F1
  PROVE  /\ F1 = F \ {i} => Pool!TakeChunk(Store(P, F, m), i) = Store(P, F1, m)
         /\ F1 = F \cup {i} => Pool!mem_cache_free(Store(P, F, m), i) = Store(P, F1, m)
<1> DEFINE s == [pages |-> P, free |-> F, mem_malloced |-> m]
<1>1. Pool!TakeChunk(s, i) = [pages |-> P, free |-> F \ {i}, mem_malloced |-> m]
  BY DEF Pool!TakeChunk
<1>2. Pool!mem_cache_free(s, i) = [pages |-> P, free |-> F \cup {i}, mem_malloced |-> m]
  BY DEF Pool!mem_cache_free
<1>3. F1 = F \ {i} => Pool!TakeChunk(s, i) = [pages |-> P, free |-> F1, mem_malloced |-> m]
  BY <1>1, Zenon
<1>4. F1 = F \cup {i} => Pool!mem_cache_free(s, i) = [pages |-> P, free |-> F1, mem_malloced |-> m]
  BY <1>2, Zenon
<1>5. QED
  BY <1>3, <1>4, Zenon DEF Store

\* The pool with a page more, and without one of its chunks.
LEMMA PoolGrows ==
  ASSUME NEW P, NEW F, NEW m, NEW p, NEW i, NEW P1, NEW F1, NEW m1,
         P1 = P \cup {p}, F1 = (F \cup Pool!ChunksOf({p})) \ {i}, m1 = m + 1
  PROVE  Pool!TakeChunk(Pool!MapPage(Store(P, F, m), p), i) = Store(P1, F1, m1)
<1> DEFINE s == [pages |-> P, free |-> F, mem_malloced |-> m]
           F2 == F \cup Pool!ChunksOf({p})
<1>1. Pool!MapPage(s, p) = [s EXCEPT !.pages = P1, !.free = F2, !.mem_malloced = m1]
  <2>1. s.pages = P /\ s.free = F /\ s.mem_malloced = m
    OBVIOUS
  <2>2. Pool!MapPage(s, p) = [s EXCEPT !.pages = s.pages \cup {p},
                                       !.free = s.free \cup Pool!ChunksOf({p}),
                                       !.mem_malloced = s.mem_malloced + 1]
    BY Zenon DEF Pool!MapPage
  <2> HIDE DEF s
  <2>3. QED
    BY <2>1, <2>2, Zenon
<1>2. [s EXCEPT !.pages = P1, !.free = F2, !.mem_malloced = m1] = Store(P1, F2, m1)
  <2> DEFINE t == [pages |-> P1, free |-> F2, mem_malloced |-> m1]
  <2> HIDE DEF F2
  <2>1. [s EXCEPT !.pages = P1] = [pages |-> P1, free |-> F, mem_malloced |-> m]
    OBVIOUS
  <2>2. [[pages |-> P1, free |-> F, mem_malloced |-> m] EXCEPT !.free = F2] =
          [pages |-> P1, free |-> F2, mem_malloced |-> m]
    OBVIOUS
  <2>3. [[pages |-> P1, free |-> F2, mem_malloced |-> m] EXCEPT !.mem_malloced = m1] = t
    BY SMTT(60)
  <2>4. t = Store(P1, F2, m1)
    BY Zenon DEF Store
  <2> HIDE DEF s, t
  <2>5. QED
    BY <2>1, <2>2, <2>3, <2>4, Zenon
<1>3. Pool!TakeChunk(Store(P1, F2, m1), i) = Store(P1, F1, m1)
  <2> HIDE DEF F2
  <2>1. F1 = F2 \ {i}
    BY DEF F2
  <2>2. QED
    BY <2>1, PoolSteps
<1>4. QED
  BY <1>1, <1>2, <1>3, Zenon DEF Store

\* The fields of the pool, and the limit.
LEMMA PoolFields ==
  ASSUME MemCounted
  PROVE  /\ pool = Store(MappedPages, AllFree, PagesOf(mem_malloced))
         /\ pool' = Store(MappedPages', AllFree', PagesOf(mem_malloced)')
         /\ pool.pages = MappedPages /\ pool.free = AllFree
         /\ pool.mem_malloced = PagesOf(mem_malloced) /\ PagesOf(mem_malloced) \in Nat
         /\ mem_malloced >= mem_limit <=> pool.mem_malloced >= PageLimit
<1>1. /\ pool = Store(MappedPages, AllFree, PagesOf(mem_malloced))
      /\ pool' = Store(MappedPages', AllFree', PagesOf(mem_malloced)')
  BY DEF pool, MappedPages, AllFree, PagesOf, Store
<1>2. /\ mem_malloced >= mem_limit <=> PagesOf(mem_malloced) >= PageLimit
      /\ PagesOf(mem_malloced) \in Nat
  <2>1. PICK n \in Nat : mem_malloced = power_largest + n * page_size
    BY DEF MemCounted, Counted
  <2>2. QED
    BY <2>1, Counting
<1>3. QED
  BY <1>1, <1>2 DEF Store

\* mem_malloced stays where it is or grows by a page.
LEMMA CountStep ==
  ASSUME MemCounted
  PROVE  /\ mem_malloced' = mem_malloced =>
              MemCounted' /\ PagesOf(mem_malloced') = PagesOf(mem_malloced)
         /\ mem_malloced' = mem_malloced + page_size =>
              MemCounted' /\ PagesOf(mem_malloced') = PagesOf(mem_malloced) + 1
<1>1. PICK n \in Nat : mem_malloced = power_largest + n * page_size
  BY DEF MemCounted, Counted
<1>2. PagesOf(mem_malloced) = n
  BY <1>1, Counting
<1>3. ASSUME mem_malloced' = mem_malloced + page_size
      PROVE  MemCounted' /\ PagesOf(mem_malloced') = n + 1
  <2>1. mem_malloced' = power_largest + (n + 1) * page_size
    BY <1>1, <1>3, Counting
  <2>2. n + 1 \in Nat
    OBVIOUS
  <2>3. PagesOf(power_largest + (n + 1) * page_size) = n + 1
    BY <2>2, Counting
  <2>4. QED
    BY <2>1, <2>2, <2>3 DEF MemCounted, Counted
<1>4. mem_malloced' = mem_malloced => MemCounted' /\ PagesOf(mem_malloced') = n
  BY <1>2 DEF MemCounted
<1>5. QED
  BY <1>2, <1>3, <1>4

\* What one call of the pool may do.
AllocSimulated == \E id \in Classes : Pool!Outcome(pool', ret') \in Pool!mem_cache_alloc(pool, id)
FreeSimulated == \E i \in used : ret' = NULL /\ pool' = Pool!mem_cache_free(pool, i)

\* A free chunk of the class is taken.
LEMMA TakeFree ==
  ASSUME IInv, MemCounted, NEW id \in Classes, NEW new, NEW i, i[1] = id,
         ~ (mem_malloced >= mem_limit), i \in FreeIn(slab[id]),
         FreeIn(new) = FreeIn(slab[id]) \ {i}, new.page_total = slab[id].page_total,
         Take(id, new, i)
  PROVE  AllocSimulated /\ MemCounted'
<1>1. slab' = [slab EXCEPT ![id] = new] /\ ret' = i /\ mem_malloced' = mem_malloced
  <2>1. slab[id].page_total \in Nat /\ mem_malloced \in Nat
    BY SlabFields DEF IInv, TypeOK
  <2>2. QED
    BY <2>1 DEF Take
<1>2. MemCounted' /\ PagesOf(mem_malloced)' = PagesOf(mem_malloced)
  BY <1>1, CountStep
<1>3. MappedPages' = MappedPages
  BY <1>1, PagesChange
<1>4. AllFree' = (AllFree \cup {}) \ {i}
  <2> DEFINE A == {}
             B == {i}
  <2>1. slab'[id] = new /\ \A d \in Classes \ {id} : slab'[d] = slab[d]
    BY <1>1 DEF IInv, TypeOK
  <2>2. FreeIn(slab'[id]) = (FreeIn(slab[id]) \cup A) \ B /\ \A j \in B : j[1] = id
    BY <2>1
  <2> HIDE DEF A, B
  <2>3. AllFree' = (AllFree \cup A) \ B
    BY <2>1, <2>2, FreeChange
  <2>4. QED
    BY <2>3 DEF A, B
<1>5. AllFree' = AllFree \ {i}
  BY <1>4
<1>6. pool' = Pool!TakeChunk(pool, i)
  <2> DEFINE m == PagesOf(mem_malloced)
  <2>1. pool = Store(MappedPages, AllFree, m) /\ pool' = Store(MappedPages, AllFree', m)
    BY <1>2, <1>3, PoolFields
  <2> HIDE DEF m
  <2>2. Pool!TakeChunk(Store(MappedPages, AllFree, m), i) = Store(MappedPages, AllFree', m)
    BY <1>5, PoolSteps
  <2>3. QED
    BY <2>1, <2>2, Zenon
<1>7. Pool!Outcome(Pool!TakeChunk(pool, i), i) \in Pool!mem_cache_alloc(pool, id)
  BY FreeOfClass, PoolFields, PoolAnswers
<1>8. QED
  BY <1>1, <1>2, <1>6, <1>7 DEF AllocSimulated

\* A chunk of a new page is taken.
LEMMA TakeNew ==
  ASSUME IInv, MemCounted, NEW id \in Classes, NEW new, NEW i, NEW n,
         n = slab[id].page_total, n < MaxPages, new.page_total = n + 1,
         ~ (mem_malloced >= mem_limit), FreeIn(slab[id]) = {},
         i \in Chunks, i[1] = id, i[2] = n + 1,
         FreeIn(new) = {j \in Chunks : j[1] = id /\ j[2] = n + 1} \ {i},
         Take(id, new, i)
  PROVE  AllocSimulated /\ MemCounted'
<1> DEFINE p == <<id, n + 1>>
           rest == {j \in Chunks : j[1] = id /\ j[2] = n + 1}
<1>1. slab' = [slab EXCEPT ![id] = new] /\ ret' = i /\ mem_malloced' = mem_malloced + page_size
  <2>1. n \in Nat /\ mem_malloced \in Nat
    BY SlabFields DEF IInv, TypeOK
  <2>2. n + 1 > n
    BY <2>1
  <2>3. QED
    BY <2>1, <2>2 DEF Take
<1>2. MemCounted' /\ PagesOf(mem_malloced)' = PagesOf(mem_malloced) + 1
  BY <1>1, CountStep
<1>3. p \in Pages \ MappedPages /\ MappedPages' = MappedPages \cup {p}
  BY <1>1, PagesChange
<1>4. AllFree' = (AllFree \cup rest) \ {i}
  <2> DEFINE B == {i}
  <2>1. slab'[id] = new /\ \A d \in Classes \ {id} : slab'[d] = slab[d]
    BY <1>1 DEF IInv, TypeOK
  <2>2. FreeIn(slab'[id]) = (FreeIn(slab[id]) \cup rest) \ B /\ \A j \in B : j[1] = id
    BY <2>1
  <2> HIDE DEF rest, B
  <2>3. AllFree' = (AllFree \cup rest) \ B
    BY <2>1, <2>2, FreeChange
  <2>4. QED
    BY <2>3 DEF B
<1>5. Pool!ChunksOf({p}) = rest /\ i \in rest
  <2>1. Pool!ChunksOf({p}) = {j \in Chunks : <<j[1], j[2]>> = p}
    BY PoolParts
  <2>2. QED
    BY <2>1
<1>6. p \in Pool!NewPages(pool, id)
  <2>1. Pool!NewPages(pool, id) = {q \in Pages \ pool.pages : q[1] = id}
    BY PoolParts
  <2>2. pool.pages = MappedPages /\ p[1] = id
    BY PoolFields
  <2> HIDE DEF p
  <2>3. QED
    BY <1>3, <2>1, <2>2
<1> HIDE DEF p, rest
<1>7. MappedPages' = MappedPages \cup {p} /\ AllFree' = (AllFree \cup Pool!ChunksOf({p})) \ {i}
  BY <1>3, <1>4, <1>5
<1>8. pool' = Pool!TakeChunk(Pool!MapPage(pool, p), i)
  <2> DEFINE m == PagesOf(mem_malloced)
             m1 == PagesOf(mem_malloced)'
  <2>1. pool = Store(MappedPages, AllFree, m) /\ pool' = Store(MappedPages', AllFree', m1)
    BY PoolFields
  <2>2. m1 = m + 1
    BY <1>2
  <2> HIDE DEF m, m1
  <2>3. Pool!TakeChunk(Pool!MapPage(Store(MappedPages, AllFree, m), p), i)
          = Store(MappedPages', AllFree', m1)
    BY <1>7, <2>2, PoolGrows
  <2>4. QED
    BY <2>1, <2>3, Zenon
<1>9. Pool!Outcome(Pool!TakeChunk(Pool!MapPage(pool, p), i), i) \in Pool!mem_cache_alloc(pool, id)
  BY <1>5, <1>6, FreeOfClass, PoolFields, PoolAnswers
<1>10. QED
  BY <1>1, <1>2, <1>8, <1>9 DEF AllocSimulated

\* An allocation of MemCache is one of the pool.
LEMMA SimulateAlloc ==
  ASSUME IInv, MemCounted, NEW id \in Classes, mem_cache_alloc(id)
  PROVE  AllocSimulated /\ MemCounted'
<1> DEFINE sl == slab[id]
           new == slab_new_page(sl, id)
           empty == sl.free_chunk_list = <<>> /\ sl.end_page_ptr = NULL
<1>1. SlabGood(id, sl, used) /\ used \in SUBSET Chunks /\ mem_malloced \in Nat
  BY DEF IInv, AllGood, TypeOK
<1>2. mem_limit \in Nat /\ (mem_malloced < mem_limit => ~ (mem_malloced >= mem_limit))
  BY <1>1, MemCacheAssumption
<1>3. empty => FreeIn(sl) = {}
  BY DEF FreeIn, ListedIn, EndIn
<1>4. CASE /\ mem_malloced >= mem_limit \/ (empty /\ CallocMayFail /\ mem_malloced < mem_limit)
           /\ Fail
  <2>1. pool' = pool /\ ret' = NULL /\ mem_malloced' = mem_malloced
    BY <1>4 DEF Fail, pool, Free, Listed, EndOfPage
  <2>2. Pool!Outcome(pool, NULL) \in Pool!mem_cache_alloc(pool, id)
    BY <1>2, <1>3, <1>4, FreeOfClass, PoolFields, PoolAnswers
  <2>3. QED
    BY <2>1, <2>2, CountStep DEF AllocSimulated
<1>5. CASE /\ mem_malloced < mem_limit /\ sl.free_chunk_list # <<>>
           /\ Take(id, PopFree(sl), Last(sl.free_chunk_list))
  <2> DEFINE i == Last(sl.free_chunk_list)
  <2>1. /\ i[1] = id /\ i \in FreeIn(sl) /\ FreeIn(PopFree(sl)) = FreeIn(sl) \ {i}
        /\ PopFree(sl).page_total = sl.page_total
    BY <1>1, <1>5, PopGood
  <2> HIDE DEF i
  <2>2. QED
    BY <1>2, <1>5, <2>1, TakeFree DEF i
<1>6. CASE /\ mem_malloced < mem_limit /\ sl.end_page_ptr # NULL
           /\ Take(id, CutPage(sl), sl.end_page_ptr)
  BY <1>1, <1>2, <1>6, CutGood, TakeFree
<1>7. CASE /\ mem_malloced < mem_limit /\ empty /\ sl.page_total < MaxPages
           /\ Take(id, CutPage(new), new.end_page_ptr)
  <2> DEFINE i == new.end_page_ptr
             n == sl.page_total
             rest == {j \in Chunks : j[1] = id /\ j[2] = n + 1}
  <2>1. i[1] = id /\ i[2] = n + 1
    BY DEF slab_new_page
  <2> HIDE DEF new
  <2>2. /\ i # NULL /\ SlabGood(id, new, used) /\ new.page_total = n + 1
        /\ FreeIn(new) = FreeIn(sl) \cup {j \in Chunks : j[1] = id /\ j[2] = new.page_total}
    BY <1>1, <1>7, NewPageGood DEF new
  <2>3. FreeIn(new) = rest
    BY <1>3, <1>7, <2>2
  <2>4. /\ i \in Chunks /\ CutPage(new).page_total = n + 1
        /\ FreeIn(CutPage(new)) = rest \ {i}
    BY <2>2, <2>3, CutGood
  <2> HIDE DEF i, n, rest
  <2>5. QED
    BY <1>2, <1>3, <1>7, <2>1, <2>4, TakeNew DEF i, n, rest
<1>8. empty => sl.end_page_free = 0
  BY <1>1 DEF SlabGood, EndInLastPage
<1>9. QED
  BY <1>4, <1>5, <1>6, <1>7, <1>8 DEF mem_cache_alloc

\* A chunk of the class is given back.
LEMMA GiveBack ==
  ASSUME IInv, MemCounted, NEW id \in Classes, NEW new, NEW i, i[1] = id, i \in used,
         FreeIn(new) = FreeIn(slab[id]) \cup {i}, new.page_total = slab[id].page_total,
         slab' = [slab EXCEPT ![id] = new], ret' = NULL, mem_malloced' = mem_malloced
  PROVE  FreeSimulated /\ MemCounted'
<1>1. AllFree' = AllFree \cup {i}
  <2> DEFINE A == {i}
             B == {}
  <2>1. slab'[id] = new /\ \A d \in Classes \ {id} : slab'[d] = slab[d]
    BY DEF IInv, TypeOK
  <2>2. FreeIn(slab'[id]) = (FreeIn(slab[id]) \cup A) \ B /\ \A j \in B : j[1] = id
    BY <2>1
  <2> HIDE DEF A, B
  <2>3. AllFree' = (AllFree \cup A) \ B
    BY <2>1, <2>2, FreeChange
  <2>4. QED
    BY <2>3 DEF A, B
<1>2. MappedPages' = MappedPages
  BY PagesChange
<1>3. MemCounted' /\ PagesOf(mem_malloced)' = PagesOf(mem_malloced)
  BY CountStep
<1>4. pool' = Pool!mem_cache_free(pool, i)
  <2> DEFINE m == PagesOf(mem_malloced)
  <2>1. pool = Store(MappedPages, AllFree, m) /\ pool' = Store(MappedPages, AllFree', m)
    BY <1>2, <1>3, PoolFields
  <2> HIDE DEF m
  <2>2. Pool!mem_cache_free(Store(MappedPages, AllFree, m), i) = Store(MappedPages, AllFree', m)
    BY <1>1, PoolSteps
  <2>3. QED
    BY <2>1, <2>2, Zenon
<1>5. QED
  BY <1>3, <1>4 DEF FreeSimulated

\* A free of MemCache is one of the pool, when realloc succeeds.
LEMMA SimulateFree ==
  ASSUME ~ ReallocMayFail, IInv, MemCounted, NEW i \in Chunks, mem_cache_free(i)
  PROVE  FreeSimulated /\ MemCounted'
<1>1. i[1] \in Classes /\ i \in used /\ ret' = NULL /\ mem_malloced' = mem_malloced
  BY ChunkParts DEF mem_cache_free
<1>2. PICK id \in Classes : id = i[1]
  BY <1>1
<1>3. PICK new \in slab_free_chunk(slab[id], i) : slab' = [slab EXCEPT ![id] = new]
  BY <1>2 DEF mem_cache_free
<1>4. SlabGood(id, slab[id], used) /\ used \in SUBSET Chunks
  BY DEF IInv, AllGood, TypeOK
<1>5. /\ SlabGood(id, new, used \ {i})
      /\ ~ ReallocMayFail => FreeIn(new) = FreeIn(slab[id]) \cup {i}
      /\ new.page_total = slab[id].page_total
  BY <1>1, <1>2, <1>3, <1>4, FreeGood, SMTT(60)
<1>6. FreeIn(new) = FreeIn(slab[id]) \cup {i}
  BY <1>5
<1>7. QED
  BY <1>1, <1>2, <1>3, <1>5, <1>6, GiveBack

\* Every sequence of calls keeps the count of memory a whole number of pages.
LEMMA SimulateNext ==
  ASSUME ~ ReallocMayFail
  PROVE  IInv /\ MemCounted /\ [Next]_vars =>
           MemCounted' /\ [AllocSimulated \/ FreeSimulated]_vars
<1> SUFFICES ASSUME IInv, MemCounted, [Next]_vars
             PROVE  MemCounted' /\ [AllocSimulated \/ FreeSimulated]_vars
  OBVIOUS
<1>1. CASE \E id \in Classes : mem_cache_alloc(id)
  BY <1>1, SimulateAlloc
<1>2. CASE \E i \in Chunks : mem_cache_free(i)
  BY <1>2, SimulateFree
<1>3. CASE UNCHANGED vars
  BY <1>3 DEF vars, MemCounted
<1>4. QED
  BY <1>1, <1>2, <1>3 DEF Next

\* As long as the realloc of the free list succeeds, every call of slab.c and
\* mem_cache.c is one that the pool of ChunkPool, hence the item store, may
\* see: the same pointer, the same pages and the same answer of the limit
\* (mem_cache.c:64-103).
THEOREM PoolImplemented ==
  ASSUME ~ ReallocMayFail
  PROVE  Spec => ImplementsPool
<1>1. Init => MemCounted
  <2>1. ASSUME Init PROVE mem_malloced = power_largest + 0 * page_size
    BY <2>1, MemCacheAssumption DEF Init
  <2>2. QED
    BY <2>1 DEF MemCounted, Counted
<1>2. Spec => [][AllocSimulated \/ FreeSimulated]_vars
  BY <1>1, SpecIInv, SimulateNext, PTL DEF Spec
<1>3. (AllocSimulated \/ FreeSimulated) <=>
        \/ \E id \in Classes : Pool!Outcome(pool', ret') \in Pool!mem_cache_alloc(pool, id)
        \/ \E i \in used : ret' = NULL /\ pool' = Pool!mem_cache_free(pool, i)
  BY DEF AllocSimulated, FreeSimulated
<1>4. QED
  BY <1>2, <1>3, PTL DEF ImplementsPool

=============================================================================
