----------------------------- MODULE SlabClasses -----------------------------
(***************************************************************************)
(* The sizes of the slab classes that mem_cache_create computes, and the   *)
(* search for the class of a size.  The instance of main() is checked with *)
(* its real numbers.                                                       *)
(***************************************************************************)
EXTENDS Integers, Sequences

CONSTANTS
  base_chunk_size,
  FactorNum, FactorDen,  \* the double `factor', as a fraction
  power_largest, power_block,
  CHUNK_ALIGN_BYTES,
  Sizes                  \* sizes asked for

ASSUME SlabClassesAssumption ==
  /\ base_chunk_size \in Nat /\ CHUNK_ALIGN_BYTES \in Nat \ {0}
  /\ base_chunk_size > CHUNK_ALIGN_BYTES /\ base_chunk_size <= power_block
  /\ FactorDen \in Nat \ {0} /\ FactorNum \in Nat /\ FactorNum >= FactorDen
  /\ power_largest \in Nat /\ power_largest > 1 /\ power_block \in Nat
  /\ Sizes \subseteq Nat

\* slab_create rounds up to the alignment.
Aligned(n) == ((n + CHUNK_ALIGN_BYTES - 1) \div CHUNK_ALIGN_BYTES) * CHUNK_ALIGN_BYTES

\* The call in main() (memcached.c:1501): from the first size to the second it is
\* at least the alignment, and a page is not rounded.
ASSUME GrowthAssumption ==
  /\ base_chunk_size * FactorNum >= (base_chunk_size + CHUNK_ALIGN_BYTES) * FactorDen
  /\ Aligned(power_block) = power_block

VARIABLES
  created,     \* mem_cache_create has returned
  chunk_size,  \* its loop variable
  slabclass,   \* chunk sizes of the classes created so far
  size, id     \* the last mem_cache_clsid call, its argument and result
vars == <<created, chunk_size, slabclass, size, id>>

Init ==
  /\ created = FALSE
  /\ chunk_size = base_chunk_size
  /\ slabclass = <<>>
  /\ size = 0 /\ id = 0

\* Mutant: the size does not grow from class to class.
create_class_bug ==
  /\ ~ created
  /\ Len(slabclass) + 1 < power_largest /\ chunk_size <= power_block
  /\ slabclass' = Append(slabclass, Aligned(chunk_size))
  /\ UNCHANGED <<created, chunk_size, size, id>>

\* The loop of mem_cache_create goes on from the size before rounding.
create_class ==
  /\ ~ created
  /\ Len(slabclass) + 1 < power_largest /\ chunk_size <= power_block
  /\ slabclass' = Append(slabclass, Aligned(chunk_size))
  /\ chunk_size' = (chunk_size * FactorNum) \div FactorDen
  /\ UNCHANGED <<created, size, id>>

create_end ==
  /\ ~ created
  /\ Len(slabclass) + 1 >= power_largest \/ chunk_size > power_block
  /\ created' = TRUE
  /\ UNCHANGED <<chunk_size, slabclass, size, id>>

\* Mutant: a size equal to the chunk size goes one class up.
Search_bug(n) ==
  LET from[res \in DOMAIN slabclass] ==
        IF n < slabclass[res] THEN res
        ELSE IF res >= Len(slabclass) THEN 0
        ELSE from[res + 1]
  IN  from[1]

\* The while loop of mem_cache_clsid from class res upwards.
Search(n) ==
  LET from[res \in DOMAIN slabclass] ==
        IF n <= slabclass[res] THEN res
        ELSE IF res >= Len(slabclass) THEN 0
        ELSE from[res + 1]
  IN  from[1]

mem_cache_clsid(n) ==
  /\ created
  /\ size' = n
  /\ id' = IF n = 0 THEN 0 ELSE Search(n)
  /\ UNCHANGED <<created, chunk_size, slabclass>>

Next ==
  \/ create_class
  \/ create_end
  \/ \E n \in Sizes : mem_cache_clsid(n)

Spec == Init /\ [][Next]_vars

-----------------------------------------------------------------------------

\* A size goes to the smallest class it fits in, and to none only when it is 0
\* or larger than the largest class, on both sides of every class boundary
\* (mem_cache.c:110-125, "figures out which slab class is required").
SmallestFit ==
  created /\ size > 0 =>
    /\ id = 0 <=> \A n \in DOMAIN slabclass : slabclass[n] < size
    /\ id # 0 => /\ slabclass[id] >= size
                 /\ \A n \in 1 .. id - 1 : slabclass[n] < size

\* No two classes have the same chunk size and none exceeds a page: truncating
\* the product and rounding up never stop the growth nor pass the page size
\* (mem_cache.c:46-55, slab.c:30-42).
ClassesGrow ==
  /\ \A n \in DOMAIN slabclass : slabclass[n] <= power_block
  /\ \A m, n \in DOMAIN slabclass : m < n => slabclass[m] < slabclass[n]

=============================================================================
