----------------------------- MODULE MCItemStore -----------------------------
(* Small instances of ItemStore for TLC. *)
EXTENDS ItemStore, TLC

CONSTANTS k1, k2, c1, c2, i1, i2, i3, i4, i5, p1, p2, q1, q2

\* Pages p1 and q1 are preallocated, p2 and q2 may be mapped later.  Two
\* chunks lie in p1, one in each other page.
MCPageOf == [i \in Chunks |-> CASE i \in {i1, i2} -> p1
                                [] i = i3 -> p2
                                [] i = i4 -> q1
                                [] OTHER -> q2]
\* Both sizes of items in one slab class, or one class for each.
OneClass == [p \in Pages |-> 1]
OneClsId == [n \in Lens |-> 1]
TwoClasses == [p \in Pages |-> IF p \in {p1, p2} THEN 1 ELSE 2]
TwoClsId == [n \in Lens |-> n]

\* Values 0 and 1, of one and two characters.
UnaryLen == (0 :> 1) @@ (1 :> 2)
OneLen == [v \in Vals |-> 1]

\* Expiration arguments: the next second, and a negative one that wraps around
\* to a time far in the future.
Signs == {-1, 1}

TimeRange == 0 .. RelTimeMod - 1

\* Chunks of one page, keys and connections are interchangeable.
Symmetry == Permutations({k1, k2}) \cup Permutations({c1, c2}) \cup Permutations({i1, i2})

\* A free chunk is overwritten before it is read again.
Live == [store EXCEPT !.item =
           [i \in Chunks |-> IF i \in store.free THEN BlankItem ELSE store.item[i]]]
View == <<Live, timeVars, todelete, connVars, fn, who, timerVars>>

=============================================================================
