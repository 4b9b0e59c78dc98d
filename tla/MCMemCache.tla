----------------------------- MODULE MCMemCache ------------------------------
(* Two slab classes, with pages of two chunks and of one. *)
EXTENDS MemCache

MCPerPage == [id \in Classes |-> IF id = 1 THEN 2 ELSE 1]

=============================================================================
