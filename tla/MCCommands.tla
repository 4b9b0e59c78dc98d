------------------------------ MODULE MCCommands ------------------------------
(* A small instance of Commands for TLC. *)
EXTENDS Commands, TLC

CONSTANTS k1, k2, s1, s2

\* A number on each side of the buckets, and generations on each side of 0.
Around == -1 .. MAX_BUCKETS
Signed == -1 .. 2

\* Clients and structures are interchangeable.
Symmetry == Permutations({k1, k2}) \cup Permutations({s1, s2})

=============================================================================
