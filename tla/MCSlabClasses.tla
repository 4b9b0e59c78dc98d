---------------------------- MODULE MCSlabClasses ----------------------------
(* The call in main(): mem_cache_create(48, 1.25, 40, 1MB, ...). *)
EXTENDS SlabClasses

\* Around every multiple of the alignment up to 1K, where the small classes
\* are, then around larger sizes up to and past the page.
MCSizes ==
  (UNION {{8 * n - 1, 8 * n, 8 * n + 1} : n \in 1 .. 128})
  \cup (UNION {{1024 * n, 1024 * n + 8} : n \in 1 .. 260})
  \cup {0, 524288, 1048576, 1048577}

=============================================================================
