-------------------------------- MODULE Cache --------------------------------
(***************************************************************************)
(* What the item store promises to its clients.  A key shows the value of  *)
(* the last store or arithmetic command that succeeded for it, or nothing: *)
(* an item may disappear at any time (eviction, expiration, deletion,      *)
(* flush), even at once; it never comes back by itself, and never shows through another     *)
(* key.  Whether add and replace succeed is decided when their data is     *)
(* complete, not when the command line arrives.                            *)
(***************************************************************************)
CONSTANTS Keys, Vals, Conns, Comms, NULL, None

VARIABLES
  kv,    \* what a get of each key would return
  pend   \* the store command whose data each connection is sending
cvars == <<kv, pend>>

TypeOK ==
  /\ kv \in [Keys -> Vals \cup {None}]
  /\ pend \in [Conns -> [key : Keys, comm : Comms] \cup {NULL}]

Init ==
  /\ kv = [k \in Keys |-> None]
  /\ pend = [c \in Conns |-> NULL]

\* Keys other than those in K keep their value or lose it.
OthersFade(K) == \A k \in Keys \ K : kv'[k] \in {kv[k], None}

Fade == OthersFade({}) /\ pend' = pend

Begin(c, k, comm) ==
  /\ pend[c] = NULL
  /\ pend' = [pend EXCEPT ![c] = [key |-> k, comm |-> comm]]
  /\ OthersFade({})

Abort(c) ==
  /\ pend[c] # NULL
  /\ pend' = [pend EXCEPT ![c] = NULL]
  /\ OthersFade({})

Allowed(c) ==
  /\ pend[c].comm = "add" => kv[pend[c].key] = None
  /\ pend[c].comm = "replace" => kv[pend[c].key] # None

Commit(c, v) ==
  /\ pend[c] # NULL /\ Allowed(c)
  /\ kv'[pend[c].key] \in {v, None}
  /\ OthersFade({pend[c].key})
  /\ pend' = [pend EXCEPT ![c] = NULL]

Arithmetic(k, v) ==
  /\ kv[k] # None
  /\ kv'[k] \in {v, None}
  /\ OthersFade({k})
  /\ pend' = pend

Next ==
  \/ Fade
  \/ \E c \in Conns :
       \/ \E k \in Keys, comm \in Comms : Begin(c, k, comm)
       \/ Abort(c)
       \/ \E v \in Vals : Commit(c, v)
  \/ \E k \in Keys, v \in Vals : Arithmetic(k, v)

Spec == Init /\ [][Next]_cvars

=============================================================================
