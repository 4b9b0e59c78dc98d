---------------------------- MODULE MemcachedTime ----------------------------
(***************************************************************************)
(* memcached_time.c: the conversion of a client's expiration argument      *)
(* (a signed time_t) to the server's clock (rel_time_t, an unsigned int    *)
(* counting seconds since stats.started).                                  *)
(***************************************************************************)
EXTENDS Integers

CONSTANTS
  REALTIME_MAXDELTA,  \* 60*60*24*30 in the code: the largest relative argument
  Started,            \* stats.started, the wall-clock second of the start
  RelTimeMod          \* rel_time_t is unsigned: arithmetic is modulo 2^32

ASSUME TimeAssumption ==
  /\ REALTIME_MAXDELTA \in Nat
  /\ Started \in Nat
  /\ RelTimeMod \in Nat \ {0}

RelTime == 0 .. RelTimeMod - 1

\* Mutant: a negative time is kept as it is.
realtime_bug(exptime, now) ==
  IF exptime <= 0 THEN exptime
  ELSE (IF exptime > REALTIME_MAXDELTA THEN exptime - Started
                                       ELSE exptime + now) % RelTimeMod

\* 0 means never; a large argument is an absolute time; any other argument,
\* negative ones included, counts from `now`.  Both casts wrap around.
realtime(exptime, now) ==
  IF exptime = 0 THEN 0
  ELSE (IF exptime > REALTIME_MAXDELTA THEN exptime - Started
                                       ELSE exptime + now) % RelTimeMod

=============================================================================
