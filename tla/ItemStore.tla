------------------------------ MODULE ItemStore ------------------------------
(***************************************************************************)
(* memcached.c: the command handlers, the completion of reads and writes,  *)
(* the closing of a connection and the two timers, acting on the item      *)
(* store of Items.  The server is one thread: a handler runs to its end    *)
(* before the event loop calls another one.  A handler that loops over     *)
(* items takes one step per iteration, with `fn' naming it and `who' its   *)
(* connection; every other handler waits for fn = "ae_loop".               *)
(*                                                                         *)
(* A connection is here what the store can tell of it: waiting for a       *)
(* command (conn_read, and conn_write with a reply under way, during which *)
(* it touches no item), for the data of an item (conn_nread), sending the  *)
(* items of a get (conn_mwrite), or closed.                                *)
(***************************************************************************)
EXTENDS Items, MemcachedTime

CONSTANTS
  Conns,
  DataLen,   \* number of characters of the data that stands for a value
  ValMod,    \* incr and decr work on unsigned int, modulo 2^32
  Deltas,    \* arguments of incr and decr
  SetTimes, DelTimes, FlushTimes,  \* expiration arguments of the commands
  SetBack,   \* whether somebody may set the wall clock back
  MaxTime,   \* bound: the clock stops here
  MaxIList,  \* bound: entries of one get; then realloc of ilist fails
  MaxDel     \* bound: entries of todelete; then its realloc fails

ASSUME ItemStoreAssumption ==
  /\ NULL \notin Conns /\ NULL \notin Vals /\ IsFiniteSet(Conns)
  /\ NULL \notin [key : Keys, comm : {"set", "add", "replace", NULL}]
  /\ ItemTimes = RelTime /\ MaxTime \in RelTime /\ SetBack \in BOOLEAN
  /\ ValMod \in Nat \ {0} /\ Vals = 0 .. ValMod - 1
  /\ DataLen \in [Vals -> Lens]
  /\ Deltas \subseteq Nat
  /\ SetTimes \subseteq Int /\ DelTimes \subseteq Int /\ FlushTimes \subseteq Int
  /\ MaxIList \in Nat /\ MaxDel \in Nat

VARIABLES
  store,         \* the globals of items.c, assoc.c, slab.c and stats
  current_time, oldest_live,
  todelete,      \* todelete[0..delcurr-1]
  state,         \* c->state, "closed" when there is no such connection
  citem,         \* c->item
  item_comm,     \* c->item_comm
  ilist,         \* c->ilist, with the key and size the response iovecs name
  icurr,         \* number of entries of ilist already released
  fn, who,       \* the handler running, and its connection
  ti, tj         \* i and j of timer_delete_handler

connVars == <<state, citem, item_comm, ilist, icurr>>
timeVars == <<current_time, oldest_live>>
timerVars == <<ti, tj>>
vars == <<store, timeVars, todelete, connVars, fn, who, timerVars>>

Comms == {"set", "add", "replace"}
ConnStates == {"conn_read", "conn_nread", "conn_mwrite", "closed"}
Functions == {"ae_loop", "command_get", "drive_machine", "conn_cleanup",
              "timer_delete_handler"}
Entry == [it : Chunks, key : Keys \cup {NULL}, nbytes : Lens \cup {0}]

TypeOK ==
  /\ store \in Store
  /\ current_time \in RelTime /\ oldest_live \in RelTime
  /\ todelete \in Seq(Chunks)
  /\ state \in [Conns -> ConnStates]
  /\ citem \in [Conns -> Chunks \cup {NULL}]
  /\ item_comm \in [Conns -> Comms \cup {NULL}]
  /\ ilist \in [Conns -> Seq(Entry)]
  /\ icurr \in [Conns -> Nat]
  /\ fn \in Functions /\ who \in Conns \cup {NULL}
  /\ ti \in Nat /\ tj \in Nat

Init ==
  /\ store = InitStore
  /\ current_time = 0 /\ oldest_live = 0
  /\ todelete = <<>>
  /\ state = [c \in Conns |-> "closed"]
  /\ citem = [c \in Conns |-> NULL] /\ item_comm = [c \in Conns |-> NULL]
  /\ ilist = [c \in Conns |-> <<>>] /\ icurr = [c \in Conns |-> 0]
  /\ fn = "ae_loop" /\ who = NULL
  /\ ti = 0 /\ tj = 0

-----------------------------------------------------------------------------
(* Lookup, with lazy deletion and expiration *)

\* Mutant: exptime - current_time <= 0, with times that are unsigned.
item_delete_lock_over_bug(s, i) == current_time = s.item[i].exptime

item_delete_lock_over(s, i) == current_time >= s.item[i].exptime

DeleteLocked(s, i) ==
  "DELETED" \in s.item[i].it_flags /\ ~ item_delete_lock_over(s, i)
Flushed(s, i) ==
  oldest_live # 0 /\ oldest_live <= current_time /\ s.item[i].time <= oldest_live
Expired(s, i) ==
  s.item[i].exptime # 0 /\ s.item[i].exptime <= current_time

Found(s, it, locked) == [s |-> s, it |-> it, delete_locked |-> locked]

\* Mutant: the delete lock does not hide the item.
get_item_notedeleted_bug(s, k) ==
  LET it == assoc_find(s, k)
  IN  IF it = NULL THEN Found(s, NULL, FALSE)
      ELSE IF Flushed(s, it) \/ Expired(s, it)
           THEN Found(item_unlink(s, it), NULL, FALSE)
      ELSE Found(s, it, FALSE)

get_item_notedeleted(s, k) ==
  LET it == assoc_find(s, k)
  IN  IF it = NULL THEN Found(s, NULL, FALSE)
      ELSE IF DeleteLocked(s, it) THEN Found(s, NULL, TRUE)
      ELSE IF Flushed(s, it) \/ Expired(s, it)
           THEN Found(item_unlink(s, it), NULL, FALSE)
      ELSE Found(s, it, FALSE)

get_item(s, k) == get_item_notedeleted(s, k)

-----------------------------------------------------------------------------
(* Connections *)

Ready(c) == fn = "ae_loop" /\ state[c] = "conn_read"

Call(f, c) == fn' = f /\ who' = c
Return == fn' = "ae_loop" /\ who' = NULL

conn_new(c) ==
  /\ fn = "ae_loop" /\ state[c] = "closed"
  /\ state' = [state EXCEPT ![c] = "conn_read"]
  /\ UNCHANGED <<store, timeVars, todelete, citem, item_comm, ilist, icurr,
                 fn, who, timerVars>>

\* Mutant: c->item is freed but not reset.
conn_close_bug(c) ==
  /\ fn = "ae_loop" /\ state[c] # "closed"
  /\ store' = IF citem[c] = NULL THEN store ELSE item_free(store, citem[c])
  /\ Call("conn_cleanup", c)
  /\ UNCHANGED <<timeVars, todelete, state, citem, item_comm, ilist, icurr, timerVars>>

\* End of stream, an error, or quit: the item being read goes back to the
\* allocator, the items of the response are released one by one.
conn_close(c) ==
  /\ fn = "ae_loop" /\ state[c] # "closed"
  /\ store' = IF citem[c] = NULL THEN store ELSE item_free(store, citem[c])
  /\ citem' = [citem EXCEPT ![c] = NULL]
  /\ item_comm' = [item_comm EXCEPT ![c] = NULL]
  /\ Call("conn_cleanup", c)
  /\ UNCHANGED <<timeVars, todelete, state, ilist, icurr, timerVars>>

\* The whole response is sent: conn_mwrite releases its items.
transmit_complete(c) ==
  /\ fn = "ae_loop" /\ state[c] = "conn_mwrite"
  /\ Call("drive_machine", c)
  /\ UNCHANGED <<store, timeVars, todelete, connVars, timerVars>>

release_item ==
  /\ fn \in {"drive_machine", "conn_cleanup"}
  /\ icurr[who] < Len(ilist[who])
  /\ store' = item_remove(store, ilist[who][icurr[who] + 1].it)
  /\ icurr' = [icurr EXCEPT ![who] = @ + 1]
  /\ UNCHANGED <<timeVars, todelete, state, citem, item_comm, ilist,
                 fn, who, timerVars>>

release_end ==
  /\ fn \in {"drive_machine", "conn_cleanup"}
  /\ icurr[who] = Len(ilist[who])
  /\ state' = [state EXCEPT ![who] =
                 IF fn = "conn_cleanup" THEN "closed" ELSE "conn_read"]
  /\ ilist' = [ilist EXCEPT ![who] = <<>>]
  /\ icurr' = [icurr EXCEPT ![who] = 0]
  /\ Return
  /\ UNCHANGED <<store, timeVars, todelete, citem, item_comm, timerVars>>

-----------------------------------------------------------------------------
(* set, add, replace *)

command_replace(c, comm, k, len, exptime) ==
  /\ Ready(c)
  /\ \E o \in item_alloc(store, k, len, realtime(exptime, current_time)) :
       /\ store' = o.s
       /\ IF o.it = NULL
          THEN UNCHANGED <<state, citem, item_comm>>
          ELSE /\ state' = [state EXCEPT ![c] = "conn_nread"]
               /\ citem' = [citem EXCEPT ![c] = o.it]
               /\ item_comm' = [item_comm EXCEPT ![c] = comm]
  /\ UNCHANGED <<timeVars, todelete, ilist, icurr, fn, who, timerVars>>

\* Mutant: add and replace do not respect the delete lock.
RefusedLocked_bug(g, comm) ==
  \/ g.it # NULL /\ comm = "add"
  \/ g.it = NULL /\ comm = "replace" /\ ~ g.delete_locked

\* Mutant: add does not look whether the key exists.
RefusedAdd_bug(g, comm) ==
  \/ g.it = NULL /\ comm = "replace"
  \/ g.delete_locked /\ comm # "set"

\* The store after complete_nread of item `it' with command `comm', when the
\* data is well terminated.
Refused(g, comm) ==
  \/ g.it # NULL /\ comm = "add"
  \/ g.it = NULL /\ comm = "replace"
  \/ g.delete_locked /\ comm # "set"

Touched(g, comm) ==
  IF g.it # NULL /\ comm = "add" THEN item_update(g.s, g.it, current_time) ELSE g.s

Stored(g, k, it) ==
  LET old_it == IF g.delete_locked THEN assoc_find(g.s, k) ELSE g.it
  IN  IF old_it = NULL THEN item_link(g.s, it, current_time)
      ELSE item_replace(g.s, old_it, it, current_time)

complete_nread(c, val, good) ==
  /\ fn = "ae_loop" /\ state[c] = "conn_nread"
  /\ DataLen[val] <= store.item[citem[c]].nbytes
  /\ LET it == citem[c]
         k == store.item[it].key
         s == [store EXCEPT !.item[it].val = val]
         g == get_item_notedeleted(s, k)
     IN  store' = IF ~ good THEN item_free(s, it)
                  ELSE IF Refused(g, item_comm[c])
                       THEN item_free(Touched(g, item_comm[c]), it)
                  ELSE Stored(g, k, it)
  /\ citem' = [citem EXCEPT ![c] = NULL]
  /\ item_comm' = [item_comm EXCEPT ![c] = NULL]
  /\ state' = [state EXCEPT ![c] = "conn_read"]
  /\ UNCHANGED <<timeVars, todelete, ilist, icurr, fn, who, timerVars>>

-----------------------------------------------------------------------------
(* get and bget: one step per key *)

command_get(c) ==
  /\ Ready(c)
  /\ Call("command_get", c)
  /\ UNCHANGED <<store, timeVars, todelete, connVars, timerVars>>

command_get_key(k) ==
  /\ fn = "command_get"
  /\ LET g == get_item(store, k)
     IN  \/ /\ g.it = NULL
            /\ store' = g.s
            /\ UNCHANGED ilist
         \/ /\ g.it # NULL
            /\ Len(ilist[who]) < MaxIList
            /\ store' = item_update(AddRef(g.s, g.it), g.it, current_time)
            /\ ilist' = [ilist EXCEPT ![who] = Append(@,
                           [it |-> g.it, key |-> g.s.item[g.it].key,
                            nbytes |-> g.s.item[g.it].nbytes])]
  /\ UNCHANGED <<timeVars, todelete, state, citem, item_comm, icurr,
                 fn, who, timerVars>>

\* The end of the command line, or a failed realloc of ilist or of the iovecs.
command_get_end ==
  /\ fn = "command_get"
  /\ state' = [state EXCEPT ![who] = "conn_mwrite"]
  /\ Return
  /\ UNCHANGED <<store, timeVars, todelete, citem, item_comm, ilist, icurr,
                 timerVars>>

-----------------------------------------------------------------------------
(* incr and decr *)

NewValue(incr, value, delta) ==
  IF incr THEN (value + delta) % ValMod
  ELSE IF delta >= value THEN 0 ELSE value - delta

\* Mutant: a longer number overwrites the old one in place, growing the item.
command_vary_delta_bug(c, k, incr, delta) ==
  /\ Ready(c)
  /\ LET g == get_item(store, k)
         value == NewValue(incr, g.s.item[g.it].val, delta)
     IN  store' = IF g.it = NULL THEN g.s
                  ELSE [g.s EXCEPT !.item[g.it].val = value,
                                   !.item[g.it].nbytes = DataLen[value]]
  /\ UNCHANGED <<timeVars, todelete, connVars, fn, who, timerVars>>

\* A number that no longer fits goes to a new item, of the key of the old one,
\* which is k; otherwise it overwrites the old one in place.
command_vary_delta(c, k, incr, delta) ==
  /\ Ready(c)
  /\ LET g == get_item(store, k)
         old == g.s.item[g.it]
         value == NewValue(incr, old.val, delta)
     IN  \/ /\ g.it = NULL
            /\ store' = g.s
         \/ /\ g.it # NULL
            /\ DataLen[value] > old.nbytes
            /\ \E o \in item_alloc(g.s, k, DataLen[value], old.exptime) :
                 store' = IF o.it = NULL THEN o.s
                          ELSE item_replace([o.s EXCEPT !.item[o.it].val = value],
                                            g.it, o.it, current_time)
         \/ /\ g.it # NULL
            /\ DataLen[value] <= old.nbytes
            /\ store' = [g.s EXCEPT !.item[g.it].val = value]
  /\ UNCHANGED <<timeVars, todelete, connVars, fn, who, timerVars>>

-----------------------------------------------------------------------------
(* delete, and the timer that ends the delete locks *)

delete_handler(c, k, exptime) ==
  /\ Ready(c)
  /\ LET g == get_item(store, k)
     IN  \/ /\ g.it = NULL
            /\ store' = g.s
            /\ UNCHANGED todelete
         \/ /\ g.it # NULL /\ exptime = 0
            /\ store' = item_unlink(g.s, g.it)
            /\ UNCHANGED todelete
         \/ /\ g.it # NULL /\ exptime # 0 /\ Len(todelete) >= MaxDel
            /\ store' = g.s
            /\ UNCHANGED todelete
         \/ /\ g.it # NULL /\ exptime # 0 /\ Len(todelete) < MaxDel
            /\ store' = [AddRef(g.s, g.it) EXCEPT
                           !.item[g.it].exptime = realtime(exptime, current_time),
                           !.item[g.it].it_flags = @ \cup {"DELETED"}]
            /\ todelete' = Append(todelete, g.it)
  /\ UNCHANGED <<timeVars, connVars, fn, who, timerVars>>

timer_delete_handler ==
  /\ fn = "ae_loop"
  /\ Call("timer_delete_handler", NULL)
  /\ ti' = 0 /\ tj' = 0
  /\ UNCHANGED <<store, timeVars, todelete, connVars>>

\* Mutant: the reference of the queue is not dropped.
timer_delete_step_bug ==
  /\ fn = "timer_delete_handler" /\ ti < Len(todelete)
  /\ LET it == todelete[ti + 1]
         s == [store EXCEPT !.item[it].it_flags = @ \ {"DELETED"}]
     IN  \/ /\ item_delete_lock_over(store, it)
            /\ store' = item_unlink(s, it)
            /\ UNCHANGED <<todelete, tj>>
         \/ /\ ~ item_delete_lock_over(store, it)
            /\ todelete' = [todelete EXCEPT ![tj + 1] = it]
            /\ tj' = tj + 1
            /\ UNCHANGED store
  /\ ti' = ti + 1
  /\ UNCHANGED <<timeVars, connVars, fn, who>>

\* One iteration: the lock is over and the item goes, or it is kept, moved
\* down to position j.
timer_delete_step ==
  /\ fn = "timer_delete_handler" /\ ti < Len(todelete)
  /\ LET it == todelete[ti + 1]
         s == [store EXCEPT !.item[it].it_flags = @ \ {"DELETED"}]
     IN  \/ /\ item_delete_lock_over(store, it)
            /\ store' = item_remove(item_unlink(s, it), it)
            /\ UNCHANGED <<todelete, tj>>
         \/ /\ ~ item_delete_lock_over(store, it)
            /\ todelete' = [todelete EXCEPT ![tj + 1] = it]
            /\ tj' = tj + 1
            /\ UNCHANGED store
  /\ ti' = ti + 1
  /\ UNCHANGED <<timeVars, connVars, fn, who>>

timer_delete_end ==
  /\ fn = "timer_delete_handler" /\ ti = Len(todelete)
  /\ todelete' = SubSeq(todelete, 1, tj)
  /\ ti' = 0 /\ tj' = 0
  /\ Return
  /\ UNCHANGED <<store, timeVars, connVars>>

-----------------------------------------------------------------------------
(* Time *)

\* current_time is the wall clock less the start, and nothing keeps it from
\* going back.  It is 0 until it is set for the first time; on a clock that is
\* only set forwards never again, as stats.started is one second before the start.
set_current_time ==
  current_time' \in {t \in 0 .. MaxTime : SetBack \/ (t > 0 /\ t >= current_time)}

clock_handler ==
  /\ fn = "ae_loop"
  /\ set_current_time
  /\ UNCHANGED <<store, oldest_live, todelete, connVars, fn, who, timerVars>>

\* flush_all first brings current_time up to date.
flush_all_handler(c) ==
  /\ Ready(c)
  /\ set_current_time
  /\ oldest_live' = current_time'
  /\ UNCHANGED <<store, todelete, connVars, fn, who, timerVars>>

flush_all_at(c, exptime) ==
  /\ Ready(c)
  /\ set_current_time
  /\ oldest_live' = realtime(exptime, current_time')
  /\ UNCHANGED <<store, todelete, connVars, fn, who, timerVars>>

-----------------------------------------------------------------------------

Command(c) ==
  \/ \E comm \in Comms, k \in Keys, len \in Lens, t \in SetTimes :
       command_replace(c, comm, k, len, t)
  \/ command_get(c)
  \/ \E k \in Keys, incr \in BOOLEAN, d \in Deltas : command_vary_delta(c, k, incr, d)
  \/ \E k \in Keys, t \in DelTimes : delete_handler(c, k, t)
  \/ flush_all_handler(c)
  \/ \E t \in FlushTimes : flush_all_at(c, t)

Next ==
  \/ \E c \in Conns :
       \/ conn_new(c)
       \/ conn_close(c)
       \/ Command(c)
       \/ \E v \in Vals, good \in BOOLEAN : complete_nread(c, v, good)
       \/ transmit_complete(c)
  \/ \E k \in Keys : command_get_key(k)
  \/ command_get_end
  \/ release_item
  \/ release_end
  \/ timer_delete_handler
  \/ timer_delete_step
  \/ timer_delete_end
  \/ clock_handler

Spec == Init /\ [][Next]_vars

-----------------------------------------------------------------------------
(* Safety *)

\* The references to an item that its refcount stands for: the entries of
\* responses not yet released, and those of the delete queue, which during
\* the timer is the compacted prefix and the part not yet looked at.
ResponseHolds(i) ==
  {h \in Conns \X (1 .. MaxIList) :
     /\ h[2] \in DOMAIN ilist[h[1]] /\ h[2] > icurr[h[1]]
     /\ ilist[h[1]][h[2]].it = i}
QueueLive == (1 .. tj) \cup (ti + 1 .. Len(todelete))
QueueHolds(i) == {n \in QueueLive : todelete[n] = i}

\* The refcount of every item is the number of responses and delete-queue
\* entries that still point to it, over any interleaving of gets, deletes,
\* closed connections and the timer's in-place compaction (items.c:217-226,
\* memcached.c:281, 503, 1203-1209, 1453-1472).
RefcountIsHolds ==
  \A i \in Chunks :
    store.item[i].refcount = Cardinality(ResponseHolds(i)) + Cardinality(QueueHolds(i))

\* A chunk the allocator may hand out is named by no list, no response, no
\* queue entry and no connection, and a connection that reads data has a
\* chunk that nobody else has (item_free's assertions, items.c:125-128).
NoDanglingReference ==
  /\ \A i \in store.free :
       /\ ResponseHolds(i) = {} /\ QueueHolds(i) = {}
       /\ ~ Linked(store, i)
       /\ \A id \in DOMAIN store.lru : i \notin {store.lru[id][n] : n \in DOMAIN store.lru[id]}
       /\ \A c \in Conns : citem[c] # i
  /\ \A c \in Conns : citem[c] # NULL =>
       /\ ~ Linked(store, citem[c])
       /\ store.item[citem[c]].refcount = 0
       /\ \A d \in Conns \ {c} : citem[d] # citem[c]

\* ITEM_LINKED, the hash table and the LRU lists name the same items: a
\* linked item is the only one of its key, and is in the list of its class
\* exactly once (items.c:147-215, the assertion of assoc_insert).
ListsAgree ==
  /\ \A k \in Keys :
       /\ Len(store.hashtable[k]) <= 1
       /\ \A n \in DOMAIN store.hashtable[k] :
            LET i == store.hashtable[k][n]
            IN  Linked(store, i) /\ store.item[i].key = k
  /\ \A id \in DOMAIN store.lru :
       LET q == store.lru[id]
       IN  /\ \A n \in DOMAIN q :
                Linked(store, q[n]) /\ store.item[q[n]].slabs_clsid = id
           /\ \A m, n \in DOMAIN q : q[m] = q[n] => m = n
  /\ \A i \in Chunks : Linked(store, i) =>
       /\ assoc_find(store, store.item[i].key) = i
       /\ \E n \in DOMAIN store.lru[store.item[i].slabs_clsid] :
            store.lru[store.item[i].slabs_clsid][n] = i

\* No chunk of a mapped page is lost: one that nothing names is free, whatever
\* the order in which its list, its readers and the timer let go of it.
NoLeak ==
  \A i \in ChunksOf(store.pages) \ store.free :
    \/ Linked(store, i)
    \/ store.item[i].refcount > 0
    \/ \E c \in Conns : citem[c] = i

\* Each LRU list is in order of last use, which item_alloc relies on when it
\* looks for a victim from the tail (items.c:93-98, 228-234).
LruSortedByTime ==
  \A id \in DOMAIN store.lru :
    \A m, n \in DOMAIN store.lru[id] : m < n =>
      store.item[store.lru[id][m]].time >= store.item[store.lru[id][n]].time

\* What a get of key k would return now.
Shown(k) ==
  LET it == assoc_find(store, k)
  IN  IF it = NULL \/ DeleteLocked(store, it) \/ Flushed(store, it) \/ Expired(store, it)
      THEN NULL ELSE store.item[it].val

LinkedItems == {i \in Chunks : Linked(store, i)}

\* The bytes of the linked items, each by its item and its number.
LinkedBytes == UNION {{i} \X (1 .. store.item[i].nbytes) : i \in LinkedItems}

\* The counters shown by "stats" are those of the lists: what item_link added
\* is what item_unlink subtracts, although incr and delete change the item in
\* between (items.c:195-197, 207-208).
StatsAgree ==
  /\ store.curr_items = Cardinality(LinkedItems)
  /\ store.curr_bytes = Cardinality(LinkedBytes)

\* While a response is being sent, the chunks its iovecs point into still
\* hold the item that was looked up: same key, same size (memcached.c:270-282).
ResponseIntact ==
  \A c \in Conns : \A n \in icurr[c] + 1 .. Len(ilist[c]) :
    LET e == ilist[c][n]
    IN  /\ e.it \notin store.free
        /\ store.item[e.it].key = e.key
        /\ store.item[e.it].nbytes = e.nbytes

\* Every entry of the delete queue is an item still flagged ITEM_DELETED when
\* the timer reaches it: the assertion of item_delete_lock_over
\* (memcached.c:72).
QueuedIsDeleted ==
  \A n \in QueueLive : "DELETED" \in store.item[todelete[n]].it_flags

LockedKey(k) ==
  /\ assoc_find(store, k) # NULL
  /\ DeleteLocked(store, assoc_find(store, k))

\* A delete lock is only ended by its time or by the completion of a "set" of
\* that key: not by add, replace, incr, a get, an eviction, a flush or the
\* timer (memcached.c:82-88, 199-213, "set commands can override the delete
\* lock window").
DeleteLockHolds ==
  [][\A k \in Keys : LockedKey(k) =>
       \/ LockedKey(k)'
       \/ current_time' >= store.item[assoc_find(store, k)].exptime
       \/ \E c \in Conns :
            /\ item_comm[c] = "set" /\ store.item[citem[c]].key = k
            /\ state'[c] = "conn_read"
            /\ assoc_find(store, k)' = citem[c]]_vars

\* Making room never takes an item that a response or the delete queue still
\* points to out of the table ("it may be locked: refcount>0", items.c:84),
\* whether the allocation succeeds, or evicts and fails after all: set, add and
\* replace leave every such item linked, incr and decr every one but that of
\* their key, which may have expired.
EvictionSparesReferenced ==
  [][\A i \in Chunks :
       Linked(store, i) /\ store.item[i].refcount > 0 /\ ~ Linked(store', i) =>
         \A c \in Conns, k \in Keys :
           /\ \A comm \in Comms, len \in Lens, t \in SetTimes :
                ~ command_replace(c, comm, k, len, t)
           /\ \A incr \in BOOLEAN, d \in Deltas :
                command_vary_delta(c, k, incr, d) => i = assoc_find(store, k)]_vars

-----------------------------------------------------------------------------
(* What the comments and assertions of the code say, where it does otherwise *)

\* items.c:150 and 189 assert that an item that is linked is not ITEM_SLABBED,
\* that is, not given back to the allocator.
LinkedIsNotSlabbed ==
  \A i \in Chunks : Linked(store, i) => "SLABBED" \notin store.item[i].it_flags

-----------------------------------------------------------------------------
(* The store implements Cache *)

Promise == INSTANCE Cache WITH
  None <- NULL,
  kv <- [k \in Keys |-> Shown(k)],
  pend <- [c \in Conns |-> IF citem[c] = NULL THEN NULL
                           ELSE [key |-> store.item[citem[c]].key, comm |-> item_comm[c]]]

\* Every step of the server is a step of Cache: no interleaving of commands
\* shows a value that was not the last one stored under that key, brings a
\* deleted, expired, flushed or evicted item back, or lets add or replace
\* succeed on what is there when their data is complete (memcached.c:176-229).
ImplementsCache == Promise!Spec

=============================================================================
