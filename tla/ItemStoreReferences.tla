------------------------ MODULE ItemStoreReferences ------------------------
(***************************************************************************)
(* The references to items: that refcounts count them exactly, that        *)
(* nothing in use is given back and nothing unused is lost, that the lists *)
(* agree and stay in order, that responses stay intact, and that delete    *)
(* locks hold.  All follow from one inductive invariant, RInv, preserved   *)
(* by every handler of a server whose behaviour is Regular.  Its lemmas    *)
(* are also what the two last parts rest on: that the counters shown by    *)
(* "stats" are right, and that the server implements Cache.                *)
(***************************************************************************)
EXTENDS ItemStoreProofs, ServerLoop

-----------------------------------------------------------------------------
(* The inductive invariant *)

\* The chunks into which a connection reads data.
Owned == {citem[c] : c \in Conns} \ {NULL}

\* Two connections never read into the same chunk.
OwnedApart == \A c, d \in Conns : citem[c] # NULL /\ citem[c] = citem[d] => c = d

\* Only a connection that reads data has one, and no flag of it is set yet.
OwnersRead ==
  \A c \in Conns : citem[c] # NULL =>
    state[c] = "conn_nread" /\ store.item[citem[c]].it_flags = {}

\* No position passes the end of its list, and no list or time its bound.
InBounds ==
  /\ \A c \in Conns : icurr[c] <= Len(ilist[c]) /\ Len(ilist[c]) <= MaxIList
  /\ Len(todelete) <= MaxDel /\ current_time <= MaxTime

\* The positions of the timer are 0 while it does not run.
TimerIdle == fn # "timer_delete_handler" => ti = 0 /\ tj = 0

\* A linked item under a delete lock is in the delete queue.
DeletedIsQueued ==
  \A i \in Chunks :
    Linked(store, i) /\ "DELETED" \in store.item[i].it_flags => QueueHolds(i) # {}

\* A handler that loops over items works for a connection that owns none.
CallerOwnsNone ==
  fn \in {"command_get", "drive_machine", "conn_cleanup"} => citem[who] = NULL

\* An item is in the delete queue once, and with a time.
QueuedOnce ==
  /\ \A m, n \in QueueLive : todelete[m] = todelete[n] => m = n
  /\ \A n \in QueueLive : store.item[todelete[n]].exptime # 0

\* No delete asks for a lock until second 0, which realtime returns for
\* "never", for the second of the start and for a negative argument as large
\* as the clock.
LocksTimed == \A x \in DelTimes \ {0}, now \in 0 .. MaxTime : realtime(x, now) # 0

\* What holds of the queue then.
QueueSound == LocksTimed => QueuedIsDeleted /\ QueuedOnce

\* The store, with the chunks the connections read into.
StoreSound == Sound(store, Owned, current_time)

\* The inductive invariant of the references.
RInv ==
  /\ IInv /\ StoreSound /\ RefcountIsHolds /\ ResponseIntact
  /\ OwnedApart /\ OwnersRead /\ CallerOwnsNone
  /\ InBounds /\ TimerIdle /\ DeletedIsQueued /\ QueueSound /\ LinkedIsNotSlabbed

-----------------------------------------------------------------------------
(* Counting the references *)

\* Any set of response references is finite.
LEMMA RefsFinite ==
  ASSUME NEW H, H \subseteq Conns \X (1 .. MaxIList)
  PROVE  IsFiniteSet(H)
<1>1. IsFiniteSet(Conns) /\ IsFiniteSet(1 .. MaxIList)
  BY ItemStoreAssumption, FS_Interval
<1>2. IsFiniteSet(Conns \X (1 .. MaxIList))
  BY <1>1, FS_Product
<1>3. QED
  BY <1>2, FS_Subset

\* So is any set of positions of a queue.
LEMMA PositionsFinite ==
  ASSUME NEW a \in Nat, NEW b \in Nat, NEW n \in Nat, NEW Q,
         Q \subseteq (1 .. a) \cup (b + 1 .. n)
  PROVE  IsFiniteSet(Q)
<1>1. IsFiniteSet(1 .. a) /\ IsFiniteSet(b + 1 .. n)
  BY FS_Interval
<1>2. IsFiniteSet((1 .. a) \cup (b + 1 .. n))
  BY <1>1, FS_Union
<1>3. QED
  BY <1>2, FS_Subset

\* Two finite sets, one of which is not empty, have at least one element.
LEMMA SomeElement ==
  ASSUME NEW H, NEW Q, IsFiniteSet(H), IsFiniteSet(Q), H # {} \/ Q # {}
  PROVE  Cardinality(H) + Cardinality(Q) > 0
<1>1. /\ Cardinality(H) \in Nat /\ Cardinality(Q) \in Nat
      /\ H # {} => Cardinality(H) # 0
      /\ Q # {} => Cardinality(Q) # 0
  BY FS_CardinalityType, FS_EmptySet
<1>2. QED
  BY <1>1

\* The references to an item are finitely many.
LEMMA HoldsFinite ==
  ASSUME TypeOK, NEW i
  PROVE  /\ IsFiniteSet(ResponseHolds(i)) /\ IsFiniteSet(QueueHolds(i))
         /\ Cardinality(ResponseHolds(i)) \in Nat /\ Cardinality(QueueHolds(i)) \in Nat
<1>1. IsFiniteSet(ResponseHolds(i))
  BY RefsFinite DEF ResponseHolds
<1>2. ti \in Nat /\ tj \in Nat /\ Len(todelete) \in Nat
  BY DEF TypeOK
<1>3. QueueHolds(i) \subseteq (1 .. tj) \cup (ti + 1 .. Len(todelete))
  BY DEF QueueHolds, QueueLive
<1>4. IsFiniteSet(QueueHolds(i))
  BY <1>2, <1>3, PositionsFinite
<1>5. QED
  BY <1>1, <1>4, FS_CardinalityType

\* An item that a response or the queue points to is referenced.
LEMMA HeldIsReferenced ==
  ASSUME TypeOK, RefcountIsHolds, NEW i \in Chunks,
         ResponseHolds(i) # {} \/ QueueHolds(i) # {}
  PROVE  Referenced(store, i)
<1>1. Cardinality(ResponseHolds(i)) + Cardinality(QueueHolds(i)) > 0
  BY HoldsFinite, SomeElement
<1>2. QED
  BY <1>1 DEF RefcountIsHolds, Referenced

\* The same of the next state.
LEMMA HeldIsReferencedNext ==
  ASSUME TypeOK', RefcountIsHolds', NEW i \in Chunks,
         ResponseHolds(i)' # {} \/ QueueHolds(i)' # {}
  PROVE  Referenced(store', i)
<1>1. IsFiniteSet(ResponseHolds(i)')
  BY RefsFinite DEF ResponseHolds
<1>2. ti' \in Nat /\ tj' \in Nat /\ Len(todelete') \in Nat
  BY DEF TypeOK
<1>3. QueueHolds(i)' \subseteq (1 .. tj') \cup (ti' + 1 .. Len(todelete'))
  BY DEF QueueHolds, QueueLive
<1>4. IsFiniteSet(QueueHolds(i)')
  BY <1>2, <1>3, PositionsFinite
<1>5. Cardinality(ResponseHolds(i)') + Cardinality(QueueHolds(i)') > 0
  BY <1>1, <1>4, SomeElement
<1>6. store'.item[i].refcount = Cardinality(ResponseHolds(i)') + Cardinality(QueueHolds(i)')
  BY DEF RefcountIsHolds
<1>7. QED
  BY <1>5, <1>6 DEF Referenced

\* A linked item under a delete lock is referenced.
LEMMA LockedIsReferenced ==
  ASSUME RInv, NEW i \in Chunks, Linked(store, i), "DELETED" \in store.item[i].it_flags
  PROVE  Referenced(store, i)
<1>1. QueueHolds(i) # {}
  BY DEF RInv, DeletedIsQueued
<1>2. QED
  BY <1>1, HeldIsReferenced DEF RInv, IInv

\* Referenced items keep what the responses and the timer read of them.
Held(s, t) ==
  \A i \in Chunks : Referenced(s, i) =>
    /\ t.item[i].key = s.item[i].key /\ t.item[i].nbytes = s.item[i].nbytes
    /\ t.item[i].exptime = s.item[i].exptime
    /\ "DELETED" \in t.item[i].it_flags <=> "DELETED" \in s.item[i].it_flags

\* No item comes under a delete lock, and no linked one is given back to the
\* allocator.
NoNewFlag(s, t) ==
  \A i \in Chunks, f \in {"DELETED", "SLABBED"} :
    Linked(t, i) /\ f \in t.item[i].it_flags => Linked(s, i) /\ f \in s.item[i].it_flags

\* A store that fades holds what is referenced, and flags nothing.
LEMMA FadesHolds ==
  ASSUME NEW s, NEW t, NEW O, Fades(s, t, O)
  PROVE  Held(s, t) /\ NoNewFlag(s, t)
<1>1. ASSUME NEW i \in Chunks, SameItem(s, t, i)
      PROVE  "DELETED" \in t.item[i].it_flags <=> "DELETED" \in s.item[i].it_flags
  BY <1>1 DEF SameItem
<1>2. Held(s, t)
  BY <1>1 DEF Fades, Held, SameItem
<1>3. NoNewFlag(s, t)
  <2> SUFFICES ASSUME NEW i \in Chunks, NEW f \in {"DELETED", "SLABBED"},
                      Linked(t, i), f \in t.item[i].it_flags
               PROVE  Linked(s, i) /\ f \in s.item[i].it_flags
    BY DEF NoNewFlag
  <2>1. Linked(s, i) /\ SameItem(s, t, i)
    BY DEF Fades
  <2>2. QED
    BY <2>1 DEF SameItem
<1>4. QED
  BY <1>2, <1>3

\* Held and NoNewFlag compose, over steps that do not change the references.
LEMMA HeldTrans ==
  ASSUME NEW r, NEW s, NEW t, Held(r, s), Held(s, t), NoNewFlag(r, s), NoNewFlag(s, t),
         \A i \in Chunks : Referenced(r, i) => Referenced(s, i)
  PROVE  Held(r, t) /\ NoNewFlag(r, t)
BY DEF Held, NoNewFlag

\* The responses stay intact when what they point to is held.
LEMMA IntactStep ==
  ASSUME RInv, IInv', StoreSound', RefcountIsHolds', InBounds',
         \A c \in Conns : \A n \in icurr'[c] + 1 .. Len(ilist'[c]) :
           LET e == ilist'[c][n]
           IN  store'.item[e.it].key = e.key /\ store'.item[e.it].nbytes = e.nbytes
  PROVE  ResponseIntact'
<1> SUFFICES ASSUME NEW c \in Conns, NEW n \in icurr'[c] + 1 .. Len(ilist'[c])
             PROVE  ilist'[c][n].it \notin store'.free
  BY DEF ResponseIntact
<1>1. ilist'[c] \in Seq(Entry) /\ icurr'[c] \in Nat /\ MaxIList \in Nat
  BY ItemStoreAssumption DEF IInv, TypeOK
<1>2. n \in 1 .. Len(ilist'[c]) /\ n > icurr'[c] /\ n \in 1 .. MaxIList
  BY <1>1 DEF InBounds
<1>3. ilist'[c][n] \in Entry
  BY <1>1, <1>2
<1> PICK i \in Chunks : i = ilist'[c][n].it
  BY <1>3 DEF Entry
<1>4. <<c, n>> \in ResponseHolds(i)'
  BY <1>1, <1>2 DEF ResponseHolds
<1>5. Referenced(store', i)
  BY <1>4, HeldIsReferencedNext DEF IInv
<1>6. QED
  BY <1>5 DEF StoreSound, Sound, Placed, Live

\* The lists that count the references are not touched.
NoRefMoves == UNCHANGED <<ilist, icurr, todelete, ti, tj>>

\* The queue is as it was when it and the locks of its items are.
LEMMA QueueKept ==
  ASSUME RInv, UNCHANGED <<todelete, ti, tj>>,
         \A i \in Chunks : QueueHolds(i) # {} =>
           /\ store'.item[i].exptime = store.item[i].exptime
           /\ "DELETED" \in store'.item[i].it_flags <=> "DELETED" \in store.item[i].it_flags
  PROVE  QueueSound'
<1>1. QueueLive' = QueueLive /\ todelete' = todelete
  BY DEF QueueLive
<1>2. ASSUME NEW n \in QueueLive
      PROVE  /\ store'.item[todelete[n]].exptime = store.item[todelete[n]].exptime
             /\ "DELETED" \in store'.item[todelete[n]].it_flags
                  <=> "DELETED" \in store.item[todelete[n]].it_flags
  <2>1. todelete[n] \in Chunks
    BY DEF RInv, IInv, TypeOK, TimerBounds, QueueLive
  <2>2. n \in QueueHolds(todelete[n])
    BY DEF QueueHolds
  <2>3. QED
    BY <2>1, <2>2
<1>3. QED
  BY <1>1, <1>2 DEF RInv, QueueSound, QueuedOnce, QueuedIsDeleted

\* A step that moves no reference.
LEMMA QuietStep ==
  ASSUME RInv, IInv', NoRefMoves, TimerIdle', StoreSound', OwnedApart', OwnersRead',
         CallerOwnsNone', current_time' <= MaxTime,
         SameRefs(store, store'), Held(store, store'), NoNewFlag(store, store')
  PROVE  RInv'
<1>1. ASSUME NEW i
      PROVE  ResponseHolds(i)' = ResponseHolds(i) /\ QueueHolds(i)' = QueueHolds(i)
  BY DEF NoRefMoves, ResponseHolds, QueueHolds, QueueLive
<1>2. RefcountIsHolds'
  BY <1>1 DEF RInv, RefcountIsHolds, SameRefs
<1>3. InBounds'
  BY DEF RInv, InBounds, NoRefMoves
<1>4. DeletedIsQueued'
  BY <1>1 DEF RInv, DeletedIsQueued, NoNewFlag
<1>5. ASSUME NEW c \in Conns, NEW n \in icurr'[c] + 1 .. Len(ilist'[c])
      PROVE  LET e == ilist'[c][n]
             IN  store'.item[e.it].key = e.key /\ store'.item[e.it].nbytes = e.nbytes
  <2> DEFINE e == ilist[c][n]
  <2>1. ilist'[c][n] = e /\ n \in icurr[c] + 1 .. Len(ilist[c])
    BY DEF NoRefMoves
  <2>2. ilist[c] \in Seq(Entry) /\ icurr[c] \in Nat /\ MaxIList \in Nat
    BY ItemStoreAssumption DEF RInv, IInv, TypeOK
  <2>3. n \in 1 .. Len(ilist[c]) /\ n > icurr[c] /\ n \in 1 .. MaxIList
    BY <2>1, <2>2 DEF RInv, InBounds
  <2>4. e.it \in Chunks
    <3>1. e \in Entry
      BY <2>2, <2>3
    <3>2. QED
      BY <3>1 DEF Entry
  <2>5. <<c, n>> \in ResponseHolds(e.it)
    BY <2>2, <2>3 DEF ResponseHolds
  <2>6. Referenced(store, e.it)
    BY <2>4, <2>5, HeldIsReferenced DEF RInv, IInv
  <2>7. store.item[e.it].key = e.key /\ store.item[e.it].nbytes = e.nbytes
    BY <2>1 DEF RInv, ResponseIntact
  <2>8. QED
    BY <2>1, <2>4, <2>6, <2>7 DEF Held
<1>6. ResponseIntact'
  BY <1>2, <1>3, <1>5, IntactStep
<1>7. QueueSound'
  <2>1. UNCHANGED <<todelete, ti, tj>>
    BY DEF NoRefMoves
  <2>2. \A i \in Chunks : QueueHolds(i) # {} => Referenced(store, i)
    BY HeldIsReferenced DEF RInv, IInv
  <2>3. QED
    BY <2>1, <2>2, QueueKept DEF Held
<1>8. LinkedIsNotSlabbed'
  BY DEF RInv, LinkedIsNotSlabbed, NoNewFlag
<1>9. QED
  BY <1>2, <1>3, <1>4, <1>6, <1>7, <1>8 DEF RInv

\* Item i stays linked and locked, with the same time.
LockStays(s, t, i) ==
  /\ Linked(t, i) /\ t.item[i].key = s.item[i].key
  /\ t.item[i].exptime = s.item[i].exptime /\ "DELETED" \in t.item[i].it_flags

\* Every item under a delete lock does.
LocksStay(s, t) ==
  \A i \in Chunks : Linked(s, i) /\ DeleteLocked(s, i) => LockStays(s, t, i)

\* They do when the store fades, if they stay linked.
LEMMA FadesLocks ==
  ASSUME NEW s, NEW t, NEW O, Fades(s, t, O),
         \A i \in Chunks : Linked(s, i) /\ DeleteLocked(s, i) => Linked(t, i)
  PROVE  LocksStay(s, t)
<1> SUFFICES ASSUME NEW i \in Chunks, Linked(s, i), DeleteLocked(s, i)
             PROVE  LockStays(s, t, i)
  BY DEF LocksStay
<1>1. Linked(t, i) /\ SameItem(s, t, i)
  BY DEF Fades
<1>2. QED
  BY <1>1 DEF SameItem, DeleteLocked, LockStays

\* A store that is sound now is sound later.
LEMMA SoundLater ==
  ASSUME NEW s, NEW O, NEW now \in Nat, NEW later \in Nat, SetBack \/ now <= later,
         Sound(s, O, now)
  PROVE  Sound(s, O, later)
<1>1. \A i \in Chunks : s.item[i].time \in Nat
  BY ItemTypes DEF Sound
<1>2. Order(s, later)
  BY <1>1 DEF Sound, Order
<1>3. QED
  BY <1>2 DEF Sound

\* The types of the invariant that the steps need.
LEMMA RInvTypes ==
  ASSUME RInv
  PROVE  /\ store \in Store /\ current_time \in Nat /\ current_time \in ItemTimes
         /\ \A c \in Conns : citem[c] \in Chunks \cup {NULL}
         /\ \A c \in Conns : citem[c] # NULL => citem[c] \in Owned
         /\ NULL \notin Chunks /\ Owned \subseteq Chunks
BY ItemStoreAssumption, ItemsAssumption, PoolAssumption DEF RInv, IInv, TypeOK, Owned

\* A step that leaves the items alone.
LEMMA StillStep ==
  ASSUME RInv, IInv', NoRefMoves, TimerIdle', CallerOwnsNone', UNCHANGED <<store, citem>>,
         SetBack \/ current_time <= current_time', current_time' <= MaxTime,
         \A c \in Conns : citem[c] # NULL => state'[c] = "conn_nread"
  PROVE  RInv'
<1>1. Owned' = Owned
  BY DEF Owned
<1>2. StoreSound'
  <2>1. current_time \in Nat /\ current_time' \in Nat
    BY ItemStoreAssumption, ItemsAssumption DEF RInv, IInv, TypeOK
  <2>2. Sound(store, Owned, current_time')
    BY <2>1, SoundLater DEF RInv, StoreSound
  <2>3. QED
    BY <1>1, <2>2 DEF StoreSound
<1>3. OwnedApart' /\ OwnersRead'
  BY DEF RInv, OwnedApart, OwnersRead
<1>4. SameRefs(store, store') /\ Held(store, store') /\ NoNewFlag(store, store')
  BY DEF SameRefs, Held, NoNewFlag
<1>5. QED
  BY <1>2, <1>3, <1>4, QuietStep

\* The actions of which that is so: a new connection, the start and the end of
\* handlers, the clock and the flushes.
LEMMA StillActions ==
  ASSUME RInv, IInv',
         \/ \E c \in Conns : conn_new(c) \/ transmit_complete(c) \/ command_get(c)
         \/ command_get_end \/ timer_delete_handler \/ clock_handler
         \/ \E c \in Conns : flush_all_handler(c)
         \/ \E c \in Conns, t \in FlushTimes : flush_all_at(c, t)
  PROVE  RInv' /\ UNCHANGED store
<1> USE DEF timeVars, timerVars, connVars, NoRefMoves
<1>1. /\ current_time \in Nat /\ current_time <= MaxTime /\ MaxTime \in Nat
      /\ TimerIdle /\ CallerOwnsNone
      /\ \A c \in Conns : citem[c] # NULL => state[c] = "conn_nread"
  BY RInvTypes, ItemStoreAssumption, ItemsAssumption DEF RInv, OwnersRead, InBounds
<1>2. state \in [Conns -> ConnStates]
  BY DEF RInv, IInv, TypeOK
<1>3. CASE \E c \in Conns : conn_new(c)
  <2>1. PICK c \in Conns : conn_new(c)
    BY <1>3
  <2>2. \A d \in Conns : citem[d] # NULL => state'[d] = "conn_nread"
    BY <1>1, <1>2, <2>1 DEF conn_new
  <2>3. TimerIdle' /\ CallerOwnsNone' /\ NoRefMoves /\ UNCHANGED <<store, citem, current_time>>
    BY <1>1, <2>1 DEF conn_new, TimerIdle, CallerOwnsNone
  <2>4. QED
    BY <1>1, <2>2, <2>3, StillStep
<1>4. CASE \E c \in Conns : transmit_complete(c) \/ command_get(c)
  <2>1. PICK c \in Conns : transmit_complete(c) \/ command_get(c)
    BY <1>4
  <2>2. /\ who' = c /\ fn = "ae_loop" /\ state[c] \in {"conn_read", "conn_mwrite"}
        /\ NoRefMoves /\ UNCHANGED <<store, citem, current_time, state>>
    BY <2>1 DEF transmit_complete, command_get, Call, Ready
  <2>3. TimerIdle' /\ CallerOwnsNone'
    BY <1>1, <2>2 DEF TimerIdle, CallerOwnsNone
  <2>4. QED
    BY <1>1, <2>2, <2>3, StillStep
<1>5. CASE command_get_end
  <2>1. citem[who] = NULL /\ fn = "command_get" /\ state' = [state EXCEPT ![who] = "conn_mwrite"]
        /\ fn' = "ae_loop" /\ NoRefMoves /\ UNCHANGED <<store, citem, current_time>>
    BY <1>1, <1>5 DEF command_get_end, CallerOwnsNone, Return
  <2>2. \A d \in Conns : citem[d] # NULL => state'[d] = "conn_nread"
    BY <1>1, <1>2, <2>1
  <2>3. TimerIdle' /\ CallerOwnsNone'
    BY <1>1, <2>1 DEF TimerIdle, CallerOwnsNone
  <2>4. QED
    BY <1>1, <2>1, <2>2, <2>3, StillStep
<1>6. CASE timer_delete_handler
  <2>1. /\ fn = "ae_loop" /\ fn' = "timer_delete_handler" /\ ti' = 0 /\ tj' = 0
        /\ UNCHANGED <<store, citem, current_time, state, ilist, icurr, todelete>>
    BY <1>6 DEF timer_delete_handler, Call
  <2>2. ti' = ti /\ tj' = tj /\ TimerIdle' /\ CallerOwnsNone'
    BY <1>1, <2>1 DEF TimerIdle, CallerOwnsNone
  <2>3. NoRefMoves
    BY <2>1, <2>2
  <2>4. QED
    BY <1>1, <2>1, <2>2, <2>3, StillStep
<1>7. CASE \/ clock_handler
           \/ \E c \in Conns : flush_all_handler(c)
           \/ \E c \in Conns, t \in FlushTimes : flush_all_at(c, t)
  <2>1. /\ SetBack \/ current_time <= current_time'
        /\ current_time' <= MaxTime /\ NoRefMoves /\ fn = "ae_loop"
        /\ UNCHANGED <<store, citem, state, fn, who>>
    <3>1. CASE clock_handler
      BY <1>1, <3>1 DEF clock_handler, set_current_time
    <3>2. CASE \E c \in Conns : flush_all_handler(c)
      BY <1>1, <3>2 DEF flush_all_handler, set_current_time, Ready
    <3>3. CASE \E c \in Conns, t \in FlushTimes : flush_all_at(c, t)
      BY <1>1, <3>3 DEF flush_all_at, set_current_time, Ready
    <3>4. QED
      BY <1>7, <3>1, <3>2, <3>3
  <2>2. TimerIdle' /\ CallerOwnsNone'
    BY <1>1, <2>1 DEF TimerIdle, CallerOwnsNone
  <2>3. QED
    BY <1>1, <2>1, <2>2, StillStep
<1>8. QED
  BY <1>3, <1>4, <1>5, <1>6, <1>7

\* conn_close: the chunk being read into is given back.
LEMMA ConnCloseRefs ==
  ASSUME RInv, IInv', NEW c \in Conns, conn_close(c)
  PROVE  RInv' /\ LocksStay(store, store')
<1> USE DEF timeVars, timerVars, NoRefMoves
<1>1. /\ fn = "ae_loop" /\ fn' = "conn_cleanup" /\ who' = c
      /\ store' = IF citem[c] = NULL THEN store ELSE item_free(store, citem[c])
      /\ citem' = [citem EXCEPT ![c] = NULL]
      /\ NoRefMoves /\ UNCHANGED <<current_time, state>>
  BY DEF conn_close, Call
<1>2. citem \in [Conns -> Chunks \cup {NULL}]
  BY DEF RInv, IInv, TypeOK
<1>3. citem'[c] = NULL /\ \A d \in Conns \ {c} : citem'[d] = citem[d]
  BY <1>1, <1>2
<1>4. Owned' = Owned \ {citem[c]}
  BY <1>2, <1>3 DEF Owned, RInv, OwnedApart
<1>5. Sound(store', Owned', current_time) /\ Fades(store, store', Owned')
      /\ \A i \in Chunks : Linked(store', i) <=> Linked(store, i)
  <2>1. CASE citem[c] = NULL
    <3>1. Owned' = Owned
      BY <1>4, <2>1 DEF Owned
    <3>2. QED
      BY <1>1, <2>1, <3>1, FadesSelf DEF RInv, StoreSound
  <2>2. CASE citem[c] # NULL
    <3>1. /\ citem[c] \in Chunks /\ ~ Live(store, citem[c])
          /\ PageOf[citem[c]] \in store.pages
      BY <2>2, RInvTypes DEF RInv, StoreSound, Sound, Placed
    <3>2. QED
      BY <1>1, <1>4, <2>2, <3>1, FreeSound DEF RInv, StoreSound
  <2>3. QED
    BY <2>1, <2>2
<1>6. StoreSound' /\ OwnedApart'
  BY <1>1, <1>3, <1>5 DEF StoreSound, RInv, OwnedApart
<1>7. OwnersRead'
  <2> SUFFICES ASSUME NEW d \in Conns, citem'[d] # NULL
               PROVE  state'[d] = "conn_nread" /\ store'.item[citem'[d]].it_flags = {}
    BY DEF OwnersRead
  <2>1. d # c /\ citem'[d] = citem[d] /\ citem[d] \in Chunks /\ citem'[d] \in Owned'
    BY <1>2, <1>3 DEF Owned
  <2>2. SameItem(store, store', citem[d]) /\ ~ Linked(store', citem[d])
    BY <1>5, <2>1 DEF Fades, Sound, Placed, Live
  <2>3. QED
    BY <1>1, <2>1, <2>2 DEF RInv, OwnersRead, SameItem, Linked
<1>8. TimerIdle' /\ CallerOwnsNone'
  BY <1>1, <1>3 DEF RInv, TimerIdle, CallerOwnsNone
<1>9. Held(store, store') /\ NoNewFlag(store, store') /\ SameRefs(store, store')
  BY <1>5, FadesHolds DEF Fades
<1>10. RInv'
  <2>1. current_time' <= MaxTime
    BY <1>1 DEF RInv, InBounds
  <2>2. QED
    BY <1>1, <1>6, <1>7, <1>8, <1>9, <2>1, QuietStep
<1>11. LocksStay(store, store')
  BY <1>5, FadesLocks
<1>12. QED
  BY <1>10, <1>11

\* An owned chunk that is not changed still has no flag.
LEMMA OwnerFlags ==
  ASSUME NEW s, NEW t, NEW O, NEW now, Sound(t, O, now), NEW i \in Chunks, i \in O,
         SameItem(s, t, i), s.item[i].it_flags = {}
  PROVE  t.item[i].it_flags = {}
<1>1. ~ Linked(t, i)
  BY DEF Sound, Placed, Live
<1>2. QED
  BY <1>1 DEF SameItem, Linked

\* The responses stay intact when entries only go, and the items of those that
\* stay are not changed.
LEMMA IntactSame ==
  ASSUME RInv, IInv', StoreSound', RefcountIsHolds', InBounds',
         \A c \in Conns : \A n \in icurr'[c] + 1 .. Len(ilist'[c]) :
           n \in icurr[c] + 1 .. Len(ilist[c]) /\ ilist'[c][n] = ilist[c][n],
         \A i \in Chunks : Referenced(store', i) =>
           store'.item[i].key = store.item[i].key /\ store'.item[i].nbytes = store.item[i].nbytes
  PROVE  ResponseIntact'
<1>1. ASSUME NEW c \in Conns, NEW n \in icurr'[c] + 1 .. Len(ilist'[c])
      PROVE  LET e == ilist'[c][n]
             IN  store'.item[e.it].key = e.key /\ store'.item[e.it].nbytes = e.nbytes
  <2> DEFINE e == ilist[c][n]
  <2>1. ilist'[c][n] = e /\ n \in icurr[c] + 1 .. Len(ilist[c])
    OBVIOUS
  <2>2. ilist'[c] \in Seq(Entry) /\ icurr'[c] \in Nat /\ MaxIList \in Nat
    BY ItemStoreAssumption DEF IInv, TypeOK
  <2>3. n \in 1 .. Len(ilist'[c]) /\ n > icurr'[c] /\ n \in 1 .. MaxIList
    BY <2>2 DEF InBounds
  <2>4. e \in Entry /\ e.it \in Chunks
    <3>1. e \in Entry
      BY <2>1, <2>2, <2>3
    <3>2. QED
      BY <3>1 DEF Entry
  <2>5. \A i : i = e.it => <<c, n>> \in ResponseHolds(i)'
    BY <2>1, <2>2, <2>3 DEF ResponseHolds
  <2>6. Referenced(store', e.it)
    <3>1. PICK i \in Chunks : i = e.it
      BY <2>4
    <3>2. ResponseHolds(i)' # {}
      BY <2>5, <3>1
    <3>3. Referenced(store', i)
      BY <3>2, HeldIsReferencedNext DEF IInv
    <3>4. QED
      BY <3>1, <3>3
  <2>7. store.item[e.it].key = e.key /\ store.item[e.it].nbytes = e.nbytes
    BY <2>1 DEF RInv, ResponseIntact
  <2>8. QED
    BY <2>1, <2>4, <2>6, <2>7
<1>2. QED
  BY <1>1, IntactStep

\* One response entry is released.
LEMMA ReleaseItemRefs ==
  ASSUME RInv, IInv', release_item
  PROVE  RInv' /\ LocksStay(store, store')
<1> USE DEF timeVars, timerVars
<1>1. /\ fn \in {"drive_machine", "conn_cleanup"} /\ who \in Conns
      /\ icurr[who] < Len(ilist[who])
      /\ icurr' = [icurr EXCEPT ![who] = @ + 1]
      /\ UNCHANGED <<current_time, todelete, state, citem, item_comm, ilist, fn, who, ti, tj>>
  BY DEF release_item, RInv, IInv, CallerIsConn
<1> PICK w \in Conns : w = who
  BY <1>1
<1>2. ilist[w] \in Seq(Entry) /\ icurr[w] \in Nat /\ MaxIList \in Nat
      /\ Len(ilist[w]) <= MaxIList /\ Len(ilist[w]) \in Nat
  BY ItemStoreAssumption DEF RInv, IInv, TypeOK, InBounds
<1> PICK n \in Nat : n = icurr[w] + 1
  BY <1>2
<1>3. n \in 1 .. Len(ilist[w]) /\ n \in 1 .. MaxIList /\ n > icurr[w]
  BY <1>1, <1>2
<1>4. ilist[w][n] \in Entry
  BY <1>2, <1>3
<1> PICK it \in Chunks : it = ilist[w][n].it
  BY <1>4 DEF Entry
<1>5. store' = item_remove(store, it)
  BY <1>1 DEF release_item
<1>6. icurr \in [Conns -> Nat]
  BY DEF RInv, IInv, TypeOK
<1>7. icurr'[w] = n /\ \A d \in Conns \ {w} : icurr'[d] = icurr[d]
  BY <1>1, <1>6
<1>8. <<w, n>> \in ResponseHolds(it)
  BY <1>2, <1>3 DEF ResponseHolds
<1>9. Referenced(store, it)
  BY <1>8, HeldIsReferenced DEF RInv, IInv
<1>10. /\ Sound(store', Owned, current_time)
       /\ \A j \in Chunks :
            /\ Linked(store', j) <=> Linked(store, j)
            /\ store'.item[j].refcount = IF j = it THEN store.item[it].refcount - 1
                                         ELSE store.item[j].refcount
            /\ Live(store', j) \/ j \in Owned => SameItem(store, store', j)
  <2>1. Sound(store, Owned, current_time)
    BY DEF RInv, StoreSound
  <2>2. Sound(store', Owned, current_time) /\ Dropped(store, store', it, Owned)
    BY <1>5, <1>9, <2>1, ItemRemoveSound
  <2>3. QED
    BY <2>2 DEF Dropped
<1>11. Owned' = Owned /\ StoreSound'
  BY <1>1, <1>10 DEF Owned, StoreSound
<1>12. RefcountIsHolds'
  <2> SUFFICES ASSUME NEW j \in Chunks
               PROVE  store'.item[j].refcount
                        = Cardinality(ResponseHolds(j)') + Cardinality(QueueHolds(j)')
    BY DEF RefcountIsHolds
  <2>1. QueueHolds(j)' = QueueHolds(j)
    BY <1>1 DEF QueueHolds, QueueLive
  <2>2. ResponseHolds(j)' = ResponseHolds(j) \ {<<w, n>>}
    <3>1. \A d \in Conns, m \in 1 .. MaxIList :
            m > icurr'[d] <=> m > icurr[d] /\ <<d, m>> # <<w, n>>
      BY <1>2, <1>6, <1>7
    <3>2. QED
      BY <1>1, <3>1 DEF ResponseHolds
  <2>3. store.item[j].refcount = Cardinality(ResponseHolds(j)) + Cardinality(QueueHolds(j))
    BY DEF RInv, RefcountIsHolds
  <2>4. IsFiniteSet(ResponseHolds(j)) /\ Cardinality(ResponseHolds(j)) \in Nat
        /\ Cardinality(QueueHolds(j)) \in Nat
    BY HoldsFinite DEF RInv, IInv
  <2>5. CASE j = it
    <3>1. Cardinality(ResponseHolds(j)') = Cardinality(ResponseHolds(j)) - 1
      <4>1. PICK R : R = ResponseHolds(j)
        OBVIOUS
      <4>2. Cardinality(R \ {<<w, n>>}) = Cardinality(R) - 1
        BY <1>8, <2>4, <2>5, <4>1, FS_RemoveElement
      <4>3. QED
        BY <2>2, <4>1, <4>2
    <3>2. QED
      BY <1>10, <2>1, <2>3, <2>4, <2>5, <3>1
  <2>6. CASE j # it
    <3>1. <<w, n>> \notin ResponseHolds(j)
      BY <2>6 DEF ResponseHolds
    <3>2. ResponseHolds(j)' = ResponseHolds(j)
      BY <2>2, <3>1
    <3>3. QED
      BY <1>10, <2>1, <2>3, <2>6, <3>2
  <2>7. QED
    BY <2>5, <2>6
<1>13. InBounds'
  BY <1>1, <1>2, <1>3, <1>7 DEF RInv, InBounds
<1>14. ResponseIntact'
  <2>1. ASSUME NEW c \in Conns, NEW m \in icurr'[c] + 1 .. Len(ilist'[c])
        PROVE  m \in icurr[c] + 1 .. Len(ilist[c]) /\ ilist'[c][m] = ilist[c][m]
    <3>1. icurr[c] \in Nat /\ icurr[c] <= icurr'[c] /\ icurr'[c] \in Nat
          /\ Len(ilist[c]) \in Nat /\ ilist' = ilist
      BY <1>1, <1>6, <1>7 DEF RInv, IInv, TypeOK
    <3>2. QED
      BY <3>1
  <2>2. ASSUME NEW j \in Chunks, Referenced(store', j)
        PROVE  store'.item[j].key = store.item[j].key
               /\ store'.item[j].nbytes = store.item[j].nbytes
    BY <1>10, <2>2 DEF Live, SameItem
  <2>3. QED
    BY <1>11, <1>12, <1>13, <2>1, <2>2, IntactSame
<1>15. OwnedApart' /\ CallerOwnsNone' /\ TimerIdle'
  BY <1>1 DEF RInv, OwnedApart, CallerOwnsNone, TimerIdle
<1>16. OwnersRead'
  <2> SUFFICES ASSUME NEW d \in Conns, citem[d] # NULL
               PROVE  state'[d] = "conn_nread" /\ store'.item[citem[d]].it_flags = {}
    BY <1>1 DEF OwnersRead
  <2>1. citem[d] \in Owned /\ citem[d] \in Chunks
    BY RInvTypes
  <2>2. SameItem(store, store', citem[d]) /\ store.item[citem[d]].it_flags = {}
    BY <1>10, <2>1 DEF RInv, OwnersRead
  <2>3. QED
    BY <1>1, <1>10, <2>1, <2>2, OwnerFlags DEF RInv, OwnersRead
<1>17. DeletedIsQueued'
  <2> SUFFICES ASSUME NEW j \in Chunks, Linked(store', j),
                      "DELETED" \in store'.item[j].it_flags
               PROVE  QueueHolds(j)' # {}
    BY DEF DeletedIsQueued
  <2>1. Linked(store, j) /\ "DELETED" \in store.item[j].it_flags
    BY <1>10 DEF Live, SameItem
  <2>2. QueueHolds(j)' = QueueHolds(j)
    BY <1>1 DEF QueueHolds, QueueLive
  <2>3. QED
    BY <2>1, <2>2 DEF RInv, DeletedIsQueued
<1>18. LocksStay(store, store')
  <2> SUFFICES ASSUME NEW i \in Chunks, Linked(store, i), DeleteLocked(store, i)
               PROVE  LockStays(store, store', i)
    BY DEF LocksStay
  <2>1. Linked(store', i) /\ SameItem(store, store', i)
    BY <1>10 DEF Live
  <2>2. QED
    BY <2>1 DEF SameItem, DeleteLocked, LockStays
<1>19. QueueSound'
  <2>1. ASSUME NEW j \in Chunks, QueueHolds(j) # {}
        PROVE  SameItem(store, store', j)
    <3>1. QueueHolds(j)' = QueueHolds(j)
      BY <1>1 DEF QueueHolds, QueueLive
    <3>2. Referenced(store', j)
      BY <1>12, <2>1, <3>1, HeldIsReferencedNext DEF IInv
    <3>3. QED
      BY <1>10, <3>2 DEF Live
  <2>2. ASSUME NEW j \in Chunks, QueueHolds(j) # {}
        PROVE  /\ store'.item[j].exptime = store.item[j].exptime
               /\ "DELETED" \in store'.item[j].it_flags
                    <=> "DELETED" \in store.item[j].it_flags
    BY <2>1, <2>2 DEF SameItem
  <2>3. QED
    BY <1>1, <2>2, QueueKept
<1>20. LinkedIsNotSlabbed'
  <2> SUFFICES ASSUME NEW j \in Chunks, Linked(store', j)
               PROVE  "SLABBED" \notin store'.item[j].it_flags
    BY DEF LinkedIsNotSlabbed
  <2>1. Linked(store, j) /\ SameItem(store, store', j)
    BY <1>10 DEF Live
  <2>2. QED
    BY <2>1 DEF SameItem, RInv, LinkedIsNotSlabbed
<1>21. QED
  BY <1>11, <1>12, <1>13, <1>14, <1>15, <1>16, <1>17, <1>18, <1>19, <1>20 DEF RInv

\* The response is done: its list is emptied.
LEMMA ReleaseEndRefs ==
  ASSUME RInv, IInv', release_end
  PROVE  RInv' /\ UNCHANGED store
<1> USE DEF timeVars, timerVars
<1>1. /\ fn \in {"drive_machine", "conn_cleanup"} /\ who \in Conns
      /\ icurr[who] = Len(ilist[who]) /\ fn' = "ae_loop"
      /\ state' = [state EXCEPT ![who] = IF fn = "conn_cleanup" THEN "closed" ELSE "conn_read"]
      /\ ilist' = [ilist EXCEPT ![who] = <<>>]
      /\ icurr' = [icurr EXCEPT ![who] = 0]
      /\ UNCHANGED <<store, current_time, todelete, citem, item_comm, ti, tj>>
  BY DEF release_end, RInv, IInv, CallerIsConn, Return
<1> PICK w \in Conns : w = who
  BY <1>1
<1>2. /\ icurr \in [Conns -> Nat] /\ ilist \in [Conns -> Seq(Entry)]
      /\ state \in [Conns -> ConnStates] /\ MaxIList \in Nat
  BY ItemStoreAssumption DEF RInv, IInv, TypeOK
<1>3. /\ icurr'[w] = 0 /\ ilist'[w] = <<>>
      /\ \A d \in Conns \ {w} :
           icurr'[d] = icurr[d] /\ ilist'[d] = ilist[d] /\ state'[d] = state[d]
  BY <1>1, <1>2
<1>4. Owned' = Owned /\ StoreSound'
  BY <1>1 DEF Owned, RInv, StoreSound
<1>5. ASSUME NEW j
      PROVE  ResponseHolds(j)' = ResponseHolds(j) /\ QueueHolds(j)' = QueueHolds(j)
  <2>1. \A d \in Conns, m \in 1 .. MaxIList :
          m \in DOMAIN ilist'[d] /\ m > icurr'[d] /\ ilist'[d][m].it = j
            <=> m \in DOMAIN ilist[d] /\ m > icurr[d] /\ ilist[d][m].it = j
    <3>1. ASSUME NEW m \in 1 .. MaxIList
          PROVE  m \notin DOMAIN ilist'[w] /\ ~ (m \in DOMAIN ilist[w] /\ m > icurr[w])
      BY <1>1, <1>2, <1>3
    <3>2. QED
      BY <1>3, <3>1
  <2>2. ResponseHolds(j)' = ResponseHolds(j)
    BY <2>1 DEF ResponseHolds
  <2>3. QueueHolds(j)' = QueueHolds(j)
    BY <1>1 DEF QueueHolds, QueueLive
  <2>4. QED
    BY <2>2, <2>3
<1>6. RefcountIsHolds' /\ DeletedIsQueued'
  BY <1>1, <1>5 DEF RInv, RefcountIsHolds, DeletedIsQueued
<1>7. InBounds'
  <2>1. Len(<<>>) = 0
    OBVIOUS
  <2>2. QED
    BY <1>1, <1>2, <1>3, <2>1 DEF RInv, InBounds
<1>8. ResponseIntact'
  <2>1. ASSUME NEW c \in Conns, NEW m \in icurr'[c] + 1 .. Len(ilist'[c])
        PROVE  m \in icurr[c] + 1 .. Len(ilist[c]) /\ ilist'[c][m] = ilist[c][m]
    <3>1. c # w
      BY <1>3
    <3>2. QED
      BY <1>3, <3>1
  <2>2. QED
    BY <1>1, <1>4, <1>6, <1>7, <2>1, IntactSame
<1>9. OwnedApart' /\ CallerOwnsNone' /\ TimerIdle'
  BY <1>1 DEF RInv, OwnedApart, CallerOwnsNone, TimerIdle
<1>10. OwnersRead'
  BY <1>1, <1>2, <1>3 DEF RInv, OwnersRead, CallerOwnsNone
<1>11. QueueSound'
  BY <1>1, QueueKept
<1>12. LinkedIsNotSlabbed'
  BY <1>1 DEF RInv, LinkedIsNotSlabbed
<1>13. QED
  BY <1>1, <1>4, <1>6, <1>7, <1>8, <1>9, <1>10, <1>11, <1>12 DEF RInv

\* Items that may not be evicted stay under their delete lock.
LEMMA SparedLocks ==
  ASSUME RInv, NEW t, NEW O, Fades(store, t, O), Spares(store, t)
  PROVE  LocksStay(store, t)
<1>1. ASSUME NEW i \in Chunks, Linked(store, i), DeleteLocked(store, i)
      PROVE  Linked(t, i)
  BY <1>1, LockedIsReferenced DEF DeleteLocked, Spares
<1>2. QED
  BY <1>1, FadesLocks

\* Lookups and linked items of a sound table.
LEMMA FindLinked ==
  ASSUME NEW s, Table(s)
  PROVE  /\ \A k \in Keys :
              assoc_find(s, k) # NULL =>
                assoc_find(s, k) \in Chunks /\ Linked(s, assoc_find(s, k))
                /\ s.item[assoc_find(s, k)].key = k
         /\ \A i \in Chunks : Linked(s, i) => assoc_find(s, s.item[i].key) = i
<1>1. \A i \in Chunks : Head(<<i>>) = i /\ <<i>> # <<>>
  OBVIOUS
<1>2. QED
  BY <1>1 DEF Table, assoc_find

\* Every linked item of r that is referenced is linked in s, but perhaps i.
SparesOthers(r, s, i) ==
  \A j \in Chunks \ {i} : Linked(r, j) /\ Referenced(r, j) => Linked(s, j)

\* What item_alloc does for set, add and replace: a new item is owned, and
\* items that are referenced stay linked.
LEMMA CommandReplaceRefs ==
  ASSUME RInv, IInv', NEW c \in Conns, NEW comm \in Comms, NEW k \in Keys, NEW len \in Lens,
         NEW exptime \in SetTimes, command_replace(c, comm, k, len, exptime)
  PROVE  RInv' /\ LocksStay(store, store') /\ Spares(store, store')
<1> USE DEF timeVars, timerVars, NoRefMoves
<1>1. fn = "ae_loop" /\ state[c] = "conn_read" /\ NoRefMoves
      /\ UNCHANGED <<current_time, fn, who>>
  BY DEF command_replace, Ready
<1>2. PICK x \in ItemTimes : x = realtime(exptime, current_time)
  <2>1. exptime \in Int /\ current_time \in RelTime
    BY ItemStoreAssumption DEF RInv, IInv, TypeOK
  <2>2. QED
    BY <2>1, RealtimeType
<1>3. PICK o \in item_alloc(store, k, len, x) :
        /\ store' = o.s
        /\ IF o.it = NULL
           THEN UNCHANGED <<state, citem, item_comm>>
           ELSE /\ state' = [state EXCEPT ![c] = "conn_nread"]
                /\ citem' = [citem EXCEPT ![c] = o.it]
                /\ item_comm' = [item_comm EXCEPT ![c] = comm]
  BY <1>2 DEF command_replace
<1>4. Sound(store, Owned, current_time)
  BY DEF RInv, StoreSound
<1>5. /\ Fades(store, store', Owned) /\ Spares(store, store')
      /\ \/ o.it = NULL /\ Sound(store', Owned, current_time)
         \/ /\ o.it \in Chunks /\ o.it \notin Owned
            /\ Sound(store', Owned \cup {o.it}, current_time)
            /\ store'.item[o.it] = NewItem(k, len, x)
  BY <1>2, <1>3, <1>4, ItemAllocSound
<1>6. /\ citem \in [Conns -> Chunks \cup {NULL}] /\ state \in [Conns -> ConnStates]
      /\ citem[c] = NULL /\ NULL \notin Chunks /\ CallerOwnsNone
  BY <1>1, PoolAssumption DEF RInv, IInv, TypeOK, OwnersRead
<1>7. ASSUME NEW d \in Conns, citem[d] # NULL, NEW O, Sound(store', O, current_time),
             Owned \subseteq O
      PROVE  state[d] = "conn_nread" /\ store'.item[citem[d]].it_flags = {}
  <2>1. citem[d] \in Owned /\ citem[d] \in Chunks
    BY <1>7, RInvTypes
  <2>2. SameItem(store, store', citem[d]) /\ store.item[citem[d]].it_flags = {}
        /\ state[d] = "conn_nread"
    BY <1>5, <1>7, <2>1 DEF RInv, OwnersRead, Fades
  <2>3. QED
    BY <1>7, <2>1, <2>2, OwnerFlags
<1>8. StoreSound' /\ OwnedApart' /\ OwnersRead' /\ CallerOwnsNone' /\ TimerIdle'
  <2>1. CASE o.it = NULL
    <3>1. UNCHANGED <<state, citem>> /\ Owned' = Owned
      BY <1>3, <2>1 DEF Owned
    <3>2. Sound(store', Owned, current_time)
      BY <1>5, <1>6, <2>1
    <3>3. StoreSound' /\ OwnedApart' /\ CallerOwnsNone' /\ TimerIdle'
      BY <1>1, <3>1, <3>2 DEF RInv, StoreSound, OwnedApart, CallerOwnsNone, TimerIdle
    <3>4. OwnersRead'
      BY <1>7, <3>1, <3>2 DEF OwnersRead
    <3>5. QED
      BY <3>3, <3>4
  <2>2. CASE o.it # NULL
    <3>1. /\ o.it \in Chunks /\ o.it \notin Owned
          /\ Sound(store', Owned \cup {o.it}, current_time)
          /\ store'.item[o.it] = NewItem(k, len, x)
      BY <1>5, <2>2
    <3>2. /\ citem'[c] = o.it /\ state'[c] = "conn_nread"
          /\ \A d \in Conns \ {c} : citem'[d] = citem[d] /\ state'[d] = state[d]
      BY <1>3, <1>6, <2>2
    <3>3. Owned' = Owned \cup {o.it}
      BY <1>6, <2>2, <3>2 DEF Owned
    <3>4. OwnedApart'
      <4>1. \A d \in Conns \ {c} : citem[d] # o.it
        BY <2>2, <3>1 DEF Owned
      <4>2. QED
        BY <3>2, <4>1 DEF RInv, OwnedApart
    <3>5. NewItem(k, len, x).it_flags = {}
      BY DEF NewItem, BlankItem
    <3>6. OwnersRead'
      <4> SUFFICES ASSUME NEW d \in Conns, citem'[d] # NULL
                   PROVE  state'[d] = "conn_nread" /\ store'.item[citem'[d]].it_flags = {}
        BY DEF OwnersRead
      <4>1. CASE d = c
        BY <3>1, <3>2, <3>5, <4>1
      <4>2. CASE d # c
        BY <1>7, <3>1, <3>2, <4>2
      <4>3. QED
        BY <4>1, <4>2
    <3>7. QED
      BY <1>1, <3>1, <3>3, <3>4, <3>6 DEF RInv, StoreSound, CallerOwnsNone, TimerIdle
  <2>3. QED
    BY <2>1, <2>2
<1>9. SameRefs(store, store') /\ Held(store, store') /\ NoNewFlag(store, store')
  BY <1>5, FadesHolds DEF Fades
<1>10. RInv'
  <2>1. current_time' <= MaxTime
    BY <1>1 DEF RInv, InBounds
  <2>2. QED
    BY <1>1, <1>8, <1>9, <2>1, QuietStep
<1>11. QED
  BY <1>5, <1>10, SparedLocks

-----------------------------------------------------------------------------
(* Storing *)

\* From s to t no reference moves, what is referenced or in P keeps what is
\* read of it, and nothing comes under a lock.
Passes(s, t, P) ==
  /\ SameRefs(s, t) /\ Held(s, t) /\ NoNewFlag(s, t)
  /\ \A j \in Chunks : j \in P => SameItem(s, t, j)

\* Passes composes.
LEMMA PassesTrans ==
  ASSUME NEW r, NEW s, NEW t, NEW P, NEW Q, Passes(r, s, P), Passes(s, t, Q), P \subseteq Q
  PROVE  Passes(r, t, P)
<1>1. \A j \in Chunks : Referenced(r, j) => Referenced(s, j)
  BY DEF Passes, SameRefs, Referenced
<1>2. Held(r, t) /\ NoNewFlag(r, t)
  BY <1>1, HeldTrans DEF Passes
<1>3. SameRefs(r, t)
  BY DEF Passes, SameRefs
<1>4. ASSUME NEW j \in Chunks, j \in P
      PROVE  SameItem(r, t, j)
  <2>1. SameItem(r, s, j) /\ SameItem(s, t, j)
    BY <1>4 DEF Passes
  <2>2. QED
    BY <2>1 DEF SameItem
<1>5. QED
  BY <1>2, <1>3, <1>4 DEF Passes

\* Fading passes.
LEMMA FadesPasses ==
  ASSUME NEW s, NEW t, NEW P, Fades(s, t, P)
  PROVE  Passes(s, t, P)
BY FadesHolds DEF Fades, Passes

\* So does a change of one item that is not in P, if what is read of it stays.
LEMMA ItemPasses ==
  ASSUME NEW s, NEW t, NEW P, NEW i \in Chunks, i \notin P, SameRefs(s, t),
         \A j \in Chunks \ {i} :
           /\ Linked(t, j) => Linked(s, j)
           /\ Linked(t, j) \/ Referenced(s, j) \/ j \in P => SameItem(s, t, j),
         Referenced(s, i) => /\ t.item[i].key = s.item[i].key
                             /\ t.item[i].nbytes = s.item[i].nbytes
                             /\ t.item[i].exptime = s.item[i].exptime,
         t.item[i].it_flags \ {"LINKED"} = s.item[i].it_flags \ {"LINKED"},
         Linked(t, i) => Linked(s, i) \/ s.item[i].it_flags = {}
  PROVE  Passes(s, t, P)
<1>1. "DELETED" \in t.item[i].it_flags <=> "DELETED" \in s.item[i].it_flags
  OBVIOUS
<1>2. ASSUME NEW j \in Chunks, SameItem(s, t, j)
      PROVE  "DELETED" \in t.item[j].it_flags <=> "DELETED" \in s.item[j].it_flags
  BY <1>2 DEF SameItem
<1>3. Held(s, t)
  <2> SUFFICES ASSUME NEW j \in Chunks, Referenced(s, j)
               PROVE  /\ t.item[j].key = s.item[j].key /\ t.item[j].nbytes = s.item[j].nbytes
                      /\ t.item[j].exptime = s.item[j].exptime
                      /\ "DELETED" \in t.item[j].it_flags <=> "DELETED" \in s.item[j].it_flags
    BY DEF Held
  <2>1. CASE j = i
    BY <1>1, <2>1
  <2>2. CASE j # i
    <3>1. SameItem(s, t, j)
      BY <2>2
    <3>2. QED
      BY <1>2, <3>1 DEF SameItem
  <2>3. QED
    BY <2>1, <2>2
<1>4. NoNewFlag(s, t)
  <2> SUFFICES ASSUME NEW j \in Chunks, NEW f \in {"DELETED", "SLABBED"},
                      Linked(t, j), f \in t.item[j].it_flags
               PROVE  Linked(s, j) /\ f \in s.item[j].it_flags
    BY DEF NoNewFlag
  <2>1. CASE j = i
    BY <2>1
  <2>2. CASE j # i
    <3>1. Linked(s, j) /\ SameItem(s, t, j)
      BY <2>2
    <3>2. QED
      BY <3>1 DEF SameItem
  <2>3. QED
    BY <2>1, <2>2
<1>5. QED
  BY <1>3, <1>4 DEF Passes

\* A lookup keeps what is under a delete lock, and the item it finds is the
\* linked one of the key, not under a lock.
LEMMA LookupFinds ==
  ASSUME NEW s, NEW O, NEW now, Sound(s, O, now), NEW k \in Keys
  PROVE  LET g == get_item_notedeleted(s, k)
         IN  /\ LocksStay(s, g.s)
             /\ g.it # NULL =>
                  /\ g.it \in Chunks /\ g.s = s /\ g.delete_locked = FALSE
                  /\ Linked(s, g.it) /\ s.item[g.it].key = k
                  /\ ~ DeleteLocked(s, g.it) /\ ~ Expired(s, g.it)
<1> DEFINE g == get_item_notedeleted(s, k)
           i == assoc_find(s, k)
<1>1. /\ Fades(s, g.s, O)
      /\ \/ /\ i \in Chunks /\ Linked(s, i) /\ s.item[i].key = k
            /\ \/ /\ ~ DeleteLocked(s, i) /\ ~ Flushed(s, i) /\ ~ Expired(s, i)
                  /\ g = Found(s, i, FALSE)
               \/ DeleteLocked(s, i) /\ g = Found(s, NULL, TRUE)
               \/ /\ ~ DeleteLocked(s, i) /\ (Flushed(s, i) \/ Expired(s, i))
                  /\ g.it = NULL /\ g.delete_locked = FALSE
                  /\ \A j \in Chunks : Linked(g.s, j) <=> Linked(s, j) /\ j # i
                  /\ g.s.hashtable[k] = <<>>
         \/ s.hashtable[k] = <<>> /\ g = Found(s, NULL, FALSE)
  BY LookupSound
<1> HIDE DEF g, i
<1>2. /\ g = Found(s, i, FALSE) => g.s = s /\ g.it = i /\ g.delete_locked = FALSE
      /\ g = Found(s, NULL, TRUE) => g.s = s /\ g.it = NULL
      /\ g = Found(s, NULL, FALSE) => g.s = s /\ g.it = NULL
  BY DEF Found
<1>3. ASSUME NEW j \in Chunks, Linked(s, j), DeleteLocked(s, j)
      PROVE  Linked(g.s, j)
  BY <1>1, <1>2, <1>3
<1>4. LocksStay(s, g.s)
  BY <1>1, <1>3, FadesLocks
<1>5. QED
  BY <1>1, <1>2, <1>4 DEF g

\* t is s with another value of item i.
Revalued(s, t, i) ==
  /\ SameRefs(s, t) /\ t.pages = s.pages
  /\ \A j \in Chunks \ {i} : SameItem(s, t, j)
  /\ \A j \in Chunks :
       /\ Linked(t, j) <=> Linked(s, j)
       /\ t.item[j].key = s.item[j].key /\ t.item[j].nbytes = s.item[j].nbytes
       /\ t.item[j].exptime = s.item[j].exptime
       /\ t.item[j].it_flags = s.item[j].it_flags

\* The store with another value of one item.
LEMMA ValSound ==
  ASSUME NEW s, NEW O, NEW now, NEW i \in Chunks, NEW v \in Vals, Sound(s, O, now)
  PROVE  LET t == [s EXCEPT !.item[i].val = v]
         IN  Sound(t, O, now) /\ Revalued(s, t, i)
<1> DEFINE r == [s.item[i] EXCEPT !.val = v]
           t == [s EXCEPT !.item[i].val = v]
<1>1. s \in Store /\ s.item \in [Chunks -> Item] /\ s.item[i] \in Item
  BY DEF Sound, Store
<1>2. t \in Store
  BY <1>1, SetValKeeps DEF Keeps
<1>3. /\ t.pages = s.pages /\ t.free = s.free /\ t.hashtable = s.hashtable /\ t.lru = s.lru
      /\ t.item = [s.item EXCEPT ![i] = r]
  BY <1>1 DEF Store
<1>4. /\ r.key = s.item[i].key /\ r.nbytes = s.item[i].nbytes
      /\ r.exptime = s.item[i].exptime /\ r.it_flags = s.item[i].it_flags
      /\ r.refcount = s.item[i].refcount /\ r.time = s.item[i].time
      /\ r.slabs_clsid = s.item[i].slabs_clsid
  BY <1>1 DEF Item
<1> HIDE DEF t, r
<1>5. \A j \in Chunks : t.item[j] = IF j = i THEN r ELSE s.item[j]
  BY <1>1, <1>3
<1>6. \A j \in Chunks :
        /\ t.item[j].key = s.item[j].key /\ t.item[j].nbytes = s.item[j].nbytes
        /\ t.item[j].exptime = s.item[j].exptime /\ t.item[j].it_flags = s.item[j].it_flags
        /\ t.item[j].refcount = s.item[j].refcount /\ t.item[j].time = s.item[j].time
        /\ t.item[j].slabs_clsid = s.item[j].slabs_clsid
  BY <1>4, <1>5
<1>7. \A j \in Chunks : Linked(t, j) <=> Linked(s, j)
  BY <1>6 DEF Linked
<1>8. SameRefs(s, t) /\ \A j \in Chunks \ {i} : SameItem(s, t, j)
  BY <1>5, <1>6 DEF SameRefs, SameItem
<1>9. Table(t)
  BY <1>3, <1>6, <1>7, TableCong DEF Sound
<1>10. Order(t, now)
  BY <1>1, <1>3, <1>6, <1>7, OrderCong DEF Sound
<1>11. Placed(t, O)
  BY <1>3, <1>6, <1>7 DEF Sound, Placed, Live, Referenced
<1>12. QED
  BY <1>2, <1>3, <1>6, <1>7, <1>8, <1>9, <1>10, <1>11 DEF Sound, t, Revalued

\* A completed "set" is what ends the delete lock of item j.
SetEnds(s, t, comm, it, j) ==
  /\ comm = "set" /\ Linked(t, it)
  /\ s.item[it].key = s.item[j].key /\ t.item[it].key = s.item[j].key

\* From s to t one item is linked, n, with key k and value v.
LinksNew(s, t, n, k, v) ==
  /\ Linked(t, n) /\ t.item[n].key = k /\ t.item[n].val = v
  /\ \A j \in Chunks \ {n} : Linked(t, j) => Linked(s, j) /\ SameItem(s, t, j)

\* Storing the completed item: it is linked, in the place of the old one.
LEMMA StoredSound ==
  ASSUME NEW s, NEW O, NEW k \in Keys, NEW it \in Chunks, NEW comm,
         current_time \in ItemTimes, Sound(s, O, current_time), it \in O,
         s.item[it].key = k, s.item[it].it_flags = {},
         NEW g, g = get_item_notedeleted(s, k), ~ Refused(g, comm)
  PROVE  LET t == Stored(g, k, it)
         IN  /\ Sound(t, O \ {it}, current_time) /\ Passes(s, t, O \ {it})
             /\ LinksNew(s, t, it, k, s.item[it].val)
             /\ \A j \in Chunks : Linked(s, j) /\ DeleteLocked(s, j) =>
                  LockStays(s, t, j) \/ SetEnds(s, t, comm, it, j)
<1> DEFINE i == assoc_find(s, k)
           t == Stored(g, k, it)
           P == O \ {it}
<1>1. /\ Sound(g.s, O, current_time) /\ Fades(s, g.s, O)
      /\ \/ /\ i \in Chunks /\ Linked(s, i) /\ s.item[i].key = k
            /\ \/ /\ ~ DeleteLocked(s, i) /\ ~ Flushed(s, i) /\ ~ Expired(s, i)
                  /\ g = Found(s, i, FALSE)
               \/ DeleteLocked(s, i) /\ g = Found(s, NULL, TRUE)
               \/ /\ ~ DeleteLocked(s, i) /\ (Flushed(s, i) \/ Expired(s, i))
                  /\ g.it = NULL /\ g.delete_locked = FALSE
                  /\ \A j \in Chunks : Linked(g.s, j) <=> Linked(s, j) /\ j # i
                  /\ g.s.hashtable[k] = <<>>
         \/ s.hashtable[k] = <<>> /\ g = Found(s, NULL, FALSE)
  BY LookupSound
<1>2. /\ g = Found(s, i, FALSE) => g.s = s /\ g.it = i /\ g.delete_locked = FALSE
      /\ g = Found(s, NULL, TRUE) => g.s = s /\ g.it = NULL /\ g.delete_locked = TRUE
      /\ g = Found(s, NULL, FALSE) => g.s = s /\ g.it = NULL /\ g.delete_locked = FALSE
  BY DEF Found
<1>3. NULL \notin Chunks
  BY PoolAssumption
<1>4. /\ ~ Linked(s, it) /\ ~ Referenced(s, it)
      /\ g.s.item[it].key = k /\ "DELETED" \notin s.item[it].it_flags
  BY <1>1 DEF Sound, Placed, Live, Fades, SameItem
<1>5. P \subseteq O /\ Passes(s, g.s, P) /\ LocksStay(s, g.s)
  <2>1. LocksStay(s, g.s)
    BY LookupFinds
  <2>2. Passes(s, g.s, O)
    BY <1>1, FadesPasses
  <2>3. QED
    BY <2>1, <2>2 DEF Passes
<1>6. /\ ~ Linked(g.s, it) /\ ~ Referenced(g.s, it) /\ g.s.item[it].it_flags = {}
  <2>1. SameItem(s, g.s, it) /\ ~ Live(g.s, it)
    BY <1>1 DEF Sound, Placed, Fades
  <2>2. QED
    BY <1>4, <2>1 DEF SameItem, Live, Linked
<1>7. ASSUME NEW u, Sound(u, P, current_time), SameRefs(g.s, u),
             \A j \in Chunks \ {it} : Linked(u, j) => Linked(g.s, j),
             \A j \in Chunks \ {it} : Live(u, j) \/ j \in O => SameItem(g.s, u, j),
             UsedNow(g.s, u, it, current_time), Linked(u, it)
      PROVE  /\ Passes(s, u, P) /\ u.item[it].key = k
             /\ LinksNew(s, u, it, k, s.item[it].val)
  <2>1. ASSUME NEW j \in Chunks \ {it}
        PROVE  /\ Linked(u, j) => Linked(g.s, j)
               /\ Linked(u, j) \/ Referenced(g.s, j) \/ j \in P => SameItem(g.s, u, j)
    BY <1>7 DEF Live, Referenced, SameRefs
  <2>2. u.item[it].it_flags \ {"LINKED"} = g.s.item[it].it_flags \ {"LINKED"}
    BY <1>7 DEF UsedNow
  <2>3. Passes(g.s, u, P)
    BY <1>6, <1>7, <2>1, <2>2, ItemPasses
  <2>4. Passes(s, u, P) /\ u.item[it].key = k
    BY <1>4, <1>5, <1>7, <2>3, PassesTrans DEF UsedNow
  <2>5. u.item[it].val = s.item[it].val
    BY <1>1, <1>7 DEF UsedNow, Fades, SameItem
  <2>6. ASSUME NEW j \in Chunks \ {it}, Linked(u, j)
        PROVE  Linked(s, j) /\ SameItem(s, u, j)
    <3>1. Linked(g.s, j) /\ SameItem(g.s, u, j)
      BY <2>1, <2>6
    <3>2. Linked(s, j) /\ SameItem(s, g.s, j)
      BY <1>1, <3>1 DEF Fades
    <3>3. QED
      BY <3>1, <3>2 DEF SameItem
  <2>7. QED
    BY <1>7, <2>4, <2>5, <2>6 DEF LinksNew
<1>8. ASSUME g.delete_locked = FALSE, g.it = NULL
      PROVE  /\ Sound(t, P, current_time) /\ Passes(s, t, P)
             /\ LinksNew(s, t, it, k, s.item[it].val)
             /\ \A j \in Chunks : Linked(s, j) /\ DeleteLocked(s, j) => LockStays(s, t, j)
  <2>1. t = item_link(g.s, it, current_time)
    BY <1>8 DEF Stored
  <2>2. g.s.hashtable[k] = <<>>
    BY <1>1, <1>2, <1>3, <1>8
  <2>3. /\ Sound(t, P, current_time) /\ SameRefs(g.s, t)
        /\ \A j \in Chunks \ {it} : SameItem(g.s, t, j)
        /\ \A j \in Chunks : Linked(t, j) <=> Linked(g.s, j) \/ j = it
        /\ UsedNow(g.s, t, it, current_time)
    <3>1. PICK u : u = g.s
      OBVIOUS
    <3>2. /\ Sound(u, O, current_time) /\ u.item[it].key \in Keys
          /\ u.hashtable[u.item[it].key] = <<>>
      BY <1>1, <1>4, <2>2, <3>1
    <3>3. /\ Sound(item_link(u, it, current_time), P, current_time)
          /\ Linking(u, item_link(u, it, current_time), it, current_time)
      BY <3>2, ItemLinkSound
    <3>4. Sound(t, P, current_time) /\ Linking(g.s, t, it, current_time)
      BY <2>1, <3>1, <3>3
    <3>5. QED
      BY <3>4 DEF Linking
  <2>4. Passes(s, t, P) /\ LinksNew(s, t, it, k, s.item[it].val)
    BY <1>7, <2>3
  <2>5. ASSUME NEW j \in Chunks, Linked(s, j), DeleteLocked(s, j)
        PROVE  LockStays(s, t, j)
    <3>1. LockStays(s, g.s, j) /\ j # it
      BY <1>4, <1>5, <2>5 DEF LocksStay
    <3>2. SameItem(g.s, t, j) /\ Linked(t, j)
      BY <2>3, <3>1 DEF LockStays
    <3>3. QED
      BY <3>1, <3>2 DEF LockStays, SameItem
  <2>6. QED
    BY <2>3, <2>4, <2>5
<1>9. ASSUME i \in Chunks, Linked(s, i), s.item[i].key = k, g.s = s,
             t = item_replace(g.s, i, it, current_time), DeleteLocked(s, i) => comm = "set"
      PROVE  /\ Sound(t, P, current_time) /\ Passes(s, t, P)
             /\ LinksNew(s, t, it, k, s.item[it].val)
             /\ \A j \in Chunks : Linked(s, j) /\ DeleteLocked(s, j) =>
                  LockStays(s, t, j) \/ SetEnds(s, t, comm, it, j)
  <2>1. i \notin O /\ PageOf[i] \in s.pages
    BY <1>1, <1>9 DEF Sound, Placed, Live
  <2>2. ASSUME NEW j \in Chunks, Linked(s, j), s.item[j].key = k
        PROVE  j = i
    <3>1. s.hashtable[k] = <<j>> /\ s.hashtable[k] = <<i>>
      BY <1>1, <1>9, <2>2 DEF Sound, Table
    <3>2. <<i>>[1] = i /\ <<j>>[1] = j
      OBVIOUS
    <3>3. QED
      BY <3>1, <3>2
  <2>3. /\ Sound(t, P, current_time) /\ SameRefs(s, t)
        /\ \A j \in Chunks : Linked(t, j) <=> (Linked(s, j) /\ j # i) \/ j = it
        /\ \A j \in Chunks \ {it} : Live(t, j) \/ j \in O => SameItem(s, t, j)
        /\ UsedNow(s, t, it, current_time)
    <3>1. Sound(t, P, current_time) /\ Replacing(s, t, i, it, O, current_time)
      BY <1>9, <2>1, <2>2, ItemReplaceSound
    <3>2. QED
      BY <3>1 DEF Replacing
  <2>4. Passes(s, t, P) /\ t.item[it].key = k /\ LinksNew(s, t, it, k, s.item[it].val)
    BY <1>7, <1>9, <2>3
  <2>5. ASSUME NEW j \in Chunks, Linked(s, j), DeleteLocked(s, j)
        PROVE  LockStays(s, t, j) \/ SetEnds(s, t, comm, it, j)
    <3>1. CASE j = i
      BY <1>9, <2>3, <2>4, <2>5, <3>1 DEF SetEnds
    <3>2. CASE j # i
      <4>1. Linked(t, j) /\ SameItem(s, t, j)
        BY <1>4, <2>3, <2>5, <3>2 DEF Live
      <4>2. QED
        BY <2>5, <4>1 DEF LockStays, SameItem, DeleteLocked
    <3>3. QED
      BY <3>1, <3>2
  <2>6. QED
    BY <2>3, <2>4, <2>5
<1>10. CASE g.delete_locked = FALSE /\ g.it = NULL
  BY <1>8, <1>10
<1>11. CASE g = Found(s, i, FALSE) /\ i \in Chunks
  <2>1. /\ g.s = s /\ Linked(s, i) /\ s.item[i].key = k /\ ~ DeleteLocked(s, i)
    BY <1>1, <1>2, <1>3, <1>11 DEF Found
  <2>2. t = item_replace(g.s, i, it, current_time)
    BY <1>2, <1>3, <1>11 DEF Stored
  <2>3. QED
    BY <1>9, <1>11, <2>1, <2>2
<1>12. CASE g = Found(s, NULL, TRUE) /\ DeleteLocked(s, i) /\ i \in Chunks
  <2>1. /\ g.s = s /\ Linked(s, i) /\ s.item[i].key = k /\ comm = "set"
    BY <1>1, <1>2, <1>12 DEF Refused, Found
  <2>2. t = item_replace(g.s, i, it, current_time)
    BY <1>2, <1>3, <1>12 DEF Stored
  <2>3. QED
    BY <1>9, <1>12, <2>1, <2>2
<1>13. QED
  BY <1>1, <1>2, <1>10, <1>11, <1>12

\* What stays under its lock twice, stays.
LEMMA LocksTrans ==
  ASSUME NEW r, NEW s, NEW t, LocksStay(r, s),
         NEW j \in Chunks, Linked(r, j), DeleteLocked(r, j), 
         DeleteLocked(s, j) /\ Linked(s, j) => LockStays(s, t, j)
  PROVE  LockStays(r, t, j)
<1>1. LockStays(r, s, j)
  BY DEF LocksStay
<1>2. DeleteLocked(s, j) /\ Linked(s, j)
  BY <1>1 DEF LockStays, DeleteLocked, item_delete_lock_over
<1>3. QED
  BY <1>1, <1>2 DEF LockStays

\* An owned chunk is given back.
LEMMA GiveBack ==
  ASSUME NEW s, NEW O, NEW now, Sound(s, O, now), NEW it \in Chunks, it \in O
  PROVE  LET t == item_free(s, it)
         IN  Sound(t, O \ {it}, now) /\ Passes(s, t, O \ {it}) /\ LocksStay(s, t)
<1>1. ~ Live(s, it) /\ PageOf[it] \in s.pages
  BY DEF Sound, Placed
<1>2. PICK t : t = item_free(s, it)
  OBVIOUS
<1>3. /\ Sound(t, O \ {it}, now) /\ Fades(s, t, O \ {it})
      /\ \A j \in Chunks : Linked(t, j) <=> Linked(s, j)
  BY <1>1, <1>2, FreeSound
<1>4. Passes(s, t, O \ {it}) /\ LocksStay(s, t)
  BY <1>3, FadesPasses, FadesLocks
<1>5. QED
  BY <1>2, <1>3, <1>4

\* t is s with item i touched.
Touching(s, t, i, now) ==
  /\ SameRefs(s, t) /\ t.pages = s.pages /\ t.hashtable = s.hashtable
  /\ \A j \in Chunks \ {i} : SameItem(s, t, j)
  /\ \A j \in Chunks : Linked(t, j) <=> Linked(s, j)
  /\ UsedNow(s, t, i, now)

\* A touch is sound, and changes nothing that is read elsewhere.
LEMMA TouchPasses ==
  ASSUME NEW s, NEW O, NEW i \in Chunks, NEW t, current_time \in ItemTimes,
         Sound(s, O, current_time), Linked(s, i), t = item_update(s, i, current_time)
  PROVE  /\ Sound(t, O, current_time) /\ Touching(s, t, i, current_time)
         /\ Passes(s, t, O) /\ LocksStay(s, t)
<1>1. Sound(t, O, current_time) /\ Touching(s, t, i, current_time)
  BY ItemUpdateSound DEF Touching
<1>2. /\ SameRefs(s, t) /\ \A j \in Chunks \ {i} : SameItem(s, t, j)
      /\ \A j \in Chunks : Linked(t, j) <=> Linked(s, j)
      /\ UsedNow(s, t, i, current_time)
  BY <1>1 DEF Touching
<1>3. i \notin O
  BY DEF Sound, Placed, Live
<1>4. Passes(s, t, O)
  <2>1. /\ t.item[i].key = s.item[i].key /\ t.item[i].nbytes = s.item[i].nbytes
        /\ t.item[i].exptime = s.item[i].exptime
        /\ t.item[i].it_flags \ {"LINKED"} = s.item[i].it_flags \ {"LINKED"}
    BY <1>2 DEF UsedNow
  <2>2. QED
    BY <1>2, <1>3, <2>1, ItemPasses
<1>5. LocksStay(s, t)
  <2> SUFFICES ASSUME NEW j \in Chunks, Linked(s, j), DeleteLocked(s, j)
               PROVE  LockStays(s, t, j)
    BY DEF LocksStay
  <2>1. /\ t.item[j].key = s.item[j].key /\ t.item[j].exptime = s.item[j].exptime
        /\ t.item[j].it_flags \ {"LINKED"} = s.item[j].it_flags \ {"LINKED"}
    BY <1>2 DEF UsedNow, SameItem
  <2>2. QED
    BY <1>2, <2>1 DEF LockStays, DeleteLocked
<1>6. QED
  BY <1>1, <1>4, <1>5

\* The completion of a store command, good or not, accepted or refused.
LEMMA CompletionSound ==
  ASSUME NEW s, NEW O, NEW k \in Keys, NEW it \in Chunks, NEW comm, NEW good,
         current_time \in ItemTimes, Sound(s, O, current_time), it \in O,
         s.item[it].key = k, s.item[it].it_flags = {},
         NEW g, g = get_item_notedeleted(s, k),
         NEW t, t = IF ~ good THEN item_free(s, it)
                    ELSE IF Refused(g, comm) THEN item_free(Touched(g, comm), it)
                    ELSE Stored(g, k, it)
  PROVE  /\ Sound(t, O \ {it}, current_time) /\ Passes(s, t, O \ {it})
         /\ \A j \in Chunks : Linked(s, j) /\ DeleteLocked(s, j) =>
              LockStays(s, t, j) \/ SetEnds(s, t, comm, it, j)
<1>1. CASE ~ good
  <2>1. Sound(t, O \ {it}, current_time) /\ Passes(s, t, O \ {it}) /\ LocksStay(s, t)
    BY <1>1, GiveBack
  <2>2. QED
    BY <2>1 DEF LocksStay
<1>2. CASE good /\ Refused(g, comm)
  <2>1. PICK u : u = Touched(g, comm)
    OBVIOUS
  <2>2. Sound(g.s, O, current_time) /\ Passes(s, g.s, O) /\ LocksStay(s, g.s)
    <3>1. Sound(g.s, O, current_time) /\ Fades(s, g.s, O)
      BY LookupSound
    <3>2. QED
      BY <3>1, FadesPasses, LookupFinds
  <2>3. Sound(u, O, current_time) /\ Passes(s, u, O) /\ LocksStay(s, u)
    <3>1. CASE g.it # NULL /\ comm = "add"
      <4>1. g.it \in Chunks /\ Linked(s, g.it) /\ g.s = s
        BY <3>1, LookupFinds
      <4>2. u = item_update(s, g.it, current_time)
        BY <2>1, <3>1, <4>1 DEF Touched
      <4>3. QED
        BY <4>1, <4>2, TouchPasses
    <3>2. CASE ~ (g.it # NULL /\ comm = "add")
      <4>1. u = g.s
        BY <2>1, <3>2 DEF Touched
      <4>2. QED
        BY <2>2, <4>1
    <3>3. QED
      BY <3>1, <3>2
  <2>4. /\ Sound(t, O \ {it}, current_time) /\ Passes(u, t, O \ {it}) /\ LocksStay(u, t)
    BY <1>2, <2>1, <2>3, GiveBack
  <2>5. Passes(s, u, O \ {it})
    BY <2>3 DEF Passes
  <2>6. Passes(s, t, O \ {it})
    BY <2>4, <2>5, PassesTrans
  <2>7. ASSUME NEW j \in Chunks, Linked(s, j), DeleteLocked(s, j)
        PROVE  LockStays(s, t, j)
    BY <2>3, <2>4, <2>7, LocksTrans DEF LocksStay
  <2>8. QED
    BY <2>4, <2>6, <2>7
<1>3. CASE good /\ ~ Refused(g, comm)
  BY <1>3, StoredSound
<1>4. QED
  BY <1>1, <1>2, <1>3

\* complete_nread: the lock of a key is ended by a "set" of it only.
LEMMA CompleteNreadRefs ==
  ASSUME RInv, IInv', NEW c \in Conns, NEW val \in Vals, NEW good \in BOOLEAN,
         complete_nread(c, val, good)
  PROVE  /\ RInv' /\ state'[c] = "conn_read"
         /\ \A j \in Chunks : Linked(store, j) /\ DeleteLocked(store, j) =>
              \/ LockStays(store, store', j)
              \/ SetEnds(store, store', item_comm[c], citem[c], j)
<1> USE DEF timeVars, timerVars, NoRefMoves
<1>1. /\ citem \in [Conns -> Chunks \cup {NULL}] /\ state \in [Conns -> ConnStates]
      /\ fn = "ae_loop" /\ state[c] = "conn_nread" /\ NULL \notin Chunks
      /\ citem' = [citem EXCEPT ![c] = NULL] /\ state' = [state EXCEPT ![c] = "conn_read"]
      /\ NoRefMoves /\ UNCHANGED <<current_time, fn, who>>
      /\ current_time \in ItemTimes
  BY RInvTypes DEF complete_nread, RInv, IInv, TypeOK
<1>2. citem[c] # NULL
  BY <1>1 DEF RInv, IInv, ReaderHasItem
<1> PICK it \in Chunks : it = citem[c]
  BY <1>1, <1>2
<1> PICK k \in Keys : k = store.item[it].key
  BY <1>2 DEF RInv, IInv, ItemHasKey
<1>3. PICK s : s = [store EXCEPT !.item[it].val = val]
  OBVIOUS
<1>4. PICK g : g = get_item_notedeleted(s, k)
  OBVIOUS
<1>5. store' = IF ~ good THEN item_free(s, it)
               ELSE IF Refused(g, item_comm[c]) THEN item_free(Touched(g, item_comm[c]), it)
               ELSE Stored(g, k, it)
  BY <1>3, <1>4 DEF complete_nread
<1>6. /\ it \in Owned /\ Sound(store, Owned, current_time)
      /\ store.item[it].it_flags = {} /\ ~ Linked(store, it)
  <2>1. it \in Owned /\ Sound(store, Owned, current_time) /\ store.item[it].it_flags = {}
    BY <1>2, RInvTypes DEF RInv, StoreSound, OwnersRead
  <2>2. QED
    BY <2>1 DEF Sound, Placed, Live
<1>7. /\ Sound(s, Owned, current_time) /\ SameRefs(store, s)
      /\ \A j \in Chunks \ {it} : SameItem(store, s, j)
      /\ \A j \in Chunks :
           /\ Linked(s, j) <=> Linked(store, j)
           /\ s.item[j].key = store.item[j].key /\ s.item[j].nbytes = store.item[j].nbytes
           /\ s.item[j].exptime = store.item[j].exptime
           /\ s.item[j].it_flags = store.item[j].it_flags
  <2>1. Sound(s, Owned, current_time) /\ Revalued(store, s, it)
    BY <1>3, <1>6, ValSound
  <2>2. QED
    BY <2>1 DEF Revalued
<1>8. Passes(store, s, Owned \ {it})
  <2>1. it \notin Owned \ {it}
    OBVIOUS
  <2>2. QED
    BY <1>6, <1>7, <2>1, ItemPasses
<1>9. /\ Sound(store', Owned \ {it}, current_time) /\ Passes(s, store', Owned \ {it})
      /\ \A j \in Chunks : Linked(s, j) /\ DeleteLocked(s, j) =>
           LockStays(s, store', j) \/ SetEnds(s, store', item_comm[c], it, j)
  <2>1. s.item[it].key = k /\ s.item[it].it_flags = {}
    BY <1>6, <1>7
  <2>2. QED
    BY <1>1, <1>4, <1>5, <1>6, <1>7, <2>1, CompletionSound
<1>10. Passes(store, store', Owned \ {it})
  BY <1>8, <1>9, PassesTrans
<1>11. citem'[c] = NULL /\ state'[c] = "conn_read"
       /\ \A d \in Conns \ {c} : citem'[d] = citem[d] /\ state'[d] = state[d]
  BY <1>1
<1>12. Owned' = Owned \ {it}
  BY <1>1, <1>2, <1>11 DEF Owned, RInv, OwnedApart
<1>13. StoreSound' /\ OwnedApart' /\ CallerOwnsNone' /\ TimerIdle'
  BY <1>1, <1>9, <1>11, <1>12 DEF StoreSound, RInv, OwnedApart, CallerOwnsNone, TimerIdle
<1>14. OwnersRead'
  <2> SUFFICES ASSUME NEW d \in Conns, citem'[d] # NULL
               PROVE  state'[d] = "conn_nread" /\ store'.item[citem'[d]].it_flags = {}
    BY DEF OwnersRead
  <2>1. d # c /\ citem'[d] = citem[d] /\ citem[d] \in Chunks /\ citem[d] \in Owned \ {it}
    BY <1>1, <1>11, <1>12 DEF Owned
  <2>2. SameItem(store, store', citem[d]) /\ store.item[citem[d]].it_flags = {}
        /\ state[d] = "conn_nread"
    BY <1>10, <2>1, RInvTypes DEF RInv, OwnersRead, Passes
  <2>3. QED
    BY <1>9, <1>11, <2>1, <2>2, OwnerFlags
<1>15. RInv'
  <2>1. current_time' <= MaxTime
    BY <1>1 DEF RInv, InBounds
  <2>2. QED
    BY <1>1, <1>10, <1>13, <1>14, <2>1, QuietStep DEF Passes
<1>16. ASSUME NEW j \in Chunks, Linked(store, j), DeleteLocked(store, j)
       PROVE  \/ LockStays(store, store', j)
              \/ SetEnds(store, store', item_comm[c], citem[c], j)
  <2>1. Linked(s, j) /\ DeleteLocked(s, j) /\ s.item[j].key = store.item[j].key
        /\ s.item[j].exptime = store.item[j].exptime
    BY <1>7, <1>16 DEF DeleteLocked, item_delete_lock_over
  <2>2. LockStays(s, store', j) \/ SetEnds(s, store', item_comm[c], it, j)
    BY <1>9, <2>1
  <2>3. QED
    BY <1>7, <2>1, <2>2 DEF LockStays, SetEnds
<1>17. QED
  BY <1>11, <1>15, <1>16

\* A step of a handler that changes only the store, and moves no reference.
LEMMA StoreOnly ==
  ASSUME RInv, IInv', NoRefMoves, UNCHANGED <<current_time, state, citem, fn, who>>,
         Sound(store', Owned, current_time), Passes(store, store', Owned)
  PROVE  RInv'
<1>1. Owned' = Owned
  BY DEF Owned
<1>2. StoreSound' /\ OwnedApart' /\ CallerOwnsNone' /\ TimerIdle'
  BY <1>1 DEF StoreSound, RInv, OwnedApart, CallerOwnsNone, TimerIdle, NoRefMoves
<1>3. OwnersRead'
  <2> SUFFICES ASSUME NEW d \in Conns, citem[d] # NULL
               PROVE  state[d] = "conn_nread" /\ store'.item[citem[d]].it_flags = {}
    BY DEF OwnersRead
  <2>1. citem[d] \in Chunks /\ citem[d] \in Owned
    BY RInvTypes
  <2>2. SameItem(store, store', citem[d]) /\ store.item[citem[d]].it_flags = {}
        /\ state[d] = "conn_nread"
    BY <2>1 DEF RInv, OwnersRead, Passes
  <2>3. QED
    BY <2>1, <2>2, OwnerFlags
<1>4. current_time' <= MaxTime
  BY DEF RInv, InBounds
<1>5. QED
  BY <1>2, <1>3, <1>4, QuietStep DEF Passes

\* t is s with a reference to item i more.
Taking(s, t, i) ==
  /\ t.hashtable = s.hashtable /\ t.pages = s.pages /\ t.lru = s.lru
  /\ \A j \in Chunks :
       /\ SameItem(s, t, j) /\ (Linked(t, j) <=> Linked(s, j))
       /\ t.item[j].refcount = IF j = i THEN s.item[i].refcount + 1 ELSE s.item[j].refcount

\* AddRef of a linked item.
LEMMA TakingSound ==
  ASSUME NEW s, NEW O, NEW now, NEW i \in Chunks, NEW t, Sound(s, O, now), Linked(s, i),
         s.item[i].refcount < RefMod - 1, t = AddRef(s, i)
  PROVE  Sound(t, O, now) /\ Taking(s, t, i)
<1>1. Live(s, i)
  BY DEF Live
<1>2. QED
  BY <1>1, AddRefSound DEF Taking

\* One key of a get.
LEMMA CommandGetKeyRefs ==
  ASSUME RInv, IInv', \A i \in Chunks : store.item[i].refcount < RefMod - 1,
         NEW k \in Keys, command_get_key(k)
  PROVE  RInv' /\ LocksStay(store, store')
<1> USE DEF timeVars, timerVars
<1>1. /\ fn = "command_get" /\ who \in Conns
      /\ UNCHANGED <<current_time, todelete, state, citem, icurr, fn, who, ti, tj>>
  BY DEF command_get_key, RInv, IInv, CallerIsConn
<1> PICK g : g = get_item_notedeleted(store, k)
  OBVIOUS
<1>2. Sound(store, Owned, current_time) /\ current_time \in ItemTimes
  BY RInvTypes DEF RInv, StoreSound
<1>3. Sound(g.s, Owned, current_time) /\ Passes(store, g.s, Owned) /\ LocksStay(store, g.s)
  <2>1. Sound(g.s, Owned, current_time) /\ Fades(store, g.s, Owned)
    BY <1>2, LookupSound
  <2>2. QED
    BY <1>2, <2>1, FadesPasses, LookupFinds
<1>4. CASE g.it = NULL
  <2>1. store' = g.s /\ NoRefMoves
    BY <1>1, <1>4 DEF command_get_key, get_item, NoRefMoves
  <2>2. QED
    BY <1>1, <1>3, <2>1, StoreOnly
<1>5. CASE g.it # NULL
  <2> PICK w \in Conns : w = who
    BY <1>1
  <2>1. g.s = store /\ g.it \in Chunks /\ Linked(store, g.it)
    BY <1>2, <1>5, LookupFinds
  <2> PICK i \in Chunks : i = g.it
    BY <2>1
  <2>2. PICK e : e = [it |-> i, key |-> store.item[i].key, nbytes |-> store.item[i].nbytes]
    OBVIOUS
  <2>3. /\ Len(ilist[w]) < MaxIList
        /\ store' = item_update(AddRef(store, i), i, current_time)
        /\ ilist' = [ilist EXCEPT ![w] = Append(@, e)]
    BY <1>5, <2>1, <2>2 DEF command_get_key, get_item
  <2>4. /\ ilist \in [Conns -> Seq(Entry)] /\ ilist[w] \in Seq(Entry)
        /\ ilist' \in [Conns -> Seq(Entry)]
        /\ icurr \in [Conns -> Nat] /\ MaxIList \in Nat /\ Len(ilist[w]) \in Nat
        /\ icurr[w] <= Len(ilist[w]) /\ Len(todelete) <= MaxDel
        /\ current_time <= MaxTime
    <3>1. /\ ilist \in [Conns -> Seq(Entry)] /\ ilist' \in [Conns -> Seq(Entry)]
          /\ icurr \in [Conns -> Nat]
      BY DEF RInv, IInv, TypeOK
    <3>2. /\ \A c \in Conns : icurr[c] <= Len(ilist[c])
          /\ Len(todelete) <= MaxDel /\ current_time <= MaxTime
      BY DEF RInv, InBounds
    <3>3. ilist[w] \in Seq(Entry) /\ Len(ilist[w]) \in Nat
      BY <3>1
    <3>4. QED
      BY <3>1, <3>2, <3>3, ItemStoreAssumption
  <2> PICK n \in Nat : n = Len(ilist[w]) + 1
    BY <2>4
  <2>5. /\ ilist'[w] = Append(ilist[w], e)
        /\ \A d \in Conns \ {w} : ilist'[d] = ilist[d]
    BY <2>3, <2>4
  <2>6. /\ Len(ilist'[w]) = n /\ n \in 1 .. MaxIList /\ n > icurr[w] /\ ilist'[w][n] = e
        /\ \A m \in 1 .. Len(ilist[w]) : ilist'[w][m] = ilist[w][m]
        /\ DOMAIN ilist'[w] = 1 .. n /\ DOMAIN ilist[w] = 1 .. Len(ilist[w])
    BY <2>3, <2>4, <2>5
  <2>7. PICK u : u = AddRef(store, i)
    OBVIOUS
  <2>8. Sound(u, Owned, current_time) /\ Taking(store, u, i)
    BY <1>2, <2>1, <2>7, TakingSound
  <2>9. /\ Sound(store', Owned, current_time) /\ Touching(u, store', i, current_time)
        /\ Passes(u, store', Owned) /\ LocksStay(u, store')
    <3>1. Linked(u, i)
      BY <2>1, <2>8 DEF Taking
    <3>2. QED
      BY <1>2, <2>3, <2>7, <2>8, <3>1, TouchPasses
  <2>10. ASSUME NEW j \in Chunks
         PROVE  /\ store'.item[j].refcount = IF j = i THEN store.item[i].refcount + 1
                                             ELSE store.item[j].refcount
                /\ store'.item[j].key = store.item[j].key
                /\ store'.item[j].nbytes = store.item[j].nbytes
                /\ store'.item[j].exptime = store.item[j].exptime
                /\ store'.item[j].it_flags \ {"LINKED"} = store.item[j].it_flags \ {"LINKED"}
                /\ Linked(store', j) <=> Linked(store, j)
    <3>1. /\ SameItem(store, u, j) /\ (Linked(u, j) <=> Linked(store, j))
          /\ u.item[j].refcount = IF j = i THEN store.item[i].refcount + 1
                                  ELSE store.item[j].refcount
      BY <2>8 DEF Taking
    <3>2. /\ store'.item[j].refcount = u.item[j].refcount
          /\ store'.item[j].key = u.item[j].key
          /\ store'.item[j].nbytes = u.item[j].nbytes
          /\ store'.item[j].exptime = u.item[j].exptime
          /\ store'.item[j].it_flags \ {"LINKED"} = u.item[j].it_flags \ {"LINKED"}
          /\ Linked(store', j) <=> Linked(u, j)
      BY <2>9 DEF Touching, UsedNow, SameItem, SameRefs
    <3>3. QED
      BY <3>1, <3>2 DEF SameItem
  <2>11. ASSUME NEW j \in Chunks
         PROVE  "DELETED" \in store'.item[j].it_flags <=> "DELETED" \in store.item[j].it_flags
    BY <2>10
  <2>12. RefcountIsHolds'
    <3> SUFFICES ASSUME NEW j \in Chunks
                 PROVE  store'.item[j].refcount
                          = Cardinality(ResponseHolds(j)') + Cardinality(QueueHolds(j)')
      BY DEF RefcountIsHolds
    <3>1. QueueHolds(j)' = QueueHolds(j)
      BY <1>1 DEF QueueHolds, QueueLive
    <3>2. ResponseHolds(j)' = IF j = i THEN ResponseHolds(j) \cup {<<w, n>>}
                              ELSE ResponseHolds(j)
      <4>1. \A d \in Conns, m \in 1 .. MaxIList :
              m \in DOMAIN ilist'[d] /\ ilist'[d][m].it = j
                <=> (m \in DOMAIN ilist[d] /\ ilist[d][m].it = j)
                    \/ (<<d, m>> = <<w, n>> /\ j = i)
        <5> SUFFICES ASSUME NEW d \in Conns, NEW m \in 1 .. MaxIList
                     PROVE  m \in DOMAIN ilist'[d] /\ ilist'[d][m].it = j
                              <=> (m \in DOMAIN ilist[d] /\ ilist[d][m].it = j)
                                  \/ (<<d, m>> = <<w, n>> /\ j = i)
          OBVIOUS
        <5>1. e.it = i
          BY <2>2
        <5>2. CASE d # w
          BY <2>5, <5>2
        <5>3. CASE d = w /\ m = n
          <6>1. m \in DOMAIN ilist'[d] /\ ilist'[d][m] = e /\ m \notin DOMAIN ilist[d]
            BY <2>4, <2>6, <5>3
          <6>2. QED
            BY <5>1, <5>3, <6>1
        <5>4. CASE d = w /\ m # n
          <6>1. m \in DOMAIN ilist'[d] <=> m \in DOMAIN ilist[d]
            BY <2>4, <2>6, <5>4
          <6>2. m \in DOMAIN ilist[d] => ilist'[d][m] = ilist[d][m]
            BY <2>6, <5>4
          <6>3. QED
            BY <5>4, <6>1, <6>2
        <5>5. QED
          BY <5>2, <5>3, <5>4
      <4>2. QED
        BY <1>1, <2>6, <4>1 DEF ResponseHolds
    <3>3. store.item[j].refcount = Cardinality(ResponseHolds(j)) + Cardinality(QueueHolds(j))
      BY DEF RInv, RefcountIsHolds
    <3>4. IsFiniteSet(ResponseHolds(j)) /\ Cardinality(ResponseHolds(j)) \in Nat
          /\ Cardinality(QueueHolds(j)) \in Nat
      BY HoldsFinite DEF RInv, IInv
    <3>5. CASE j = i
      <4>1. <<w, n>> \notin ResponseHolds(j)
        BY <2>4, <2>6 DEF ResponseHolds
      <4>2. PICK R : R = ResponseHolds(j)
        OBVIOUS
      <4>3. Cardinality(R \cup {<<w, n>>}) = Cardinality(R) + 1
        BY <3>4, <4>1, <4>2, FS_AddElement
      <4>4. QED
        BY <2>10, <3>1, <3>2, <3>3, <3>4, <3>5, <4>2, <4>3
    <3>6. CASE j # i
      BY <2>10, <3>1, <3>2, <3>3, <3>6
    <3>7. QED
      BY <3>5, <3>6
  <2>13. Owned' = Owned /\ StoreSound' /\ OwnedApart' /\ CallerOwnsNone' /\ TimerIdle'
    BY <1>1, <2>9 DEF Owned, StoreSound, RInv, OwnedApart, CallerOwnsNone, TimerIdle
  <2>14. OwnersRead'
    <3> SUFFICES ASSUME NEW d \in Conns, citem[d] # NULL
                 PROVE  state[d] = "conn_nread" /\ store'.item[citem[d]].it_flags = {}
      BY <1>1 DEF OwnersRead
    <3>1. citem[d] \in Chunks /\ citem[d] \in Owned
      BY RInvTypes
    <3>2. store.item[citem[d]].it_flags = {} /\ state[d] = "conn_nread"
      BY <3>1 DEF RInv, OwnersRead
    <3>3. ~ Linked(store', citem[d])
      BY <2>9, <3>1 DEF Sound, Placed, Live
    <3>4. QED
      BY <2>10, <3>1, <3>2, <3>3 DEF Linked
  <2>15. InBounds'
    <3>1. ASSUME NEW d \in Conns
          PROVE  icurr[d] <= Len(ilist'[d]) /\ Len(ilist'[d]) <= MaxIList
      <4>1. CASE d = w
        BY <2>4, <2>6, <4>1
      <4>2. CASE d # w
        BY <2>5, <4>2 DEF RInv, InBounds
      <4>3. QED
        BY <4>1, <4>2
    <3>2. QED
      BY <1>1, <2>4, <3>1 DEF InBounds
  <2>16. DeletedIsQueued'
    <3>1. \A j : QueueHolds(j)' = QueueHolds(j)
      BY <1>1 DEF QueueHolds, QueueLive
    <3>2. QED
      BY <2>10, <2>11, <3>1 DEF RInv, DeletedIsQueued
  <2>17. ResponseIntact'
    <3>1. ASSUME NEW d \in Conns, NEW m \in icurr'[d] + 1 .. Len(ilist'[d])
          PROVE  LET x == ilist'[d][m]
                 IN  store'.item[x.it].key = x.key /\ store'.item[x.it].nbytes = x.nbytes
      <4>1. CASE d = w /\ m = n
        <5>1. e.it = i /\ e.key = store.item[i].key /\ e.nbytes = store.item[i].nbytes
          BY <2>2
        <5>2. ilist'[d][m] = e
          BY <2>6, <4>1
        <5>3. store'.item[i].key = e.key /\ store'.item[i].nbytes = e.nbytes
          BY <2>10, <5>1
        <5>4. QED
          BY <5>1, <5>2, <5>3
      <4>2. CASE ~ (d = w /\ m = n)
        <5>1. m \in icurr[d] + 1 .. Len(ilist[d]) /\ ilist'[d][m] = ilist[d][m]
          <6>1. CASE d = w
            BY <1>1, <2>4, <2>6, <4>2, <6>1
          <6>2. CASE d # w
            BY <1>1, <2>5, <6>2
          <6>3. QED
            BY <6>1, <6>2
        <5>2. ilist[d] \in Seq(Entry) /\ icurr[d] \in Nat
          BY <2>4
        <5>3. ilist[d][m] \in Entry
          BY <5>1, <5>2
        <5>4. ilist[d][m].it \in Chunks
          BY <5>3 DEF Entry
        <5>5. QED
          BY <2>10, <5>1, <5>4 DEF RInv, ResponseIntact
      <4>3. QED
        BY <4>1, <4>2
    <3>2. QED
      BY <2>12, <2>13, <2>15, <3>1, IntactStep
  <2>18. LocksStay(store, store')
    <3> SUFFICES ASSUME NEW j \in Chunks, Linked(store, j), DeleteLocked(store, j)
                 PROVE  LockStays(store, store', j)
      BY DEF LocksStay
    <3>1. QED
      BY <2>10, <2>11 DEF LockStays, DeleteLocked
  <2>19. QueueSound'
    <3>1. UNCHANGED <<todelete, ti, tj>>
      BY <1>1
    <3>2. QED
      BY <2>10, <2>11, <3>1, QueueKept
  <2>20. LinkedIsNotSlabbed'
    <3> SUFFICES ASSUME NEW j \in Chunks, Linked(store', j)
                 PROVE  "SLABBED" \notin store'.item[j].it_flags
      BY DEF LinkedIsNotSlabbed
    <3>1. Linked(store, j) /\ "SLABBED" \notin store.item[j].it_flags
      BY <2>10 DEF RInv, LinkedIsNotSlabbed
    <3>2. QED
      BY <2>10, <3>1
  <2>21. QED
    BY <2>12, <2>13, <2>14, <2>15, <2>16, <2>17, <2>18, <2>19, <2>20 DEF RInv
<1>6. QED
  BY <1>4, <1>5

\* A new value of an item that is not owned passes.
LEMMA RevaluedPasses ==
  ASSUME NEW s, NEW t, NEW P, NEW i \in Chunks, i \notin P, Revalued(s, t, i)
  PROVE  Passes(s, t, P) /\ LocksStay(s, t)
<1>1. /\ SameRefs(s, t) /\ \A j \in Chunks \ {i} : SameItem(s, t, j)
      /\ \A j \in Chunks :
           /\ Linked(t, j) <=> Linked(s, j)
           /\ t.item[j].key = s.item[j].key /\ t.item[j].nbytes = s.item[j].nbytes
           /\ t.item[j].exptime = s.item[j].exptime
           /\ t.item[j].it_flags = s.item[j].it_flags
  BY DEF Revalued
<1>2. Passes(s, t, P)
  BY <1>1, ItemPasses
<1>3. LocksStay(s, t)
  BY <1>1 DEF LocksStay, LockStays, DeleteLocked
<1>4. QED
  BY <1>2, <1>3

\* Replacing an item by itself: it is given back to the allocator, and linked.
LEMMA ReplaceItself ==
  ASSUME NEW r \in Store, NEW i \in Chunks, NEW now, r.item[i].it_flags = {},
         r.item[i].refcount = 0, NEW t, t = item_replace(r, i, i, now)
  PROVE  Linked(t, i) /\ "SLABBED" \in t.item[i].it_flags
<1>1. ~ Linked(r, i)
  BY DEF Linked
<1>2. item_unlink(r, i) = item_free(r, i)
  BY <1>1 DEF item_unlink, FreeIfUnreferenced
<1>3. PICK u : u = item_free(r, i)
  OBVIOUS
<1>4. u \in Store
  BY <1>3, ItemFreeKeeps DEF Keeps
<1>5. "SLABBED" \in u.item[i].it_flags
  <2>1. r.item \in [Chunks -> Item] /\ r.item[i] \in Item
    BY DEF Store
  <2>2. u.item = [r.item EXCEPT ![i] = [r.item[i] EXCEPT !.slabs_clsid = 0,
                                                         !.it_flags = @ \cup {"SLABBED"}]]
    BY <1>3, FreeFields
  <2>3. u.item[i].it_flags = r.item[i].it_flags \cup {"SLABBED"}
    BY <2>1, <2>2 DEF Item
  <2>4. QED
    BY <2>3
<1>6. t = item_link(u, i, now)
  BY <1>2, <1>3 DEF item_replace
<1>7. /\ \A j \in Chunks : Linked(t, j) <=> Linked(u, j) \/ j = i
      /\ UsedNow(u, t, i, now)
  BY <1>4, <1>6, LinkItems
<1>8. QED
  BY <1>5, <1>7 DEF UsedNow

\* item_alloc gets no chunk by an eviction: calloc of a page never fails, so
\* that only the memory limit is in the way, which an eviction does not change;
\* or nothing is evicted.
NoRetry == ~ CallocMayFail \/ ~ EvictToFree

\* An eviction gives chunks back, and no page.
LEMMA EvictMapsNothing ==
  ASSUME NEW s \in Store, NEW id \in Ids, NEW e \in evict(s, id)
  PROVE  e.mem_malloced = s.mem_malloced
<1>1. CASE e = s
  BY <1>1
<1>2. CASE \E n \in DOMAIN s.lru[id] : e = item_unlink(s, s.lru[id][n])
  <2>1. PICK n \in DOMAIN s.lru[id] : e = item_unlink(s, s.lru[id][n])
    BY <1>2
  <2>2. s.lru[id] \in Seq(Chunks)
    BY DEF Store, Ids
  <2>3. PICK i \in Chunks : i = s.lru[id][n]
    BY <2>1, <2>2
  <2>4. PICK u \in Store : /\ u = IF Linked(s, i) THEN UnlinkLinked(s, i) ELSE s
                           /\ u.mem_malloced = s.mem_malloced
    <3>1. UnlinkLinked(s, i) \in Store
      BY UnlinkLinkedKeeps DEF Keeps
    <3>2. UnlinkLinked(s, i).mem_malloced = s.mem_malloced
      BY UnlinkFields
    <3>3. QED
      BY <3>1, <3>2
  <2>5. item_free(u, i).mem_malloced = u.mem_malloced
    BY FreeFields
  <2>6. e = FreeIfUnreferenced(u, i)
    BY <2>1, <2>3, <2>4 DEF item_unlink
  <2>7. QED
    BY <2>4, <2>5, <2>6 DEF FreeIfUnreferenced
<1>3. QED
  BY <1>1, <1>2 DEF evict, Unreferenced

\* Then a chunk is one of those the first attempt may return.
LEMMA FirstTry ==
  ASSUME NoRetry, NEW s \in Store, NEW id \in Ids, NEW o \in ChunkFor(s, id), o.it # NULL
  PROVE  o \in mem_cache_alloc(s, id)
<1> SUFFICES ASSUME NEW f \in mem_cache_alloc(s, id), f.it = NULL, f.s.lru[id] # <<>>,
                    EvictToFree, NEW e \in evict(f.s, id), o \in mem_cache_alloc(e, id)
             PROVE  FALSE
  BY DEF ChunkFor
<1>1. ~ CallocMayFail
  BY DEF NoRetry
<1>2. s.mem_malloced >= MemLimit /\ f.s = s
  <2>1. CASE s.mem_malloced >= MemLimit
    <3>1. f = Outcome(s, NULL)
      BY <2>1 DEF mem_cache_alloc
    <3>2. QED
      BY <2>1, <3>1 DEF Outcome
  <2>2. CASE ~ s.mem_malloced >= MemLimit
    <3>1. \/ \E i \in FreeOf(s, id) : f = Outcome(TakeChunk(s, i), i)
          \/ \E p : \E i \in ChunksOf({p}) : f = Outcome(TakeChunk(MapPage(s, p), i), i)
      BY <1>1, <2>2 DEF mem_cache_alloc
    <3>2. \E i \in Chunks : f.it = i
      BY <3>1 DEF FreeOf, ChunksOf, Outcome, Store
    <3>3. QED
      BY <3>2, PoolAssumption
  <2>3. QED
    BY <2>1, <2>2
<1>3. e.mem_malloced = s.mem_malloced
  BY <1>2, EvictMapsNothing
<1>4. o.it = NULL
  BY <1>2, <1>3 DEF mem_cache_alloc, Outcome
<1>5. QED
  BY <1>4

\* Then a new item is not in a chunk that is linked.
LEMMA NewIsNotLinked ==
  ASSUME NoRetry, NEW s, NEW O, NEW now, Sound(s, O, now), NEW k \in Keys, NEW len \in Lens,
         NEW x \in ItemTimes, NEW a \in item_alloc(s, k, len, x), a.it # NULL
  PROVE  ~ Linked(s, a.it)
<1>1. s \in Store /\ ClsId[len] \in Ids
  BY ItemsAssumption DEF Sound, Ids
<1>2. PICK o \in ChunkFor(s, ClsId[len]) : a = InitItem(o, k, len, x)
  BY DEF item_alloc, Outcome
<1>3. o.it # NULL /\ a.it = o.it
  BY <1>2 DEF InitItem, Outcome
<1>4. o \in mem_cache_alloc(s, ClsId[len])
  BY <1>1, <1>3, FirstTry
<1>5. Gives(s, o, O, now)
  BY <1>4, AllocSound
<1>6. QED
  BY <1>3, <1>5 DEF Gives, Live

\* The number that no longer fits goes to a new item: not to the old one.
LEMMA RegrownSound ==
  ASSUME RInv, current_time \in ItemTimes, NEW k \in Keys, NEW i \in Chunks,
         Linked(store, i), store.item[i].key = k, ~ DeleteLocked(store, i),
         NEW len \in Lens, NEW x \in ItemTimes, NEW v \in Vals,
         NEW o \in item_alloc(store, k, len, x), o.it # NULL,
         NEW t, t = item_replace([o.s EXCEPT !.item[o.it].val = v], i, o.it, current_time),
         NoRetry \/ ~ (Linked(t, i) /\ "SLABBED" \in t.item[i].it_flags)
  PROVE  /\ Sound(t, Owned, current_time) /\ Passes(store, t, Owned) /\ LocksStay(store, t)
         /\ LinksNew(store, t, o.it, k, v) /\ SparesOthers(store, t, i)
<1>1. Sound(store, Owned, current_time)
  BY DEF RInv, StoreSound
<1>2. /\ Fades(store, o.s, Owned) /\ Spares(store, o.s)
      /\ o.it \in Chunks /\ o.it \notin Owned /\ Sound(o.s, Owned \cup {o.it}, current_time)
      /\ o.s.item[o.it] = NewItem(k, len, x)
  BY <1>1, ItemAllocSound
<1> PICK n \in Chunks : n = o.it
  BY <1>2
<1> PICK O : O = Owned \cup {n}
  OBVIOUS
<1> PICK r : r = [o.s EXCEPT !.item[n].val = v]
  OBVIOUS
<1>3. Sound(r, O, current_time) /\ Revalued(o.s, r, n)
  BY <1>2, ValSound
<1>4. /\ SameRefs(o.s, r) /\ r.pages = o.s.pages
      /\ \A j \in Chunks \ {n} : SameItem(o.s, r, j)
      /\ \A j \in Chunks :
           /\ Linked(r, j) <=> Linked(o.s, j)
           /\ r.item[j].key = o.s.item[j].key
           /\ r.item[j].it_flags = o.s.item[j].it_flags
  BY <1>3 DEF Revalued
<1>5. /\ r.item[n].it_flags = {} /\ r.item[n].key = k /\ r.item[n].refcount = 0
  <2>1. /\ NewItem(k, len, x).it_flags = {} /\ NewItem(k, len, x).key = k
        /\ NewItem(k, len, x).refcount = 0
    BY DEF NewItem, BlankItem
  <2>2. QED
    BY <1>2, <1>4, <2>1 DEF SameRefs
<1>6. t = item_replace(r, i, n, current_time) /\ r \in Store
  BY <1>3 DEF Sound
<1>7. i # n
  <2>1. NoRetry => i # n
    BY <1>1, NewIsNotLinked
  <2>2. QED
    BY <1>5, <1>6, <2>1, ReplaceItself
<1>8. i \notin O /\ PageOf[i] \in r.pages
  BY <1>1, <1>2, <1>4, <1>7 DEF Sound, Placed, Live, Fades
<1>9. ASSUME NEW j \in Chunks, Linked(r, j), r.item[j].key = k
      PROVE  j = i
  <2>1. Linked(o.s, j) /\ o.s.item[j].key = k
    BY <1>4, <1>9
  <2>2. Linked(store, j) /\ store.item[j].key = k
    BY <1>2, <2>1 DEF Fades, SameItem
  <2>3. store.hashtable[k] = <<j>> /\ store.hashtable[k] = <<i>>
    BY <1>1, <2>2 DEF Sound, Table
  <2>4. <<i>>[1] = i /\ <<j>>[1] = j
    OBVIOUS
  <2>5. QED
    BY <2>3, <2>4
<1>10. Sound(t, O \ {n}, current_time) /\ Replacing(r, t, i, n, O, current_time)
  <2>1. /\ n \in O /\ r.item[n].key \in Keys
        /\ \A j \in Chunks : Linked(r, j) /\ r.item[j].key = r.item[n].key => j = i
    BY <1>5, <1>9
  <2>2. /\ Sound(item_replace(r, i, n, current_time), O \ {n}, current_time)
        /\ Replacing(r, item_replace(r, i, n, current_time), i, n, O, current_time)
    BY <1>3, <1>8, <2>1, ItemReplaceSound
  <2>3. QED
    BY <1>6, <2>2
<1>11. O \ {n} = Owned /\ n \notin Owned /\ Owned \subseteq O
  BY <1>2
<1>12. /\ SameRefs(r, t) /\ UsedNow(r, t, n, current_time)
       /\ \A j \in Chunks : Linked(t, j) <=> (Linked(r, j) /\ j # i) \/ j = n
       /\ \A j \in Chunks \ {n} : Live(t, j) \/ j \in O => SameItem(r, t, j)
  BY <1>10 DEF Replacing
<1>13. ~ Linked(r, n) /\ ~ Referenced(r, n)
  BY <1>3, <1>2 DEF Sound, Placed, Live
<1>14. Passes(store, t, Owned)
  <2>1. Passes(store, o.s, Owned)
    BY <1>2, FadesPasses
  <2>2. Passes(o.s, r, Owned)
    BY <1>3, <1>11, RevaluedPasses
  <2>3. Passes(r, t, Owned)
    <3>1. ASSUME NEW j \in Chunks \ {n}
          PROVE  /\ Linked(t, j) => Linked(r, j)
                 /\ Linked(t, j) \/ Referenced(r, j) \/ j \in Owned => SameItem(r, t, j)
      BY <1>11, <1>12 DEF Live, Referenced, SameRefs
    <3>2. t.item[n].it_flags \ {"LINKED"} = r.item[n].it_flags \ {"LINKED"}
      BY <1>12 DEF UsedNow
    <3>3. QED
      BY <1>5, <1>11, <1>12, <1>13, <3>1, <3>2, ItemPasses
  <2>4. QED
    BY <2>1, <2>2, <2>3, PassesTrans
<1>15. ASSUME NEW j \in Chunks, Linked(store, j), DeleteLocked(store, j)
       PROVE  LockStays(store, t, j)
  <2>1. LocksStay(store, o.s)
    BY <1>2, SparedLocks
  <2>2. LockStays(store, o.s, j)
    BY <1>15, <2>1 DEF LocksStay
  <2>3. Linked(o.s, j) /\ Linked(r, j) /\ j # i /\ j # n
    BY <1>4, <1>13, <1>15, <2>2 DEF LockStays
  <2>4. SameItem(o.s, r, j) /\ SameItem(r, t, j) /\ Linked(t, j)
    BY <1>4, <1>12, <2>3 DEF Live
  <2>5. QED
    BY <2>2, <2>4 DEF LockStays, SameItem
<1>16. LinksNew(store, t, n, k, v)
  <2>1. r.item[n].val = v
    <3>1. o.s.item \in [Chunks -> Item] /\ o.s.item[n] \in Item
      BY <1>2 DEF Sound, Store
    <3>2. QED
      BY <3>1 DEF Item
  <2>2. Linked(t, n) /\ t.item[n].key = k /\ t.item[n].val = v
    BY <1>5, <1>12, <2>1 DEF UsedNow
  <2>3. ASSUME NEW j \in Chunks \ {n}, Linked(t, j)
        PROVE  Linked(store, j) /\ SameItem(store, t, j)
    <3>1. Linked(r, j) /\ SameItem(r, t, j) /\ SameItem(o.s, r, j) /\ Linked(o.s, j)
      BY <1>4, <1>12, <2>3 DEF Live
    <3>2. Linked(store, j) /\ SameItem(store, o.s, j)
      BY <1>2, <3>1 DEF Fades
    <3>3. QED
      BY <3>1, <3>2 DEF SameItem
  <2>4. QED
    BY <2>2, <2>3 DEF LinksNew
<1>17. SparesOthers(store, t, i)
  <2> SUFFICES ASSUME NEW j \in Chunks \ {i}, Linked(store, j), Referenced(store, j)
               PROVE  Linked(t, j)
    BY DEF SparesOthers
  <2>1. Linked(o.s, j)
    BY <1>2 DEF Spares
  <2>2. QED
    BY <1>4, <1>12, <2>1
<1>18. QED
  BY <1>10, <1>11, <1>14, <1>15, <1>16, <1>17 DEF LocksStay

\* The step of incr or decr that needs a new item, which it may not get.
LEMMA RegrownRefs ==
  ASSUME RInv, IInv', NoRefMoves, UNCHANGED <<current_time, state, citem, fn, who>>,
         NEW k \in Keys, NEW i \in Chunks,
         Linked(store, i), store.item[i].key = k, ~ DeleteLocked(store, i),
         NEW len \in Lens, NEW x \in ItemTimes, NEW v \in Vals,
         NEW o \in item_alloc(store, k, len, x),
         store' = IF o.it = NULL THEN o.s
                  ELSE item_replace([o.s EXCEPT !.item[o.it].val = v], i, o.it, current_time),
         NoRetry \/ ~ (Linked(store', i) /\ "SLABBED" \in store'.item[i].it_flags)
  PROVE  RInv' /\ LocksStay(store, store') /\ SparesOthers(store, store', i)
<1>1. Sound(store, Owned, current_time) /\ current_time \in ItemTimes
  BY RInvTypes DEF RInv, StoreSound
<1>2. PICK t : t = store'
  OBVIOUS
<1>3. /\ Sound(t, Owned, current_time) /\ Passes(store, t, Owned) /\ LocksStay(store, t)
      /\ SparesOthers(store, t, i)
  <2>1. CASE o.it = NULL
    <3>1. /\ Fades(store, o.s, Owned) /\ Spares(store, o.s)
          /\ \/ o.it = NULL /\ Sound(o.s, Owned, current_time)
             \/ /\ o.it \in Chunks /\ o.it \notin Owned
                /\ Sound(o.s, Owned \cup {o.it}, current_time)
                /\ o.s.item[o.it] = NewItem(k, len, x)
      BY <1>1, ItemAllocSound
    <3>2. Sound(o.s, Owned, current_time) /\ t = o.s
      BY <1>2, <2>1, <3>1, PoolAssumption
    <3>3. QED
      BY <3>1, <3>2, FadesPasses, SparedLocks DEF Spares, SparesOthers
  <2>2. CASE o.it # NULL
    <3>1. t = item_replace([o.s EXCEPT !.item[o.it].val = v], i, o.it, current_time)
      BY <1>2, <2>2
    <3>2. NoRetry \/ ~ (Linked(t, i) /\ "SLABBED" \in t.item[i].it_flags)
      BY <1>2
    <3>3. QED
      BY <1>1, <2>2, <3>1, <3>2, RegrownSound
  <2>3. QED
    BY <2>1, <2>2
<1>4. QED
  BY <1>2, <1>3, StoreOnly

\* incr and decr.
LEMMA CommandVaryDeltaRefs ==
  ASSUME RInv, IInv', NoRetry \/ LinkedIsNotSlabbed', NEW c \in Conns, NEW k \in Keys,
         NEW incr \in BOOLEAN, NEW delta \in Deltas, command_vary_delta(c, k, incr, delta)
  PROVE  /\ RInv' /\ LocksStay(store, store')
         /\ SparesOthers(store, store', assoc_find(store, k))
<1> USE DEF timeVars, timerVars, connVars, NoRefMoves
<1>1. NoRefMoves /\ UNCHANGED <<current_time, state, citem, fn, who>>
  BY DEF command_vary_delta
<1> PICK g : g = get_item_notedeleted(store, k)
  OBVIOUS
<1>2. Sound(store, Owned, current_time) /\ current_time \in ItemTimes /\ store \in Store
  BY RInvTypes DEF RInv, StoreSound
<1>3. Sound(g.s, Owned, current_time) /\ Passes(store, g.s, Owned) /\ LocksStay(store, g.s)
  <2>1. Sound(g.s, Owned, current_time) /\ Fades(store, g.s, Owned)
    BY <1>2, LookupSound
  <2>2. QED
    BY <1>2, <2>1, FadesPasses, LookupFinds
<1>4. CASE g.it = NULL
  <2>1. store' = g.s
    BY <1>4 DEF command_vary_delta, get_item
  <2>2. SparesOthers(store, g.s, assoc_find(store, k))
    <3>1. \/ g = Found(store, assoc_find(store, k), FALSE)
          \/ g = Found(store, NULL, TRUE) \/ g = Found(store, NULL, FALSE)
          \/ \A j \in Chunks : Linked(g.s, j) <=> Linked(store, j) /\ j # assoc_find(store, k)
      BY <1>2, LookupSound
    <3>2. \/ g.s = store
          \/ \A j \in Chunks : Linked(g.s, j) <=> Linked(store, j) /\ j # assoc_find(store, k)
      BY <3>1 DEF Found
    <3>3. QED
      BY <3>2 DEF SparesOthers
  <2>3. QED
    BY <1>1, <1>3, <2>1, <2>2, StoreOnly
<1>5. CASE g.it # NULL
  <2>1. g.s = store /\ g.it \in Chunks /\ Linked(store, g.it) /\ store.item[g.it].key = k
        /\ ~ DeleteLocked(store, g.it)
    BY <1>2, <1>5, LookupFinds
  <2> PICK i \in Chunks : i = g.it
    BY <2>1
  <2>3. assoc_find(store, k) = i
    BY <1>2, <2>1, FindLinked DEF Sound
  <2>2. PICK v \in Vals :
          /\ DataLen[v] \in Lens /\ store.item[i].exptime \in ItemTimes
          /\ \/ \E o \in item_alloc(store, k, DataLen[v], store.item[i].exptime) :
                  store' = IF o.it = NULL THEN o.s
                           ELSE item_replace([o.s EXCEPT !.item[o.it].val = v],
                                             i, o.it, current_time)
             \/ store' = [store EXCEPT !.item[i].val = v]
    <3> PICK v : v = NewValue(incr, store.item[i].val, delta)
      OBVIOUS
    <3>1. \/ \E o \in item_alloc(store, k, DataLen[v], store.item[i].exptime) :
                store' = IF o.it = NULL THEN o.s
                         ELSE item_replace([o.s EXCEPT !.item[o.it].val = v],
                                           i, o.it, current_time)
          \/ store' = [store EXCEPT !.item[i].val = v]
      BY <1>5, <2>1 DEF command_vary_delta, get_item
    <3>2. store.item[i] \in Item
      BY <1>2, ItemTypes
    <3>3. store.item[i].val \in Vals /\ store.item[i].exptime \in ItemTimes
      BY <3>2 DEF Item
    <3>4. v \in Vals
      BY <3>3, NewValueType
    <3>5. QED
      BY <3>1, <3>3, <3>4, ItemStoreAssumption
  <2>4. CASE store' = [store EXCEPT !.item[i].val = v]
    <3>1. Sound(store', Owned, current_time) /\ Revalued(store, store', i)
      BY <1>2, <2>4, ValSound
    <3>2. i \notin Owned
      BY <1>2, <2>1 DEF Sound, Placed, Live
    <3>3. Passes(store, store', Owned) /\ LocksStay(store, store')
      BY <3>1, <3>2, RevaluedPasses
    <3>4. SparesOthers(store, store', i)
      BY <3>1 DEF SparesOthers, Revalued
    <3>5. QED
      BY <1>1, <2>3, <3>1, <3>3, <3>4, StoreOnly
  <2>5. CASE \E o \in item_alloc(store, k, DataLen[v], store.item[i].exptime) :
               store' = IF o.it = NULL THEN o.s
                        ELSE item_replace([o.s EXCEPT !.item[o.it].val = v],
                                          i, o.it, current_time)
    <3>1. NoRetry \/ ~ (Linked(store', i) /\ "SLABBED" \in store'.item[i].it_flags)
      BY DEF LinkedIsNotSlabbed
    <3>2. QED
      BY <1>1, <2>1, <2>2, <2>3, <2>5, <3>1, RegrownRefs
  <2>6. QED
    BY <2>2, <2>4, <2>5
<1>6. QED
  BY <1>4, <1>5

-----------------------------------------------------------------------------
(* The delete lock *)

\* A store that differs in what no list or counter looks at.
LEMMA SoundCong ==
  ASSUME NEW s, NEW t \in Store, NEW O, NEW now, Sound(s, O, now),
         t.pages = s.pages, t.free = s.free, t.hashtable = s.hashtable, t.lru = s.lru,
         \A j \in Chunks :
           /\ t.item[j].key = s.item[j].key /\ t.item[j].time = s.item[j].time
           /\ t.item[j].refcount = s.item[j].refcount
           /\ t.item[j].slabs_clsid = s.item[j].slabs_clsid
           /\ Linked(t, j) <=> Linked(s, j)
  PROVE  Sound(t, O, now)
<1>1. Table(t)
  BY TableCong DEF Sound
<1>2. Order(t, now)
  BY OrderCong DEF Sound
<1>3. Placed(t, O)
  BY DEF Sound, Placed, Live, Referenced
<1>4. QED
  BY <1>1, <1>2, <1>3 DEF Sound

\* t is s with another lock, until x or none at all, on item i.
Relocking(s, t, i, x, locked) ==
  /\ SameRefs(s, t) /\ t.pages = s.pages
  /\ \A j \in Chunks \ {i} : SameItem(s, t, j)
  /\ \A j \in Chunks :
       /\ Linked(t, j) <=> Linked(s, j)
       /\ t.item[j].key = s.item[j].key /\ t.item[j].nbytes = s.item[j].nbytes
  /\ t.item[i].exptime = x
  /\ "DELETED" \in t.item[i].it_flags <=> locked
  /\ t.item[i].it_flags \ {"DELETED"} = s.item[i].it_flags \ {"DELETED"}

\* A delete with a lock: the item is flagged and gets its new time.
LEMMA LockSound ==
  ASSUME NEW s, NEW O, NEW now, Sound(s, O, now), NEW i \in Chunks, NEW x \in ItemTimes,
         NEW t, t = [s EXCEPT !.item[i].exptime = x, !.item[i].it_flags = @ \cup {"DELETED"}]
  PROVE  Sound(t, O, now) /\ Relocking(s, t, i, x, TRUE)
<1>1. s \in Store /\ s.item[i] \in Item /\ s.item \in [Chunks -> Item]
  BY DEF Sound, Store
<1> PICK w \in SUBSET Flags : w = s.item[i].it_flags \cup {"DELETED"}
  BY <1>1 DEF Item, Flags
<1> PICK r : r = [s.item[i] EXCEPT !.exptime = x, !.it_flags = w]
  OBVIOUS
<1>2. /\ r \in Item /\ r.key = s.item[i].key /\ r.time = s.item[i].time
      /\ r.refcount = s.item[i].refcount /\ r.slabs_clsid = s.item[i].slabs_clsid
      /\ r.nbytes = s.item[i].nbytes /\ r.exptime = x /\ r.it_flags = w
  BY <1>1 DEF Item
<1>3. /\ t.pages = s.pages /\ t.free = s.free /\ t.hashtable = s.hashtable /\ t.lru = s.lru
      /\ t.item = [s.item EXCEPT ![i] = r]
  BY <1>1 DEF Store
<1>4. t \in Store
  BY <1>1, LockKeeps DEF Keeps
<1>5. \A j \in Chunks : t.item[j] = IF j = i THEN r ELSE s.item[j]
  BY <1>1, <1>3
<1>6. \A j \in Chunks :
        /\ t.item[j].key = s.item[j].key /\ t.item[j].time = s.item[j].time
        /\ t.item[j].refcount = s.item[j].refcount
        /\ t.item[j].slabs_clsid = s.item[j].slabs_clsid
        /\ t.item[j].nbytes = s.item[j].nbytes
        /\ Linked(t, j) <=> Linked(s, j)
  <2>1. "LINKED" \in r.it_flags <=> "LINKED" \in s.item[i].it_flags
    <3>1. r.it_flags = s.item[i].it_flags \cup {"DELETED"}
      BY <1>2
    <3>2. "LINKED" # "DELETED"
      OBVIOUS
    <3>3. QED
      BY <3>1, <3>2, Zenon
  <2>2. Linked(t, i) <=> Linked(s, i)
    <3>1. t.item[i] = r
      BY <1>5, Zenon
    <3>2. QED
      BY <2>1, <3>1, Zenon DEF Linked
  <2>3. QED
    BY <1>2, <1>5, <2>2 DEF Linked
<1>7. Sound(t, O, now)
  BY <1>3, <1>4, <1>6, SoundCong
<1>8. SameRefs(s, t) /\ \A j \in Chunks \ {i} : SameItem(s, t, j)
  BY <1>5, <1>6 DEF SameRefs, SameItem
<1>9. t.item[i].exptime = x /\ ("DELETED" \in t.item[i].it_flags <=> TRUE)
  BY <1>2, <1>5
<1>10. t.item[i].it_flags \ {"DELETED"} = s.item[i].it_flags \ {"DELETED"}
  <2>1. t.item[i].it_flags = s.item[i].it_flags \cup {"DELETED"}
    BY <1>2, <1>5
  <2>2. QED
    BY <2>1
<1>11. QED
  BY <1>3, <1>6, <1>7, <1>8, <1>9, <1>10 DEF Relocking

\* The timer clears the flag.
LEMMA UnlockSound ==
  ASSUME NEW s, NEW O, NEW now, Sound(s, O, now), NEW i \in Chunks,
         NEW t, t = [s EXCEPT !.item[i].it_flags = @ \ {"DELETED"}]
  PROVE  Sound(t, O, now) /\ Relocking(s, t, i, s.item[i].exptime, FALSE)
<1>1. s \in Store /\ s.item[i] \in Item /\ s.item \in [Chunks -> Item]
  BY DEF Sound, Store
<1> PICK w \in SUBSET Flags : w = s.item[i].it_flags \ {"DELETED"}
  BY <1>1 DEF Item, Flags
<1> PICK r : r = [s.item[i] EXCEPT !.it_flags = w]
  OBVIOUS
<1>2. /\ r \in Item /\ r.key = s.item[i].key /\ r.time = s.item[i].time
      /\ r.refcount = s.item[i].refcount /\ r.slabs_clsid = s.item[i].slabs_clsid
      /\ r.nbytes = s.item[i].nbytes /\ r.exptime = s.item[i].exptime /\ r.it_flags = w
  BY <1>1 DEF Item
<1>3. /\ t.pages = s.pages /\ t.free = s.free /\ t.hashtable = s.hashtable /\ t.lru = s.lru
      /\ t.item = [s.item EXCEPT ![i] = r]
  BY <1>1 DEF Store
<1>4. t \in Store
  BY <1>1, UnlockKeeps DEF Keeps
<1>5. \A j \in Chunks : t.item[j] = IF j = i THEN r ELSE s.item[j]
  BY <1>1, <1>3
<1>6. \A j \in Chunks :
        /\ t.item[j].key = s.item[j].key /\ t.item[j].time = s.item[j].time
        /\ t.item[j].refcount = s.item[j].refcount
        /\ t.item[j].slabs_clsid = s.item[j].slabs_clsid
        /\ t.item[j].nbytes = s.item[j].nbytes
        /\ Linked(t, j) <=> Linked(s, j)
  BY <1>2, <1>5 DEF Linked
<1>7. Sound(t, O, now)
  BY <1>3, <1>4, <1>6, SoundCong
<1>8. SameRefs(s, t) /\ \A j \in Chunks \ {i} : SameItem(s, t, j)
  BY <1>5, <1>6 DEF SameRefs, SameItem
<1>9. t.item[i].exptime = s.item[i].exptime /\ ("DELETED" \in t.item[i].it_flags <=> FALSE)
  BY <1>2, <1>5
<1>10. t.item[i].it_flags \ {"DELETED"} = s.item[i].it_flags \ {"DELETED"}
  <2>1. t.item[i].it_flags = s.item[i].it_flags \ {"DELETED"}
    BY <1>2, <1>5
  <2>2. QED
    BY <2>1
<1>11. QED
  BY <1>3, <1>6, <1>7, <1>8, <1>9, <1>10 DEF Relocking

\* A delete with a lock: one entry more in the queue.
LEMMA QueueingRefs ==
  ASSUME RInv, IInv', NEW i \in Chunks, Linked(store, i), fn = "ae_loop",
         ~ DeleteLocked(store, i), ~ Expired(store, i), store.item[i].refcount < RefMod - 1,
         NEW x \in ItemTimes, LocksTimed => x # 0,
         store' = [AddRef(store, i) EXCEPT !.item[i].exptime = x,
                                           !.item[i].it_flags = @ \cup {"DELETED"}],
         Len(todelete) < MaxDel, todelete' = Append(todelete, i),
         UNCHANGED <<current_time, oldest_live, ti, tj, state, citem, ilist, icurr, fn, who>>
  PROVE  RInv' /\ LocksStay(store, store')
<1>1. /\ todelete \in Seq(Chunks) /\ Len(todelete) \in Nat /\ ti = 0 /\ tj = 0
      /\ MaxDel \in Nat
  BY ItemStoreAssumption DEF RInv, IInv, TypeOK, TimerIdle
<1> PICK n \in Nat : n = Len(todelete) + 1
  BY <1>1
<1>2. /\ Len(todelete') = n /\ todelete'[n] = i
      /\ \A m \in 1 .. Len(todelete) : todelete'[m] = todelete[m]
  BY <1>1
<1>3. /\ Sound(store, Owned, current_time) /\ current_time \in ItemTimes
      /\ i \notin Owned
  BY RInvTypes DEF RInv, StoreSound, Sound, Placed, Live
<1>4. PICK u : u = AddRef(store, i)
  OBVIOUS
<1>5. Sound(u, Owned, current_time) /\ Taking(store, u, i)
  BY <1>3, <1>4, TakingSound
<1>6. Sound(store', Owned, current_time) /\ Relocking(u, store', i, x, TRUE)
  <2>1. store' = [u EXCEPT !.item[i].exptime = x, !.item[i].it_flags = @ \cup {"DELETED"}]
    BY <1>4
  <2>2. QED
    BY <1>5, <2>1, LockSound
<1>7. ASSUME NEW j \in Chunks
      PROVE  /\ store'.item[j].refcount = IF j = i THEN store.item[i].refcount + 1
                                          ELSE store.item[j].refcount
             /\ store'.item[j].key = store.item[j].key
             /\ store'.item[j].nbytes = store.item[j].nbytes
             /\ Linked(store', j) <=> Linked(store, j)
  BY <1>5, <1>6 DEF Taking, Relocking, SameRefs, SameItem
<1>8. ASSUME NEW j \in Chunks, j # i
      PROVE  SameItem(store, store', j)
  <2>1. SameItem(store, u, j) /\ SameItem(u, store', j)
    BY <1>5, <1>6, <1>8 DEF Taking, Relocking
  <2>2. QED
    BY <2>1 DEF SameItem
<1>9. store'.item[i].exptime = x /\ "DELETED" \in store'.item[i].it_flags
  BY <1>6 DEF Relocking
<1>10. QueueLive = 1 .. Len(todelete) /\ QueueLive' = 1 .. n
  BY <1>1, <1>2 DEF QueueLive
<1>11. ASSUME NEW j \in Chunks
       PROVE  /\ QueueHolds(j)' = IF j = i THEN QueueHolds(j) \cup {n} ELSE QueueHolds(j)
              /\ n \notin QueueHolds(j) /\ ResponseHolds(j)' = ResponseHolds(j)
  <2>1. n \notin QueueHolds(j)
    BY <1>1, <1>10 DEF QueueHolds
  <2>2. \A m \in 1 .. n : m = n \/ m \in 1 .. Len(todelete)
    BY <1>1
  <2>3. 1 .. Len(todelete) \subseteq 1 .. n /\ n \in 1 .. n
    BY <1>1
  <2>4. QueueHolds(j)' = IF j = i THEN QueueHolds(j) \cup {n} ELSE QueueHolds(j)
    BY <1>2, <1>10, <2>2, <2>3 DEF QueueHolds
  <2>5. ResponseHolds(j)' = ResponseHolds(j)
    BY DEF ResponseHolds
  <2>6. QED
    BY <2>1, <2>4, <2>5
<1>12. RefcountIsHolds'
  <2> SUFFICES ASSUME NEW j \in Chunks
               PROVE  store'.item[j].refcount
                        = Cardinality(ResponseHolds(j)') + Cardinality(QueueHolds(j)')
    BY DEF RefcountIsHolds
  <2>1. store.item[j].refcount = Cardinality(ResponseHolds(j)) + Cardinality(QueueHolds(j))
    BY DEF RInv, RefcountIsHolds
  <2>2. IsFiniteSet(QueueHolds(j)) /\ Cardinality(ResponseHolds(j)) \in Nat
        /\ Cardinality(QueueHolds(j)) \in Nat
    BY HoldsFinite DEF RInv, IInv
  <2>3. CASE j = i
    <3>1. PICK Q : Q = QueueHolds(j)
      OBVIOUS
    <3>2. Cardinality(Q \cup {n}) = Cardinality(Q) + 1
      BY <1>11, <2>2, <3>1, FS_AddElement
    <3>3. QueueHolds(j)' = Q \cup {n} /\ ResponseHolds(j)' = ResponseHolds(j)
      BY <1>11, <2>3, <3>1
    <3>4. PICK a \in Nat : a = Cardinality(ResponseHolds(j))
      BY <2>2
    <3>5. PICK b \in Nat : b = Cardinality(Q)
      BY <2>2, <3>1
    <3>6. store.item[j].refcount = a + b
      BY <2>1, <3>1, <3>4, <3>5
    <3>7. store'.item[j].refcount = a + b + 1
      BY <1>7, <2>3, <3>6
    <3>8. /\ Cardinality(ResponseHolds(j)') = a
          /\ Cardinality(QueueHolds(j)') = b + 1
      BY <3>2, <3>3, <3>4, <3>5
    <3>9. QED
      BY <3>7, <3>8
  <2>4. CASE j # i
    BY <1>7, <1>11, <2>1, <2>4
  <2>5. QED
    BY <2>3, <2>4
<1>13. Owned' = Owned /\ StoreSound' /\ OwnedApart' /\ CallerOwnsNone' /\ TimerIdle'
  BY <1>6 DEF Owned, StoreSound, RInv, OwnedApart, CallerOwnsNone, TimerIdle
<1>14. OwnersRead'
  <2> SUFFICES ASSUME NEW d \in Conns, citem[d] # NULL
               PROVE  state[d] = "conn_nread" /\ store'.item[citem[d]].it_flags = {}
    BY DEF OwnersRead
  <2>1. citem[d] \in Chunks /\ citem[d] \in Owned /\ citem[d] # i
    BY <1>3, RInvTypes
  <2>2. SameItem(store, store', citem[d]) /\ store.item[citem[d]].it_flags = {}
        /\ state[d] = "conn_nread"
    BY <1>8, <2>1 DEF RInv, OwnersRead
  <2>3. QED
    BY <1>6, <2>1, <2>2, OwnerFlags
<1>15. InBounds'
  BY <1>1, <1>2 DEF RInv, InBounds
<1>16. ResponseIntact'
  BY <1>7, <1>12, <1>13, <1>15, IntactSame
<1>17. DeletedIsQueued'
  <2> SUFFICES ASSUME NEW j \in Chunks, Linked(store', j),
                      "DELETED" \in store'.item[j].it_flags
               PROVE  QueueHolds(j)' # {}
    BY DEF DeletedIsQueued
  <2>1. CASE j = i
    BY <1>11, <2>1
  <2>2. CASE j # i
    <3>1. Linked(store, j) /\ "DELETED" \in store.item[j].it_flags
      BY <1>7, <1>8, <2>2 DEF SameItem
    <3>2. QED
      BY <1>11, <2>2, <3>1 DEF RInv, DeletedIsQueued
  <2>3. QED
    BY <2>1, <2>2
<1>18. QueueSound'
  <2> SUFFICES ASSUME LocksTimed
               PROVE  QueuedIsDeleted' /\ QueuedOnce'
    BY DEF QueueSound, LocksTimed
  <2>1. QueuedIsDeleted /\ QueuedOnce
    BY DEF RInv, QueueSound
  <2>2. ASSUME NEW m \in 1 .. Len(todelete)
        PROVE  /\ todelete[m] # i /\ todelete[m] \in Chunks
               /\ store.item[todelete[m]].exptime # 0
               /\ "DELETED" \in store.item[todelete[m]].it_flags
    <3>1. /\ todelete[m] \in Chunks /\ store.item[todelete[m]].exptime # 0
          /\ "DELETED" \in store.item[todelete[m]].it_flags
      BY <1>1, <1>10, <2>1 DEF QueuedIsDeleted, QueuedOnce
    <3>2. ASSUME todelete[m] = i
          PROVE  FALSE
      <4>1. current_time >= store.item[i].exptime
        BY <3>1, <3>2 DEF DeleteLocked, item_delete_lock_over
      <4>2. store.item[i].exptime \in Nat /\ current_time \in Nat
        <5>1. store.item[i] \in Item
          BY RInvTypes, ItemTypes
        <5>2. QED
          BY <5>1, RInvTypes, ItemsAssumption DEF Item
      <4>3. QED
        BY <3>1, <3>2, <4>1, <4>2 DEF Expired
    <3>3. QED
      BY <3>1, <3>2
  <2>3. \A m \in 1 .. n : m = n \/ m \in 1 .. Len(todelete)
    BY <1>1
  <2>4. ASSUME NEW m \in 1 .. Len(todelete)
        PROVE  /\ todelete'[m] = todelete[m] /\ todelete'[m] # i
               /\ store'.item[todelete'[m]].exptime # 0
               /\ "DELETED" \in store'.item[todelete'[m]].it_flags
    <3>1. todelete'[m] = todelete[m] /\ todelete[m] # i /\ todelete[m] \in Chunks
      BY <1>2, <2>2
    <3>2. SameItem(store, store', todelete[m])
      BY <1>8, <3>1
    <3>3. QED
      BY <2>2, <3>1, <3>2 DEF SameItem
  <2>5. QueuedIsDeleted'
    BY <1>2, <1>9, <1>10, <2>3, <2>4 DEF QueuedIsDeleted
  <2>6. \A a, b \in QueueLive' : todelete'[a] = todelete'[b] => a = b
    <3> SUFFICES ASSUME NEW a \in 1 .. n, NEW b \in 1 .. n, todelete'[a] = todelete'[b]
                 PROVE  a = b
      BY <1>10
    <3>1. CASE a = n \/ b = n
      BY <1>2, <2>3, <2>4, <3>1
    <3>2. CASE a # n /\ b # n
      BY <1>2, <1>10, <2>1, <2>3, <3>2 DEF QueuedOnce
    <3>3. QED
      BY <3>1, <3>2
  <2>7. \A m \in QueueLive' : store'.item[todelete'[m]].exptime # 0
    BY <1>2, <1>9, <1>10, <2>3, <2>4
  <2>8. QED
    BY <2>5, <2>6, <2>7 DEF QueuedOnce
<1>19. LocksStay(store, store')
  <2> SUFFICES ASSUME NEW j \in Chunks, Linked(store, j), DeleteLocked(store, j)
               PROVE  LockStays(store, store', j)
    BY DEF LocksStay
  <2>1. j # i /\ Linked(store', j) /\ SameItem(store, store', j)
    BY <1>7, <1>8
  <2>2. QED
    BY <2>1 DEF LockStays, SameItem, DeleteLocked
<1>20. LinkedIsNotSlabbed'
  <2> SUFFICES ASSUME NEW j \in Chunks, Linked(store', j)
               PROVE  "SLABBED" \notin store'.item[j].it_flags
    BY DEF LinkedIsNotSlabbed
  <2>1. Linked(store, j) /\ "SLABBED" \notin store.item[j].it_flags
    BY <1>7 DEF RInv, LinkedIsNotSlabbed
  <2>2. CASE j = i
    <3>1. u.item[j].it_flags \ {"LINKED"} = store.item[j].it_flags \ {"LINKED"}
      BY <1>5 DEF Taking, SameItem
    <3>2. store'.item[j].it_flags \ {"DELETED"} = u.item[j].it_flags \ {"DELETED"}
      BY <1>6, <2>2 DEF Relocking
    <3>3. QED
      BY <2>1, <3>1, <3>2
  <2>3. CASE j # i
    BY <1>8, <2>1, <2>3 DEF SameItem
  <2>4. QED
    BY <2>2, <2>3
<1>21. QED
  BY <1>12, <1>13, <1>14, <1>15, <1>16, <1>17, <1>18, <1>19, <1>20 DEF RInv

\* delete: at once, or with a lock.
LEMMA DeleteHandlerRefs ==
  ASSUME RInv, IInv', \A i \in Chunks : store.item[i].refcount < RefMod - 1,
         NEW c \in Conns, NEW k \in Keys, NEW t \in DelTimes, delete_handler(c, k, t)
  PROVE  RInv' /\ LocksStay(store, store')
<1> USE DEF timeVars, timerVars, connVars
<1>1. /\ UNCHANGED <<current_time, oldest_live, ti, tj, state, citem, ilist, icurr, fn, who>>
      /\ fn = "ae_loop"
  BY DEF delete_handler, Ready
<1> PICK g : g = get_item_notedeleted(store, k)
  OBVIOUS
<1>2. Sound(store, Owned, current_time) /\ current_time \in ItemTimes /\ store \in Store
  BY RInvTypes DEF RInv, StoreSound
<1>3. Sound(g.s, Owned, current_time) /\ Passes(store, g.s, Owned) /\ LocksStay(store, g.s)
  <2>1. Sound(g.s, Owned, current_time) /\ Fades(store, g.s, Owned)
    BY <1>2, LookupSound
  <2>2. QED
    BY <1>2, <2>1, FadesPasses, LookupFinds
<1>4. CASE store' = g.s /\ UNCHANGED todelete
  BY <1>1, <1>3, <1>4, StoreOnly DEF NoRefMoves
<1>5. CASE g.it # NULL /\ ~ (store' = g.s /\ UNCHANGED todelete)
  <2>1. g.s = store /\ g.it \in Chunks /\ Linked(store, g.it)
        /\ ~ DeleteLocked(store, g.it) /\ ~ Expired(store, g.it)
    BY <1>2, <1>5, LookupFinds
  <2> PICK i \in Chunks : i = g.it
    BY <2>1
  <2>2. CASE store' = item_unlink(store, i) /\ UNCHANGED todelete
    <3>1. i \notin Owned /\ PageOf[i] \in store.pages
      BY <1>2, <2>1 DEF Sound, Placed, Live
    <3>2. /\ Sound(store', Owned, current_time) /\ Fades(store, store', Owned)
          /\ \A j \in Chunks : Linked(store', j) <=> Linked(store, j) /\ j # i
      BY <1>2, <2>2, <3>1, ItemUnlinkSound
    <3>3. LocksStay(store, store')
      BY <2>1, <3>2, FadesLocks
    <3>4. QED
      BY <1>1, <2>2, <3>2, <3>3, FadesPasses, StoreOnly DEF NoRefMoves
  <2>3. CASE /\ t # 0 /\ Len(todelete) < MaxDel
             /\ store' = [AddRef(store, i) EXCEPT
                            !.item[i].exptime = realtime(t, current_time),
                            !.item[i].it_flags = @ \cup {"DELETED"}]
             /\ todelete' = Append(todelete, i)
    <3>1. PICK x \in ItemTimes : x = realtime(t, current_time)
      <4>1. t \in Int /\ current_time \in RelTime
        BY ItemStoreAssumption DEF RInv, IInv, TypeOK
      <4>2. QED
        BY <4>1, RealtimeType
    <3>2. LocksTimed => x # 0
      <4>1. current_time \in 0 .. MaxTime
        BY RInvTypes, ItemStoreAssumption, ItemsAssumption DEF RInv, InBounds
      <4>2. QED
        BY <2>3, <3>1, <4>1 DEF LocksTimed
    <3>3. store' = [AddRef(store, i) EXCEPT !.item[i].exptime = x,
                                            !.item[i].it_flags = @ \cup {"DELETED"}]
      BY <2>3, <3>1
    <3>4. QED
      BY <1>1, <2>1, <2>3, <3>2, <3>3, QueueingRefs
  <2>4. QED
    BY <1>5, <2>1, <2>2, <2>3 DEF delete_handler, get_item
<1>6. g.it = NULL => store' = g.s /\ UNCHANGED todelete
  BY DEF delete_handler, get_item
<1>7. QED
  BY <1>4, <1>5, <1>6

\* What dropping the item of an entry whose lock is over leaves: every other
\* item as it was.
TimerDrops(s, t, i, O) ==
  \A j \in Chunks :
    /\ Linked(t, j) <=> Linked(s, j) /\ j # i
    /\ t.item[j].refcount = IF j = i THEN s.item[i].refcount - 1 ELSE s.item[j].refcount
    /\ j # i /\ (Live(t, j) \/ j \in O) => SameItem(s, t, j)
    /\ Referenced(t, j) => t.item[j].key = s.item[j].key /\ t.item[j].nbytes = s.item[j].nbytes

\* The three calls of the timer on that item: the flag, item_unlink, item_remove.
LEMMA TimerDropSound ==
  ASSUME NEW r, NEW O, NEW now, Sound(r, O, now), NEW i \in Chunks, Referenced(r, i),
         NEW s, s = [r EXCEPT !.item[i].it_flags = @ \ {"DELETED"}]
  PROVE  LET t == item_remove(item_unlink(s, i), i)
         IN  Sound(t, O, now) /\ TimerDrops(r, t, i, O)
<1>1. Sound(s, O, now) /\ Relocking(r, s, i, r.item[i].exptime, FALSE)
  BY UnlockSound
<1>2. i \notin O /\ PageOf[i] \in s.pages /\ Referenced(s, i)
  <2>1. i \notin O /\ PageOf[i] \in r.pages
    BY DEF Sound, Placed, Live
  <2>2. s.pages = r.pages /\ SameRefs(r, s)
    BY <1>1 DEF Relocking
  <2>3. QED
    BY <2>1, <2>2 DEF SameRefs, Referenced
<1> DEFINE u == item_unlink(s, i)
           t == item_remove(u, i)
<1>3. /\ Sound(u, O, now) /\ Fades(s, u, O)
      /\ \A j \in Chunks : Linked(u, j) <=> Linked(s, j) /\ j # i
  BY <1>1, <1>2, ItemUnlinkSound
<1> HIDE DEF u
<1>4. SameRefs(s, u) /\ Referenced(u, i)
  BY <1>2, <1>3 DEF Fades, SameRefs, Referenced
<1>5. Sound(t, O, now) /\ Dropped(u, t, i, O)
  BY <1>3, <1>4, ItemRemoveSound
<1> HIDE DEF t
<1>6. ASSUME NEW j \in Chunks
      PROVE  /\ Linked(t, j) <=> Linked(r, j) /\ j # i
             /\ t.item[j].refcount = IF j = i THEN r.item[i].refcount - 1
                                     ELSE r.item[j].refcount
  BY <1>1, <1>3, <1>4, <1>5 DEF Dropped, Relocking, SameRefs
<1>7. ASSUME NEW j \in Chunks, Live(t, j) \/ j \in O
      PROVE  SameItem(s, u, j) /\ SameItem(u, t, j)
  <2>1. SameItem(u, t, j)
    BY <1>5, <1>7 DEF Dropped
  <2>2. Referenced(t, j) => Referenced(s, j)
    <3>1. CASE j = i
      BY <1>2, <3>1
    <3>2. CASE j # i
      BY <1>4, <1>5, <3>2 DEF Dropped, SameRefs, Referenced
    <3>3. QED
      BY <3>1, <3>2
  <2>3. Linked(t, j) => Linked(u, j)
    BY <1>5 DEF Dropped
  <2>4. QED
    BY <1>3, <1>7, <2>1, <2>2, <2>3 DEF Fades, Live
<1>8. ASSUME NEW j \in Chunks, j # i, Live(t, j) \/ j \in O
      PROVE  SameItem(r, t, j)
  <2>1. SameItem(r, s, j) /\ SameItem(s, u, j) /\ SameItem(u, t, j)
    BY <1>1, <1>7, <1>8 DEF Relocking
  <2>2. QED
    BY <2>1 DEF SameItem
<1>9. ASSUME NEW j \in Chunks, Referenced(t, j)
      PROVE  t.item[j].key = r.item[j].key /\ t.item[j].nbytes = r.item[j].nbytes
  <2>1. SameItem(s, u, j) /\ SameItem(u, t, j)
    BY <1>7, <1>9 DEF Live
  <2>2. s.item[j].key = r.item[j].key /\ s.item[j].nbytes = r.item[j].nbytes
    BY <1>1 DEF Relocking
  <2>3. QED
    BY <2>1, <2>2 DEF SameItem
<1>10. TimerDrops(r, t, i, O)
  BY <1>6, <1>8, <1>9 DEF TimerDrops
<1>11. QED
  BY <1>5, <1>10 DEF t, u

\* The timer drops an entry.
LEMMA TimerDropRefs ==
  ASSUME RInv, IInv', fn = "timer_delete_handler", ti < Len(todelete),
         NEW it, it = todelete[ti + 1], item_delete_lock_over(store, it),
         store' = item_remove(item_unlink(
                    [store EXCEPT !.item[it].it_flags = @ \ {"DELETED"}], it), it),
         ti' = ti + 1,
         UNCHANGED <<todelete, tj, current_time, oldest_live, state, citem, ilist, icurr,
                     fn, who>>
  PROVE  RInv' /\ LocksStay(store, store')
<1>1. /\ todelete \in Seq(Chunks) /\ Len(todelete) \in Nat /\ ti \in Nat /\ tj \in Nat
      /\ tj <= ti /\ ti <= Len(todelete)
  BY DEF RInv, IInv, TypeOK, TimerBounds
<1> PICK n \in Nat : n = ti + 1
  BY <1>1
<1>2. n \in 1 .. Len(todelete) /\ it = todelete[n] /\ it \in Chunks
  BY <1>1
<1>3. QueueLive = QueueLive' \cup {n} /\ n \notin QueueLive'
  BY <1>1, <1>2 DEF QueueLive
<1>4. n \in QueueHolds(it)
  BY <1>2, <1>3 DEF QueueHolds
<1>5. Referenced(store, it)
  BY <1>2, <1>4, HeldIsReferenced DEF RInv, IInv
<1>6. Sound(store', Owned, current_time) /\ TimerDrops(store, store', it, Owned)
  <2>1. Sound(store, Owned, current_time)
    BY DEF RInv, StoreSound
  <2>2. QED
    BY <1>2, <1>5, <2>1, TimerDropSound
<1>7. ASSUME NEW j \in Chunks
      PROVE  /\ QueueHolds(j)' = IF j = it THEN QueueHolds(j) \ {n} ELSE QueueHolds(j)
             /\ ResponseHolds(j)' = ResponseHolds(j)
  <2>1. QueueHolds(j)' = IF j = it THEN QueueHolds(j) \ {n} ELSE QueueHolds(j)
    BY <1>2, <1>3 DEF QueueHolds
  <2>2. ResponseHolds(j)' = ResponseHolds(j)
    BY DEF ResponseHolds
  <2>3. QED
    BY <2>1, <2>2
<1>8. RefcountIsHolds'
  <2> SUFFICES ASSUME NEW j \in Chunks
               PROVE  store'.item[j].refcount
                        = Cardinality(ResponseHolds(j)') + Cardinality(QueueHolds(j)')
    BY DEF RefcountIsHolds
  <2>1. store.item[j].refcount = Cardinality(ResponseHolds(j)) + Cardinality(QueueHolds(j))
    BY DEF RInv, RefcountIsHolds
  <2>2. IsFiniteSet(QueueHolds(j)) /\ Cardinality(ResponseHolds(j)) \in Nat
        /\ Cardinality(QueueHolds(j)) \in Nat
    BY HoldsFinite DEF RInv, IInv
  <2>3. CASE j = it
    <3>1. PICK Q : Q = QueueHolds(j)
      OBVIOUS
    <3>2. Cardinality(Q \ {n}) = Cardinality(Q) - 1
      BY <1>4, <2>2, <2>3, <3>1, FS_RemoveElement
    <3>3. QueueHolds(j)' = Q \ {n} /\ ResponseHolds(j)' = ResponseHolds(j)
      BY <1>7, <2>3, <3>1
    <3>4. PICK a \in Nat : a = Cardinality(ResponseHolds(j))
      BY <2>2
    <3>5. PICK b \in Nat : b = Cardinality(Q)
      BY <2>2, <3>1
    <3>6. store.item[j].refcount = a + b
      BY <2>1, <3>1, <3>4, <3>5
    <3>7. store'.item[j].refcount = store.item[j].refcount - 1
      BY <1>6, <2>3 DEF TimerDrops
    <3>8. /\ Cardinality(ResponseHolds(j)') = a
          /\ Cardinality(QueueHolds(j)') = b - 1
      BY <3>2, <3>3, <3>4, <3>5
    <3>9. QED
      BY <3>6, <3>7, <3>8
  <2>4. CASE j # it
    <3>1. store'.item[j].refcount = store.item[j].refcount
      BY <1>6, <2>4 DEF TimerDrops
    <3>2. QED
      BY <1>7, <2>1, <2>4, <3>1
  <2>5. QED
    BY <2>3, <2>4
<1>9. Owned' = Owned /\ StoreSound' /\ OwnedApart' /\ CallerOwnsNone' /\ TimerIdle'
  BY <1>6 DEF Owned, StoreSound, RInv, OwnedApart, CallerOwnsNone, TimerIdle
<1>10. OwnersRead'
  <2> SUFFICES ASSUME NEW d \in Conns, citem[d] # NULL
               PROVE  state[d] = "conn_nread" /\ store'.item[citem[d]].it_flags = {}
    BY DEF OwnersRead
  <2>1. citem[d] \in Chunks /\ citem[d] \in Owned
    BY RInvTypes
  <2>2. citem[d] # it
    BY <1>2, <1>5, <2>1 DEF RInv, StoreSound, Sound, Placed, Live
  <2>3. SameItem(store, store', citem[d])
    BY <1>6, <2>1, <2>2 DEF TimerDrops
  <2>4. store.item[citem[d]].it_flags = {} /\ state[d] = "conn_nread"
    BY DEF RInv, OwnersRead
  <2>5. store'.item[citem[d]].it_flags = {}
    <3>1. PICK i \in Chunks : i = citem[d]
      BY <2>1
    <3>2. Sound(store', Owned, current_time) /\ i \in Owned /\ SameItem(store, store', i)
          /\ store.item[i].it_flags = {}
      BY <1>6, <2>1, <2>3, <2>4, <3>1
    <3>3. ~ Linked(store', i)
      BY <1>6, <3>2 DEF Sound, Placed, Live
    <3>4. store'.item[i].it_flags = {}
      BY <3>2, <3>3 DEF SameItem, Linked
    <3>5. QED
      BY <3>1, <3>4
  <2>6. QED
    BY <2>4, <2>5
<1>11. InBounds'
  BY DEF RInv, InBounds
<1>12. ResponseIntact'
  <2>1. \A j \in Chunks : Referenced(store', j) =>
          store'.item[j].key = store.item[j].key /\ store'.item[j].nbytes = store.item[j].nbytes
    BY <1>6 DEF TimerDrops
  <2>2. QED
    BY <1>8, <1>9, <1>11, <2>1, IntactSame
<1>13. DeletedIsQueued'
  <2> SUFFICES ASSUME NEW j \in Chunks, Linked(store', j),
                      "DELETED" \in store'.item[j].it_flags
               PROVE  QueueHolds(j)' # {}
    BY DEF DeletedIsQueued
  <2>1. j # it /\ Linked(store, j) /\ SameItem(store, store', j)
    BY <1>6 DEF TimerDrops, Live
  <2>2. "DELETED" \in store.item[j].it_flags
    BY <2>1 DEF SameItem
  <2>3. QED
    BY <1>7, <2>1, <2>2 DEF RInv, DeletedIsQueued
<1>14. QueueSound'
  <2> SUFFICES ASSUME LocksTimed
               PROVE  QueuedIsDeleted' /\ QueuedOnce'
    BY DEF QueueSound, LocksTimed
  <2>1. QueuedIsDeleted /\ QueuedOnce
    BY DEF RInv, QueueSound
  <2>2. ASSUME NEW m \in QueueLive'
        PROVE  /\ "DELETED" \in store'.item[todelete[m]].it_flags
               /\ store'.item[todelete[m]].exptime # 0
    <3>1. m \in QueueLive /\ m # n /\ n \in QueueLive
      BY <1>3
    <3>2. todelete[m] # it
      BY <1>2, <2>1, <3>1 DEF QueuedOnce
    <3>3. todelete[m] \in Chunks
      BY <1>1, <3>1 DEF QueueLive
    <3>4. Referenced(store', todelete[m])
      <4>1. PICK j \in Chunks : j = todelete[m]
        BY <3>3
      <4>2. m \in QueueHolds(j)'
        BY <4>1 DEF QueueHolds
      <4>3. Referenced(store', j)
        BY <1>8, <4>2, HeldIsReferencedNext DEF IInv
      <4>4. QED
        BY <4>1, <4>3
    <3>5. SameItem(store, store', todelete[m])
      BY <1>6, <3>2, <3>3, <3>4 DEF TimerDrops, Live
    <3>6. QED
      BY <2>1, <3>1, <3>5 DEF QueuedIsDeleted, QueuedOnce, SameItem
  <2>3. \A a, b \in QueueLive' : todelete'[a] = todelete'[b] => a = b
    BY <1>3, <2>1 DEF QueuedOnce
  <2>4. QED
    BY <2>2, <2>3 DEF QueuedIsDeleted, QueuedOnce
<1>15. LocksStay(store, store')
  <2> SUFFICES ASSUME NEW j \in Chunks, Linked(store, j), DeleteLocked(store, j)
               PROVE  LockStays(store, store', j)
    BY DEF LocksStay
  <2>1. j # it
    BY DEF DeleteLocked
  <2>2. Linked(store', j) /\ SameItem(store, store', j)
    BY <1>6, <2>1 DEF TimerDrops, Live
  <2>3. QED
    BY <2>2 DEF LockStays, SameItem, DeleteLocked
<1>16. LinkedIsNotSlabbed'
  <2> SUFFICES ASSUME NEW j \in Chunks, Linked(store', j)
               PROVE  "SLABBED" \notin store'.item[j].it_flags
    BY DEF LinkedIsNotSlabbed
  <2>1. j # it /\ Linked(store, j) /\ SameItem(store, store', j)
    BY <1>6 DEF TimerDrops, Live
  <2>2. QED
    BY <2>1 DEF SameItem, RInv, LinkedIsNotSlabbed
<1>17. QED
  BY <1>8, <1>9, <1>10, <1>11, <1>12, <1>13, <1>14, <1>15, <1>16 DEF RInv

\* The timer keeps an entry, and moves it down to position tj + 1.
LEMMA TimerKeepRefs ==
  ASSUME RInv, IInv', fn = "timer_delete_handler", ti < Len(todelete),
         NEW it, it = todelete[ti + 1], todelete' = [todelete EXCEPT ![tj + 1] = it],
         ti' = ti + 1, tj' = tj + 1,
         UNCHANGED <<store, current_time, oldest_live, state, citem, ilist, icurr, fn, who>>
  PROVE  RInv'
<1>1. /\ todelete \in Seq(Chunks) /\ Len(todelete) \in Nat /\ ti \in Nat /\ tj \in Nat
      /\ tj <= ti /\ ti <= Len(todelete)
  BY DEF RInv, IInv, TypeOK, TimerBounds
<1> PICK n \in Nat : n = ti + 1
  BY <1>1
<1> PICK p \in Nat : p = tj + 1
  BY <1>1
<1>2. n \in 1 .. Len(todelete) /\ p \in 1 .. Len(todelete) /\ it = todelete[n]
      /\ p <= n /\ it \in Chunks
  BY <1>1
<1>3. /\ Len(todelete') = Len(todelete) /\ todelete'[p] = it
      /\ \A m \in 1 .. Len(todelete) : m # p => todelete'[m] = todelete[m]
  BY <1>1, <1>2
<1>4. /\ QueueLive' = (QueueLive \ {n}) \cup {p} /\ n \in QueueLive
      /\ p \notin QueueLive \ {n} /\ QueueLive \subseteq 1 .. Len(todelete)
  BY <1>1, <1>2, <1>3 DEF QueueLive
<1>5. \A m \in QueueLive \ {n} : todelete'[m] = todelete[m] /\ m # p
  BY <1>3, <1>4
<1>6. ASSUME NEW j \in Chunks
      PROVE  /\ QueueHolds(j)' = IF j = it THEN (QueueHolds(j) \ {n}) \cup {p}
                                 ELSE QueueHolds(j)
             /\ ResponseHolds(j)' = ResponseHolds(j)
  <2>1. QueueHolds(j)' = IF j = it THEN (QueueHolds(j) \ {n}) \cup {p} ELSE QueueHolds(j)
    BY <1>2, <1>3, <1>4, <1>5 DEF QueueHolds
  <2>2. ResponseHolds(j)' = ResponseHolds(j)
    BY DEF ResponseHolds
  <2>3. QED
    BY <2>1, <2>2
<1>7. RefcountIsHolds'
  <2> SUFFICES ASSUME NEW j \in Chunks
               PROVE  store.item[j].refcount
                        = Cardinality(ResponseHolds(j)') + Cardinality(QueueHolds(j)')
    BY DEF RefcountIsHolds
  <2>1. store.item[j].refcount = Cardinality(ResponseHolds(j)) + Cardinality(QueueHolds(j))
    BY DEF RInv, RefcountIsHolds
  <2>2. Cardinality(QueueHolds(j)') = Cardinality(QueueHolds(j))
    <3>1. PICK Q : Q = QueueHolds(j)
      OBVIOUS
    <3>2. CASE j = it
      <4>1. IsFiniteSet(Q) /\ Cardinality(Q) \in Nat
        BY <3>1, HoldsFinite DEF RInv, IInv
      <4>2. n \in Q /\ p \notin Q \ {n}
        BY <1>2, <1>4, <3>1, <3>2 DEF QueueHolds
      <4>3. PICK R : R = Q \ {n}
        OBVIOUS
      <4>4. IsFiniteSet(R) /\ Cardinality(R) = Cardinality(Q) - 1
        BY <4>1, <4>2, <4>3, FS_RemoveElement
      <4>5. Cardinality(R \cup {p}) = Cardinality(R) + 1
        BY <4>2, <4>3, <4>4, FS_AddElement
      <4>6. QueueHolds(j)' = R \cup {p}
        BY <1>6, <3>1, <3>2, <4>3
      <4>7. QED
        BY <3>1, <4>1, <4>4, <4>5, <4>6
    <3>3. CASE j # it
      BY <1>6, <3>3
    <3>4. QED
      BY <3>2, <3>3
  <2>3. QED
    BY <1>6, <2>1, <2>2
<1>8. /\ Owned' = Owned /\ StoreSound' /\ OwnedApart' /\ CallerOwnsNone' /\ TimerIdle'
      /\ OwnersRead'
  BY DEF Owned, StoreSound, RInv, OwnedApart, CallerOwnsNone, TimerIdle, OwnersRead
<1>9. InBounds'
  BY <1>3 DEF RInv, InBounds
<1>10. ResponseIntact'
  BY <1>7, <1>8, <1>9, IntactSame
<1>11. DeletedIsQueued'
  <2> SUFFICES ASSUME NEW j \in Chunks, Linked(store, j),
                      "DELETED" \in store.item[j].it_flags
               PROVE  QueueHolds(j)' # {}
    BY DEF DeletedIsQueued
  <2>1. QueueHolds(j) # {}
    BY DEF RInv, DeletedIsQueued
  <2>2. QED
    BY <1>6, <2>1
<1>12. QueueSound'
  <2> SUFFICES ASSUME LocksTimed
               PROVE  QueuedIsDeleted' /\ QueuedOnce'
    BY DEF QueueSound, LocksTimed
  <2>1. QueuedIsDeleted /\ QueuedOnce
    BY DEF RInv, QueueSound
  <2>2. ASSUME NEW a \in QueueLive'
        PROVE  \E m \in QueueLive : todelete'[a] = todelete[m] /\ m = IF a = p THEN n ELSE a
    <3>1. CASE a = p
      BY <1>2, <1>3, <1>4, <3>1
    <3>2. CASE a # p
      BY <1>4, <1>5, <2>2, <3>2
    <3>3. QED
      BY <3>1, <3>2
  <2>3. ASSUME NEW a \in QueueLive', NEW b \in QueueLive', todelete'[a] = todelete'[b]
        PROVE  a = b
    <3>1. a \in QueueLive \ {n} \/ a = p
      BY <1>4
    <3>2. b \in QueueLive \ {n} \/ b = p
      BY <1>4
    <3>3. (IF a = p THEN n ELSE a) = (IF b = p THEN n ELSE b)
      BY <2>1, <2>2, <2>3 DEF QueuedOnce
    <3>4. QED
      BY <3>1, <3>2, <3>3
  <2>4. QED
    BY <2>1, <2>2, <2>3 DEF QueuedIsDeleted, QueuedOnce
<1>13. LinkedIsNotSlabbed'
  BY DEF RInv, LinkedIsNotSlabbed
<1>14. QED
  BY <1>7, <1>8, <1>9, <1>10, <1>11, <1>12, <1>13 DEF RInv

\* One entry of the timer.
LEMMA TimerStepRefs ==
  ASSUME RInv, IInv', timer_delete_step
  PROVE  RInv' /\ LocksStay(store, store')
<1> USE DEF timeVars, connVars
<1> PICK it : it = todelete[ti + 1]
  OBVIOUS
<1>1. /\ fn = "timer_delete_handler" /\ ti < Len(todelete) /\ ti' = ti + 1
      /\ UNCHANGED <<current_time, oldest_live, state, citem, ilist, icurr, fn, who>>
  BY DEF timer_delete_step
<1>2. CASE /\ item_delete_lock_over(store, it) /\ UNCHANGED <<todelete, tj>>
           /\ store' = item_remove(item_unlink(
                         [store EXCEPT !.item[it].it_flags = @ \ {"DELETED"}], it), it)
  BY <1>1, <1>2, TimerDropRefs
<1>3. CASE /\ todelete' = [todelete EXCEPT ![tj + 1] = it] /\ tj' = tj + 1
           /\ UNCHANGED store
  <2>1. RInv'
    BY <1>1, <1>3, TimerKeepRefs
  <2>2. LocksStay(store, store')
    BY <1>3 DEF LocksStay, LockStays, DeleteLocked
  <2>3. QED
    BY <2>1, <2>2
<1>4. QED
  BY <1>2, <1>3 DEF timer_delete_step

\* The timer ends, and cuts the queue to the entries kept.
LEMMA TimerEndRefs ==
  ASSUME RInv, IInv', timer_delete_end
  PROVE  RInv' /\ UNCHANGED store
<1> USE DEF timeVars, connVars
<1>1. /\ fn = "timer_delete_handler" /\ ti = Len(todelete) /\ fn' = "ae_loop"
      /\ todelete' = SubSeq(todelete, 1, tj) /\ ti' = 0 /\ tj' = 0
      /\ UNCHANGED <<store, current_time, oldest_live, state, citem, ilist, icurr>>
  BY DEF timer_delete_end, Return
<1>2. /\ todelete \in Seq(Chunks) /\ Len(todelete) \in Nat /\ tj \in Nat
      /\ tj <= Len(todelete)
  BY <1>1 DEF RInv, IInv, TypeOK, TimerBounds
<1>3. Len(todelete') = tj /\ \A m \in 1 .. tj : todelete'[m] = todelete[m]
  BY <1>1, <1>2
<1>4. QueueLive' = QueueLive /\ QueueLive = 1 .. tj
  BY <1>1, <1>2, <1>3 DEF QueueLive
<1>5. ASSUME NEW j
      PROVE  QueueHolds(j)' = QueueHolds(j) /\ ResponseHolds(j)' = ResponseHolds(j)
  BY <1>1, <1>3, <1>4 DEF QueueHolds, ResponseHolds
<1>6. RefcountIsHolds' /\ DeletedIsQueued'
  BY <1>1, <1>5 DEF RInv, RefcountIsHolds, DeletedIsQueued
<1>7. /\ Owned' = Owned /\ StoreSound' /\ OwnedApart' /\ CallerOwnsNone' /\ TimerIdle'
      /\ OwnersRead'
  BY <1>1 DEF Owned, StoreSound, RInv, OwnedApart, CallerOwnsNone, TimerIdle, OwnersRead
<1>8. InBounds'
  <2>1. Len(todelete) <= MaxDel /\ MaxDel \in Nat
    BY ItemStoreAssumption DEF RInv, InBounds
  <2>2. tj <= MaxDel
    BY <1>2, <2>1
  <2>3. QED
    BY <1>1, <1>3, <2>2 DEF RInv, InBounds
<1>9. ResponseIntact'
  BY <1>1, <1>6, <1>7, <1>8, IntactSame
<1>10. QueueSound'
  <2> SUFFICES ASSUME LocksTimed
               PROVE  QueuedIsDeleted' /\ QueuedOnce'
    BY DEF QueueSound, LocksTimed
  <2>1. QueuedIsDeleted /\ QueuedOnce
    BY DEF RInv, QueueSound
  <2>2. \A m \in QueueLive : todelete'[m] = todelete[m]
    BY <1>3, <1>4
  <2>3. QueuedIsDeleted'
    BY <1>1, <1>4, <2>1, <2>2 DEF QueuedIsDeleted
  <2>4. QueuedOnce'
    <3>1. \A a, b \in QueueLive' : todelete'[a] = todelete'[b] => a = b
      BY <1>4, <2>1, <2>2 DEF QueuedOnce
    <3>2. \A a \in QueueLive' : store'.item[todelete'[a]].exptime # 0
      BY <1>1, <1>4, <2>1, <2>2 DEF QueuedOnce
    <3>3. QED
      BY <3>1, <3>2 DEF QueuedOnce
  <2>5. QED
    BY <2>3, <2>4
<1>11. LinkedIsNotSlabbed'
  BY <1>1 DEF RInv, LinkedIsNotSlabbed
<1>12. QED
  BY <1>1, <1>6, <1>7, <1>8, <1>9, <1>10, <1>11 DEF RInv

-----------------------------------------------------------------------------
(* The invariant of the references *)

\* Nothing is evicted while somebody else still works on the item: item_alloc
\* gets no chunk by an eviction, or there is no incr and no decr, which take the
\* room for the new item while they hold the old one without a reference.
NoAlias == NoRetry \/ Deltas = {}

\* What the proofs ask of a behaviour.  An incr or decr does not get the chunk
\* of its own item back from an eviction, which leaves a linked item flagged
\* ITEM_SLABBED; and no refcount, an unsigned short, is about to wrap.
Regular ==
  /\ NoAlias \/ LinkedIsNotSlabbed
  /\ \A i \in Chunks : store.item[i].refcount < RefMod - 1

\* An item under a delete lock stays under it, or a completed "set" of its key
\* has just taken its place.
LocksEndWell ==
  \A j \in Chunks : Linked(store, j) /\ DeleteLocked(store, j) =>
    \/ LockStays(store, store', j)
    \/ \E c \in Conns : /\ state'[c] = "conn_read" /\ citem[c] \in Chunks
                        /\ SetEnds(store, store', item_comm[c], citem[c], j)

\* The invariant holds initially.
LEMMA InitRInv == Init => RInv
<1> SUFFICES ASSUME Init
             PROVE  RInv
  OBVIOUS
<1>1. IInv
  BY InitIInv
<1>2. /\ store = InitStore /\ current_time = 0 /\ todelete = <<>> /\ Owned = {}
      /\ \A c \in Conns : citem[c] = NULL /\ ilist[c] = <<>> /\ icurr[c] = 0
      /\ fn = "ae_loop" /\ ti = 0 /\ tj = 0
  BY DEF Init, Owned
<1>3. ASSUME NEW i \in Chunks
      PROVE  /\ ~ Linked(store, i) /\ ~ Referenced(store, i) /\ ~ Live(store, i)
             /\ store.item[i].refcount = 0
             /\ i \in store.free <=> PageOf[i] \in store.pages
  <2>1. store.item[i] = BlankItem
    BY <1>2 DEF InitStore
  <2>2. store.free = ChunksOf(Prealloc) /\ store.pages = Prealloc
    BY <1>2 DEF InitStore
  <2>3. ~ Linked(store, i) /\ ~ Referenced(store, i) /\ store.item[i].refcount = 0
    BY <2>1 DEF BlankItem, Linked, Referenced
  <2>4. QED
    BY <2>2, <2>3 DEF ChunksOf, Live
<1>4. StoreSound
  <2>1. Table(store)
    BY <1>2, <1>3 DEF Table, InitStore
  <2>2. Order(store, 0)
    <3>1. ASSUME NEW id \in Ids
          PROVE  store.lru[id] = <<>>
      BY <1>2 DEF InitStore, Ids
    <3>2. NoDup(<<>>) /\ Descending(<<>>, Times(store)) /\ \A i : ~ In(i, <<>>)
      BY DEF NoDup, Descending, In
    <3>3. QED
      BY <1>3, <3>1, <3>2 DEF Order
  <2>3. Placed(store, {})
    BY <1>3 DEF Placed
  <2>4. QED
    BY <1>1, <1>2, <2>1, <2>2, <2>3 DEF StoreSound, Sound, IInv, TypeOK
<1>5. ASSUME NEW i
      PROVE  ResponseHolds(i) = {} /\ QueueHolds(i) = {} /\ QueueLive = {}
  <2>1. QueueLive = {}
    BY <1>2 DEF QueueLive
  <2>2. QED
    BY <1>2, <2>1 DEF ResponseHolds, QueueHolds
<1>6. RefcountIsHolds
  <2>1. Cardinality({}) = 0
    BY FS_EmptySet
  <2>2. QED
    BY <1>3, <1>5, <2>1 DEF RefcountIsHolds
<1>7. ResponseIntact /\ DeletedIsQueued /\ QueueSound
  <2>1. \A c \in Conns : icurr[c] + 1 .. Len(ilist[c]) = {}
    BY <1>2
  <2>2. QED
    BY <1>3, <1>5, <2>1 DEF ResponseIntact, DeletedIsQueued, QueueSound, QueuedIsDeleted,
                            QueuedOnce
<1>8. OwnedApart /\ OwnersRead /\ CallerOwnsNone /\ TimerIdle
  BY <1>2 DEF OwnedApart, OwnersRead, CallerOwnsNone, TimerIdle
<1>9. InBounds
  BY <1>2, ItemStoreAssumption, TimeAssumption DEF InBounds, RelTime
<1>10. LinkedIsNotSlabbed
  BY <1>3 DEF LinkedIsNotSlabbed
<1>11. QED
  BY <1>1, <1>4, <1>6, <1>7, <1>8, <1>9, <1>10 DEF RInv

\* A step that leaves the locks ends none.
LEMMA LocksUnended ==
  ASSUME LocksStay(store, store')
  PROVE  LocksEndWell
BY DEF LocksStay, LocksEndWell

\* A step that leaves the store leaves the locks.
LEMMA UnchangedLocks ==
  ASSUME UNCHANGED store
  PROVE  LocksStay(store, store')
BY DEF LocksStay, LockStays, DeleteLocked

\* The commands.
LEMMA CommandRefs ==
  ASSUME RInv, IInv', Regular, NoAlias \/ LinkedIsNotSlabbed', NEW c \in Conns, Command(c)
  PROVE  RInv' /\ LocksEndWell
<1> USE DEF connVars
<1>1. TypeOK
  BY DEF RInv, IInv
<1>2. ASSUME NEW comm \in Comms, NEW k \in Keys, NEW len \in Lens, NEW t \in SetTimes,
             command_replace(c, comm, k, len, t)
      PROVE  RInv' /\ LocksEndWell
  <2>1. RInv' /\ LocksStay(store, store')
    BY <1>2, CommandReplaceRefs
  <2>2. QED
    BY <2>1, LocksUnended
<1>3. CASE command_get(c)
  <2>1. RInv' /\ UNCHANGED store
    BY <1>3, StillActions
  <2>2. QED
    BY <2>1, UnchangedLocks, LocksUnended
<1>4. ASSUME NEW k \in Keys, NEW incr \in BOOLEAN, NEW d \in Deltas,
             command_vary_delta(c, k, incr, d)
      PROVE  RInv' /\ LocksEndWell
  <2>1. RInv' /\ LocksStay(store, store')
    BY <1>4, CommandVaryDeltaRefs DEF NoAlias
  <2>2. QED
    BY <2>1, LocksUnended
<1>5. ASSUME NEW k \in Keys, NEW t \in DelTimes, delete_handler(c, k, t)
      PROVE  RInv' /\ LocksEndWell
  <2>1. RInv' /\ LocksStay(store, store')
    BY <1>5, DeleteHandlerRefs DEF Regular
  <2>2. QED
    BY <2>1, LocksUnended
<1>6. CASE flush_all_handler(c) \/ \E t \in FlushTimes : flush_all_at(c, t)
  <2>1. RInv' /\ UNCHANGED store
    BY <1>6, StillActions
  <2>2. QED
    BY <2>1, UnchangedLocks, LocksUnended
<1>7. QED
  BY <1>2, <1>3, <1>4, <1>5, <1>6 DEF Command

\* Every step of a regular server preserves the invariant.
LEMMA NextRefs ==
  ASSUME RInv, Regular, NoAlias \/ LinkedIsNotSlabbed', Next
  PROVE  RInv' /\ LocksEndWell
<1> USE DEF connVars
<1>1. IInv' /\ TypeOK
  BY NextIInv DEF RInv, IInv
<1>2. ASSUME NEW c \in Conns, conn_new(c)
      PROVE  RInv' /\ LocksEndWell
  <2>1. RInv' /\ UNCHANGED store
    BY <1>1, <1>2, StillActions
  <2>2. QED
    BY <2>1, UnchangedLocks, LocksUnended
<1>3. ASSUME NEW c \in Conns, conn_close(c)
      PROVE  RInv' /\ LocksEndWell
  <2>1. RInv' /\ LocksStay(store, store')
    BY <1>1, <1>3, ConnCloseRefs
  <2>2. QED
    BY <2>1, LocksUnended
<1>4. ASSUME NEW c \in Conns, Command(c)
      PROVE  RInv' /\ LocksEndWell
  BY <1>1, <1>4, CommandRefs
<1>5. ASSUME NEW c \in Conns, NEW v \in Vals, NEW good \in BOOLEAN, complete_nread(c, v, good)
      PROVE  RInv' /\ LocksEndWell
  <2>1. /\ RInv' /\ state'[c] = "conn_read"
        /\ \A j \in Chunks : Linked(store, j) /\ DeleteLocked(store, j) =>
             \/ LockStays(store, store', j)
             \/ SetEnds(store, store', item_comm[c], citem[c], j)
    BY <1>1, <1>5, CompleteNreadRefs
  <2>2. state' = [state EXCEPT ![c] = "conn_read"] /\ state \in [Conns -> ConnStates]
    BY <1>1, <1>5 DEF complete_nread, TypeOK
  <2>3. citem[c] \in Chunks
    BY <1>5, RInvTypes DEF complete_nread, RInv, IInv, ReaderHasItem
  <2>4. QED
    BY <2>1, <2>2, <2>3 DEF LocksEndWell
<1>6. ASSUME NEW c \in Conns, transmit_complete(c)
      PROVE  RInv' /\ LocksEndWell
  <2>1. RInv' /\ UNCHANGED store
    BY <1>1, <1>6, StillActions
  <2>2. QED
    BY <2>1, UnchangedLocks, LocksUnended
<1>7. ASSUME NEW k \in Keys, command_get_key(k)
      PROVE  RInv' /\ LocksEndWell
  <2>1. RInv' /\ LocksStay(store, store')
    BY <1>1, <1>7, CommandGetKeyRefs DEF Regular
  <2>2. QED
    BY <2>1, LocksUnended
<1>8. CASE command_get_end
  <2>1. RInv' /\ UNCHANGED store
    BY <1>1, <1>8, StillActions
  <2>2. QED
    BY <2>1, UnchangedLocks, LocksUnended
<1>9. CASE release_item
  <2>1. RInv' /\ LocksStay(store, store')
    BY <1>1, <1>9, ReleaseItemRefs
  <2>2. QED
    BY <2>1, LocksUnended
<1>10. CASE release_end
  <2>1. RInv' /\ UNCHANGED store
    BY <1>1, <1>10, ReleaseEndRefs
  <2>2. QED
    BY <2>1, UnchangedLocks, LocksUnended
<1>11. CASE timer_delete_handler \/ clock_handler
  <2>1. RInv' /\ UNCHANGED store
    BY <1>1, <1>11, StillActions
  <2>2. QED
    BY <2>1, UnchangedLocks, LocksUnended
<1>12. CASE timer_delete_step
  <2>1. RInv' /\ LocksStay(store, store')
    BY <1>1, <1>12, TimerStepRefs
  <2>2. QED
    BY <2>1, LocksUnended
<1>13. CASE timer_delete_end
  <2>1. RInv' /\ UNCHANGED store
    BY <1>1, <1>13, TimerEndRefs
  <2>2. QED
    BY <2>1, UnchangedLocks, LocksUnended
<1>14. QED
  BY <1>2, <1>3, <1>4, <1>5, <1>6, <1>7, <1>8, <1>9, <1>10, <1>11, <1>12, <1>13 DEF Next

\* So does a step that changes nothing.
LEMMA StutterRefs ==
  ASSUME RInv, UNCHANGED vars
  PROVE  RInv'
<1>1. UNCHANGED <<store, current_time, todelete, state, citem, ilist, icurr, fn, who, ti, tj>>
  BY DEF vars, timeVars, connVars, timerVars
<1>2. IInv'
  BY NextIInv DEF RInv
<1>3. StoreSound' /\ OwnedApart' /\ OwnersRead' /\ CallerOwnsNone' /\ TimerIdle'
  BY <1>1 DEF RInv, StoreSound, Owned, OwnedApart, OwnersRead, CallerOwnsNone, TimerIdle
<1>4. ASSUME NEW i
      PROVE  ResponseHolds(i)' = ResponseHolds(i) /\ QueueHolds(i)' = QueueHolds(i)
  BY <1>1 DEF ResponseHolds, QueueHolds, QueueLive
<1>5. RefcountIsHolds' /\ DeletedIsQueued'
  BY <1>1, <1>4 DEF RInv, RefcountIsHolds, DeletedIsQueued
<1>6. InBounds' /\ ResponseIntact'
  BY <1>1 DEF RInv, InBounds, ResponseIntact
<1>7. QueueSound'
  BY <1>1, QueueKept
<1>8. LinkedIsNotSlabbed'
  BY <1>1 DEF RInv, LinkedIsNotSlabbed
<1>9. QED
  BY <1>2, <1>3, <1>5, <1>6, <1>7, <1>8 DEF RInv

-----------------------------------------------------------------------------
(* The properties *)

\* In a regular behaviour the invariant of the references holds throughout.
LEMMA RegularRefs == Spec /\ []Regular => []RInv
<1>1. RInv /\ Regular /\ Regular' /\ [Next]_vars => RInv'
  BY NextRefs, StutterRefs DEF Regular, NoAlias, NoRetry
<1>2. QED
  BY <1>1, InitRInv, PTL DEF Spec

\* RInv implies the invariants about references and chunks.
LEMMA RInvReferences == RInv => NoDanglingReference /\ NoLeak
<1> SUFFICES ASSUME RInv
             PROVE  NoDanglingReference /\ NoLeak
  OBVIOUS
<1>1. /\ store \in Store /\ Order(store, current_time) /\ Placed(store, Owned)
      /\ TypeOK /\ RefcountIsHolds
  BY DEF RInv, IInv, StoreSound, Sound
<1>2. ASSUME NEW i \in store.free
      PROVE  /\ ResponseHolds(i) = {} /\ QueueHolds(i) = {} /\ ~ Linked(store, i)
             /\ \A id \in DOMAIN store.lru :
                  i \notin {store.lru[id][n] : n \in DOMAIN store.lru[id]}
             /\ \A c \in Conns : citem[c] # i
  <2>1. i \in Chunks
    BY <1>1 DEF Store
  <2>2. ~ Linked(store, i) /\ ~ Referenced(store, i) /\ i \notin Owned
    BY <1>1, <2>1 DEF Placed, Live
  <2>3. ResponseHolds(i) = {} /\ QueueHolds(i) = {}
    BY <1>1, <2>1, <2>2, HeldIsReferenced
  <2>4. ASSUME NEW id \in DOMAIN store.lru, NEW n \in DOMAIN store.lru[id]
        PROVE  store.lru[id][n] # i
    <3>1. id \in Ids /\ store.lru[id] \in Seq(Chunks)
      BY <1>1 DEF Store, Ids
    <3>2. n \in 1 .. Len(store.lru[id])
      BY <3>1
    <3>3. ~ In(i, store.lru[id])
      BY <1>1, <2>1, <2>2, <3>1 DEF Order
    <3>4. QED
      BY <3>2, <3>3 DEF In
  <2>5. ASSUME NEW c \in Conns
        PROVE  citem[c] # i
    BY <2>1, <2>2, RInvTypes
  <2>6. QED
    BY <2>2, <2>3, <2>4, <2>5
<1>3. ASSUME NEW c \in Conns, citem[c] # NULL
      PROVE  /\ ~ Linked(store, citem[c]) /\ store.item[citem[c]].refcount = 0
             /\ \A d \in Conns \ {c} : citem[d] # citem[c]
  <2>1. citem[c] \in Owned /\ citem[c] \in Chunks
    BY <1>3, RInvTypes
  <2>2. ~ Linked(store, citem[c]) /\ ~ Referenced(store, citem[c])
    BY <1>1, <2>1 DEF Placed, Live
  <2>3. store.item[citem[c]].refcount \in Nat
    BY <1>1, <2>1, ItemTypes
  <2>4. QED
    BY <1>3, <2>2, <2>3 DEF Referenced, RInv, OwnedApart
<1>4. NoLeak
  <2> SUFFICES ASSUME NEW i \in Chunks, PageOf[i] \in store.pages, i \notin store.free
               PROVE  \/ Linked(store, i) \/ store.item[i].refcount > 0
                      \/ \E c \in Conns : citem[c] = i
    BY DEF NoLeak, ChunksOf
  <2>1. Live(store, i) \/ i \in Owned
    BY <1>1 DEF Placed
  <2>2. QED
    BY <2>1 DEF Live, Referenced, Owned
<1>5. QED
  BY <1>2, <1>3, <1>4 DEF NoDanglingReference

\* RInv implies the invariants about the lists.
LEMMA RInvLists == RInv => ListsAgree /\ (SetBack \/ LruSortedByTime)
<1> SUFFICES ASSUME RInv
             PROVE  ListsAgree /\ (SetBack \/ LruSortedByTime)
  OBVIOUS
<1>1. store \in Store /\ Order(store, current_time) /\ Table(store)
  BY DEF RInv, StoreSound, Sound
<1>2. ASSUME NEW k \in Keys
      PROVE  /\ Len(store.hashtable[k]) <= 1
             /\ \A n \in DOMAIN store.hashtable[k] :
                  /\ Linked(store, store.hashtable[k][n])
                  /\ store.item[store.hashtable[k][n]].key = k
  <2>1. CASE store.hashtable[k] = <<>>
    BY <2>1
  <2>2. CASE \E i \in Chunks : /\ store.hashtable[k] = <<i>>
                               /\ Linked(store, i) /\ store.item[i].key = k
    BY <2>2
  <2>3. QED
    BY <1>1, <2>1, <2>2 DEF Table
<1>3. ASSUME NEW id \in DOMAIN store.lru
      PROVE  /\ id \in Ids /\ store.lru[id] \in Seq(Chunks)
             /\ DOMAIN store.lru[id] = 1 .. Len(store.lru[id])
             /\ NoDup(store.lru[id]) /\ Descending(store.lru[id], Times(store))
             /\ \A i \in Chunks :
                  In(i, store.lru[id]) <=> Linked(store, i) /\ store.item[i].slabs_clsid = id
  <2>1. id \in Ids /\ store.lru[id] \in Seq(Chunks)
    BY <1>1 DEF Store, Ids
  <2>2. QED
    BY <1>1, <2>1 DEF Order
<1>4. ASSUME NEW id \in DOMAIN store.lru, NEW n \in DOMAIN store.lru[id]
      PROVE  /\ store.lru[id][n] \in Chunks /\ Linked(store, store.lru[id][n])
             /\ store.item[store.lru[id][n]].slabs_clsid = id
  <2>1. store.lru[id][n] \in Chunks /\ n \in 1 .. Len(store.lru[id])
    BY <1>3
  <2>2. In(store.lru[id][n], store.lru[id])
    BY <2>1 DEF In
  <2>3. QED
    BY <1>3, <2>1, <2>2
<1>5. ASSUME NEW i \in Chunks, Linked(store, i)
      PROVE  /\ assoc_find(store, store.item[i].key) = i
             /\ \E n \in DOMAIN store.lru[store.item[i].slabs_clsid] :
                  store.lru[store.item[i].slabs_clsid][n] = i
  <2>1. assoc_find(store, store.item[i].key) = i
    BY <1>1, <1>5, FindLinked
  <2>2. PICK id \in Ids : id = store.item[i].slabs_clsid
    BY <1>1, ItemTypes
  <2>3. id \in DOMAIN store.lru
    BY <1>1 DEF Store, Ids
  <2>4. In(i, store.lru[id])
    BY <1>3, <1>5, <2>2, <2>3
  <2>5. QED
    BY <1>3, <2>1, <2>2, <2>3, <2>4 DEF In
<1>6. ListsAgree
  <2>1. \A id \in DOMAIN store.lru : \A m, n \in DOMAIN store.lru[id] :
          store.lru[id][m] = store.lru[id][n] => m = n
    BY <1>3 DEF NoDup
  <2>2. QED
    BY <1>2, <1>4, <1>5, <2>1 DEF ListsAgree
<1>7. ASSUME ~ SetBack
      PROVE  LruSortedByTime
  <2> SUFFICES ASSUME NEW id \in DOMAIN store.lru, NEW m \in DOMAIN store.lru[id],
                      NEW n \in DOMAIN store.lru[id], m < n
               PROVE  store.item[store.lru[id][m]].time >= store.item[store.lru[id][n]].time
    BY DEF LruSortedByTime
  <2>1. Times(store)[store.lru[id][m]] >= Times(store)[store.lru[id][n]]
    BY <1>3 DEF Descending
  <2>2. QED
    BY <1>4, <1>7, <2>1 DEF Times
<1>8. QED
  BY <1>6, <1>7

\* An entry of a response or of the queue for every reference that a refcount
\* can count, and one to spare: then no refcount wraps.
RefsFit == Cardinality(Conns) * MaxIList + MaxDel < RefMod - 1

\* A refcount is never more than the responses and the queue can hold.
LEMMA RefcountBound ==
  ASSUME RInv, NEW i \in Chunks
  PROVE  store.item[i].refcount <= Cardinality(Conns) * MaxIList + MaxDel
<1>1. /\ IsFiniteSet(Conns) /\ MaxIList \in Nat /\ MaxDel \in Nat
      /\ Cardinality(Conns) \in Nat
  BY ItemStoreAssumption, FS_CardinalityType
<1>2. /\ IsFiniteSet(1 .. MaxIList) /\ Cardinality(1 .. MaxIList) = MaxIList
      /\ IsFiniteSet(1 .. MaxDel) /\ Cardinality(1 .. MaxDel) = MaxDel
  <2>1. ASSUME NEW n \in Nat
        PROVE  IsFiniteSet(1 .. n) /\ Cardinality(1 .. n) = n
    <3>1. IsFiniteSet(1 .. n) /\ Cardinality(1 .. n) = IF 1 > n THEN 0 ELSE n - 1 + 1
      BY FS_Interval
    <3>2. QED
      BY <3>1
  <2>2. QED
    BY <1>1, <2>1
<1>3. /\ IsFiniteSet(Conns \X (1 .. MaxIList))
      /\ Cardinality(Conns \X (1 .. MaxIList)) = Cardinality(Conns) * MaxIList
  <2>1. PICK S : S = 1 .. MaxIList
    OBVIOUS
  <2>2. /\ IsFiniteSet(Conns \X S)
        /\ Cardinality(Conns \X S) = Cardinality(Conns) * Cardinality(S)
    BY <1>1, <1>2, <2>1, FS_Product
  <2>3. QED
    BY <1>2, <2>1, <2>2
<1>4. /\ Cardinality(ResponseHolds(i)) \in Nat
      /\ Cardinality(ResponseHolds(i)) <= Cardinality(Conns) * MaxIList
  <2>1. ResponseHolds(i) \subseteq Conns \X (1 .. MaxIList)
    BY DEF ResponseHolds
  <2>2. Cardinality(ResponseHolds(i)) <= Cardinality(Conns \X (1 .. MaxIList))
    BY <1>3, <2>1, FS_Subset
  <2>3. QED
    BY <1>3, <2>2, HoldsFinite DEF RInv, IInv
<1>5. Cardinality(QueueHolds(i)) \in Nat /\ Cardinality(QueueHolds(i)) <= MaxDel
  <2>1. /\ ti \in Nat /\ tj \in Nat /\ Len(todelete) \in Nat /\ tj <= ti
        /\ ti <= Len(todelete) /\ Len(todelete) <= MaxDel
    BY DEF RInv, IInv, TypeOK, TimerBounds, InBounds
  <2>2. (1 .. tj) \cup (ti + 1 .. Len(todelete)) \subseteq 1 .. MaxDel
    BY <1>1, <2>1
  <2>3. QueueHolds(i) \subseteq 1 .. MaxDel
    BY <2>2 DEF QueueHolds, QueueLive
  <2>4. Cardinality(QueueHolds(i)) <= Cardinality(1 .. MaxDel)
    BY <1>2, <2>3, FS_Subset
  <2>5. QED
    BY <1>2, <2>4, HoldsFinite DEF RInv, IInv
<1>6. store.item[i].refcount = Cardinality(ResponseHolds(i)) + Cardinality(QueueHolds(i))
  BY DEF RInv, RefcountIsHolds
<1>7. PICK p \in Nat : p = Cardinality(Conns) * MaxIList
  BY <1>1
<1>8. PICK a \in Nat : a = Cardinality(ResponseHolds(i))
  BY <1>4
<1>9. PICK b \in Nat : b = Cardinality(QueueHolds(i))
  BY <1>5
<1>10. a <= p /\ b <= MaxDel
  BY <1>4, <1>5, <1>7, <1>8, <1>9
<1>11. a + b <= p + MaxDel
  BY <1>1, <1>10
<1>12. QED
  BY <1>6, <1>7, <1>8, <1>9, <1>11

\* The servers that are regular whatever their clients do.
LEMMA BoundedRefs ==
  ASSUME NoAlias, RefsFit
  PROVE  Spec => [](RInv /\ Regular)
<1>1. RInv => Regular
  <2> SUFFICES ASSUME RInv, NEW i \in Chunks
               PROVE  store.item[i].refcount < RefMod - 1
    BY DEF Regular
  <2>1. /\ MaxIList \in Nat /\ MaxDel \in Nat /\ Cardinality(Conns) \in Nat /\ RefMod \in Nat
    BY ItemStoreAssumption, ItemsAssumption, FS_CardinalityType
  <2>2. store.item[i].refcount \in Nat
    BY RInvTypes, ItemTypes
  <2>3. PICK m \in Nat : m = Cardinality(Conns) * MaxIList + MaxDel
    BY <2>1
  <2>4. store.item[i].refcount <= m /\ m < RefMod - 1
    BY <2>3, RefcountBound DEF RefsFit
  <2>5. QED
    BY <2>1, <2>2, <2>4
<1>2. RInv /\ [Next]_vars => RInv'
  <2> SUFFICES ASSUME RInv, Next
               PROVE  RInv'
    BY StutterRefs
  <2>1. IInv' /\ Regular
    BY <1>1, NextIInv DEF RInv
  <2>2. QED
    BY <1>1, <2>1, NextRefs
<1>3. QED
  BY <1>1, <1>2, InitRInv, PTL DEF Spec

\* The delete locks and the evictions of one step.
LEMMA LockStep ==
  ASSUME RInv, RInv', LocksEndWell
  PROVE  \A k \in Keys : LockedKey(k) =>
           \/ LockedKey(k)'
           \/ current_time' >= store.item[assoc_find(store, k)].exptime
           \/ \E c \in Conns :
                /\ item_comm[c] = "set" /\ store.item[citem[c]].key = k
                /\ state'[c] = "conn_read"
                /\ assoc_find(store, k)' = citem[c]
<1> SUFFICES ASSUME NEW k \in Keys, LockedKey(k),
                    ~ current_time' >= store.item[assoc_find(store, k)].exptime
             PROVE  \/ LockedKey(k)'
                    \/ \E c \in Conns :
                         /\ item_comm[c] = "set" /\ store.item[citem[c]].key = k
                         /\ state'[c] = "conn_read"
                         /\ assoc_find(store, k)' = citem[c]
  OBVIOUS
<1>1. Table(store) /\ Table(store')
  BY DEF RInv, StoreSound, Sound
<1>2. /\ assoc_find(store, k) \in Chunks /\ Linked(store, assoc_find(store, k))
      /\ store.item[assoc_find(store, k)].key = k
  BY <1>1, FindLinked DEF LockedKey
<1> PICK j \in Chunks : j = assoc_find(store, k)
  BY <1>2
<1>3. Linked(store, j) /\ DeleteLocked(store, j) /\ store.item[j].key = k
  BY <1>2 DEF LockedKey
<1>4. CASE LockStays(store, store', j)
  <2>1. /\ Linked(store', j) /\ store'.item[j].key = k /\ "DELETED" \in store'.item[j].it_flags
        /\ store'.item[j].exptime = store.item[j].exptime
    BY <1>3, <1>4 DEF LockStays
  <2>2. assoc_find(store', k) = j
    BY <1>1, <2>1, FindLinked
  <2>3. ~ current_time' >= store'.item[j].exptime
    BY <2>1
  <2>4. j # NULL
    BY PoolAssumption
  <2>5. QED
    BY <2>1, <2>2, <2>3, <2>4 DEF LockedKey, DeleteLocked, item_delete_lock_over
<1>5. ASSUME NEW c \in Conns, state'[c] = "conn_read", citem[c] \in Chunks,
             SetEnds(store, store', item_comm[c], citem[c], j)
      PROVE  /\ item_comm[c] = "set" /\ store.item[citem[c]].key = k
             /\ assoc_find(store, k)' = citem[c]
  <2>1. /\ item_comm[c] = "set" /\ Linked(store', citem[c])
        /\ store.item[citem[c]].key = k /\ store'.item[citem[c]].key = k
    BY <1>3, <1>5 DEF SetEnds
  <2>2. assoc_find(store', k) = citem[c]
    BY <1>1, <1>5, <2>1, FindLinked
  <2>3. QED
    BY <2>1, <2>2
<1>6. QED
  BY <1>3, <1>4, <1>5 DEF LocksEndWell

\* A step that changes nothing ends no lock.
LEMMA StutterEnds ==
  ASSUME UNCHANGED vars
  PROVE  LocksEndWell
<1>1. UNCHANGED <<store, state>>
  BY DEF vars, connVars
<1>2. QED
  BY <1>1, UnchangedLocks, LocksUnended

\* RInv holds of the parts that the theorems name.
LEMMA RInvParts ==
  RInv => /\ RefcountIsHolds /\ NoDanglingReference /\ ListsAgree /\ NoLeak
          /\ SetBack \/ LruSortedByTime
          /\ ResponseIntact /\ LinkedIsNotSlabbed
          /\ LocksTimed => QueuedIsDeleted
BY RInvReferences, RInvLists DEF RInv, QueueSound

\* In a regular behaviour, the refcount of every item is the number of responses
\* and delete-queue entries that point to it, for any number of connections, keys,
\* chunks and entries (items.c:217-226, memcached.c:281, 503, 1203-1209, 1453-1472).
THEOREM RefcountsExact == Spec /\ []Regular => []RefcountIsHolds
BY RInvParts, RegularRefs, PTL

\* A free chunk is in no list, response or queue and belongs to no connection, and
\* the item a connection reads into is its own (items.c:125-128).
THEOREM NothingDangles == Spec /\ []Regular => []NoDanglingReference
BY RInvParts, RegularRefs, PTL

\* ITEM_LINKED, the hash table and the LRU lists name the same items, each once
\* (items.c:147-215).
THEOREM ListsAlwaysAgree == Spec /\ []Regular => []ListsAgree
BY RInvParts, RegularRefs, PTL

\* Every chunk of a mapped page is free, linked, referenced or being read into,
\* in whatever order its users let go of it (items.c:147-226).
THEOREM NothingLeaks == Spec /\ []Regular => []NoLeak
BY RInvParts, RegularRefs, PTL

\* On a clock that nobody sets back, the LRU lists are in the order of last use that
\* the search for a victim from the tail assumes (items.c:93-98, 228-234).
THEOREM LruStaysSorted ==
  ASSUME ~ SetBack
  PROVE  Spec /\ []Regular => []LruSortedByTime
BY RInvParts, RegularRefs, PTL

\* What a response points to is not reused before it is sent (memcached.c:270-282).
THEOREM ResponsesStayIntact == Spec /\ []Regular => []ResponseIntact
BY RInvParts, RegularRefs, PTL

\* When no delete sets its lock until second 0, which means "never", the timer
\* finds the flag of every entry set, as item_delete_lock_over asserts
\* (memcached.c:71-75).
THEOREM QueuedStaysDeleted ==
  ASSUME LocksTimed
  PROVE  Spec /\ []Regular => []QueuedIsDeleted
BY RInvParts, RegularRefs, PTL

\* A delete lock ends by its time or by a completed "set" of its key, and by no
\* other command, eviction or timer (memcached.c:82-88, 199-213).
THEOREM DeleteLocksHold == Spec /\ []Regular => DeleteLockHolds
<1>1. ASSUME RInv, RInv', Regular, Regular', [Next]_vars
      PROVE  [\A k \in Keys : LockedKey(k) =>
                \/ LockedKey(k)'
                \/ current_time' >= store.item[assoc_find(store, k)].exptime
                \/ \E c \in Conns :
                     /\ item_comm[c] = "set" /\ store.item[citem[c]].key = k
                     /\ state'[c] = "conn_read"
                     /\ assoc_find(store, k)' = citem[c]]_vars
  <2>1. LocksEndWell
    BY <1>1, NextRefs, StutterEnds DEF Regular, NoAlias, NoRetry
  <2>2. QED
    BY <1>1, <2>1, LockStep
<1>2. QED
  BY <1>1, RegularRefs, PTL DEF Spec, DeleteLockHolds

\* Making room never takes a referenced item out of the table, "it may be locked:
\* refcount>0" (items.c:84), whether the allocation then succeeds or not.
THEOREM EvictionSpares == Spec /\ []Regular => EvictionSparesReferenced
<1>1. ASSUME RInv, RInv', Regular, Regular', NEW i \in Chunks,
             Linked(store, i), store.item[i].refcount > 0, ~ Linked(store', i),
             NEW c \in Conns, NEW k \in Keys
      PROVE  /\ \A comm \in Comms, len \in Lens, t \in SetTimes :
                  ~ command_replace(c, comm, k, len, t)
             /\ \A incr \in BOOLEAN, d \in Deltas :
                  command_vary_delta(c, k, incr, d) => i = assoc_find(store, k)
  <2>1. IInv' /\ Referenced(store, i)
    BY <1>1 DEF RInv, Referenced
  <2>2. ASSUME NEW comm \in Comms, NEW len \in Lens, NEW t \in SetTimes,
               command_replace(c, comm, k, len, t)
        PROVE  FALSE
    <3>1. Spares(store, store')
      BY <1>1, <2>1, <2>2, CommandReplaceRefs
    <3>2. QED
      BY <1>1, <2>1, <3>1 DEF Spares
  <2>3. ASSUME NEW incr \in BOOLEAN, NEW d \in Deltas, command_vary_delta(c, k, incr, d)
        PROVE  i = assoc_find(store, k)
    <3>1. NoRetry \/ LinkedIsNotSlabbed'
      BY <1>1, <2>3 DEF Regular, NoAlias
    <3>2. SparesOthers(store, store', assoc_find(store, k))
      BY <1>1, <2>1, <2>3, <3>1, CommandVaryDeltaRefs
    <3>3. QED
      BY <1>1, <2>1, <3>2 DEF SparesOthers
  <2>4. QED
    BY <2>2, <2>3
<1>2. ASSUME RInv, RInv', Regular, Regular'
      PROVE  [\A i \in Chunks :
                Linked(store, i) /\ store.item[i].refcount > 0 /\ ~ Linked(store', i) =>
                  \A c \in Conns, k \in Keys :
                    /\ \A comm \in Comms, len \in Lens, t \in SetTimes :
                         ~ command_replace(c, comm, k, len, t)
                    /\ \A incr \in BOOLEAN, d \in Deltas :
                         command_vary_delta(c, k, incr, d) => i = assoc_find(store, k)]_vars
  BY <1>1, <1>2
<1>3. QED
  BY <1>2, RegularRefs, PTL DEF Spec, EvictionSparesReferenced

\* All of this holds whatever the clients do, when an allocation cannot fail for
\* want of memory and then succeed by an eviction, or nobody uses incr and decr,
\* and an unsigned short counts every entry that responses and the queue can hold.
THEOREM BoundedServer ==
  ASSUME NoAlias, RefsFit
  PROVE  Spec => /\ [](RefcountIsHolds /\ NoDanglingReference /\ ListsAgree)
                 /\ [](NoLeak /\ ResponseIntact)
                 /\ DeleteLockHolds /\ EvictionSparesReferenced
<1>1. Spec => [](RInv /\ Regular)
  BY BoundedRefs
<1>2. QED
  BY <1>1, RInvParts, DeleteLocksHold, EvictionSpares, PTL

\* In such a server the assertions of item_link and item_unlink, that a linked item
\* is not given back to the allocator, hold (items.c:150, 189).
THEOREM NotSlabbedWhileLinked ==
  ASSUME NoAlias, RefsFit
  PROVE  Spec => []LinkedIsNotSlabbed
<1>1. Spec => [](RInv /\ Regular)
  BY BoundedRefs
<1>2. QED
  BY <1>1, RInvParts, PTL

-----------------------------------------------------------------------------
(***************************************************************************)
(* The counters shown by "stats": curr_items and curr_bytes count the      *)
(* linked items and their bytes, in every behaviour in which the           *)
(* references are exact.  Only item_link and item_unlink change them, by   *)
(* the size the item has then; what makes them right is that no other      *)
(* operator changes the link or the size of a linked item.                 *)
(***************************************************************************)

(* What is counted *)

\* The linked items of a store, and their bytes.
LinkedOf(s) == {i \in Chunks : Linked(s, i)}
BytesOf(s) == UNION {{i} \X (1 .. s.item[i].nbytes) : i \in LinkedOf(s)}

\* The counters of store s are right.
Counts(s) ==
  /\ s.curr_items = Cardinality(LinkedOf(s))
  /\ s.curr_bytes = Cardinality(BytesOf(s))

\* The size of an item is a number.
LEMMA SizeIsNat ==
  ASSUME NEW s \in Store, NEW i \in Chunks
  PROVE  s.item[i].nbytes \in Nat
<1>1. s.item[i] \in Item
  BY DEF Store
<1>2. s.item[i].nbytes \in Lens \cup {0}
  BY <1>1 DEF Item
<1>3. Lens \cup {0} \subseteq Nat
  BY ItemsAssumption
<1>4. QED
  BY <1>2, <1>3

\* The bytes of a store are finitely many.
LEMMA BytesFinite ==
  ASSUME NEW s \in Store
  PROVE  IsFiniteSet(LinkedOf(s)) /\ IsFiniteSet(BytesOf(s))
<1> DEFINE B(i) == {i} \X (1 .. s.item[i].nbytes)
<1>1. IsFiniteSet(LinkedOf(s))
  BY PoolAssumption, FS_Subset DEF LinkedOf
<1>2. ASSUME NEW i \in LinkedOf(s)
      PROVE  IsFiniteSet(B(i))
  <2>1. s.item[i].nbytes \in Int
    BY SizeIsNat DEF LinkedOf
  <2>2. IsFiniteSet(1 .. s.item[i].nbytes)
    BY <2>1, FS_Interval
  <2>3. QED
    BY <2>2, FS_Singleton, FS_Product
<1>3. IsFiniteSet({B(i) : i \in LinkedOf(s)})
  <2> DEFINE f == [i \in LinkedOf(s) |-> B(i)]
  <2>1. f \in Surjection(LinkedOf(s), {B(i) : i \in LinkedOf(s)})
    BY DEF Surjection
  <2>2. QED
    BY <1>1, <2>1, FS_Surjection
<1>4. \A T \in {B(i) : i \in LinkedOf(s)} : IsFiniteSet(T)
  BY <1>2
<1>5. IsFiniteSet(UNION {B(i) : i \in LinkedOf(s)})
  BY <1>3, <1>4, FS_UNION
<1>6. QED
  BY <1>1, <1>5 DEF BytesOf

\* t is s, as far as the counters can tell.
Plain(s, t) ==
  /\ t.curr_items = s.curr_items /\ t.curr_bytes = s.curr_bytes
  /\ \A j \in Chunks :
       /\ Linked(t, j) <=> Linked(s, j)
       /\ Linked(s, j) => t.item[j].nbytes = s.item[j].nbytes

\* Then they stay right.
LEMMA PlainCounts ==
  ASSUME NEW s, NEW t, Plain(s, t), Counts(s)
  PROVE  Counts(t)
<1>1. LinkedOf(t) = LinkedOf(s)
  BY DEF Plain, LinkedOf
<1>2. \A i \in LinkedOf(s) : t.item[i].nbytes = s.item[i].nbytes
  BY DEF Plain, LinkedOf
<1>3. BytesOf(t) = BytesOf(s)
  BY <1>1, <1>2 DEF BytesOf
<1>4. QED
  BY <1>1, <1>3 DEF Plain, Counts

\* t is s with item i linked as well; the counters are left aside.
OneMore(s, t, i) ==
  /\ ~ Linked(s, i) /\ t.item[i].nbytes = s.item[i].nbytes
  /\ \A j \in Chunks :
       /\ Linked(t, j) <=> Linked(s, j) \/ j = i
       /\ Linked(s, j) => t.item[j].nbytes = s.item[j].nbytes

\* Then it has one linked item more, and the bytes of that item.
LEMMA OneMoreCounts ==
  ASSUME NEW s \in Store, NEW t \in Store, NEW i \in Chunks, OneMore(s, t, i)
  PROVE  /\ Cardinality(LinkedOf(t)) = Cardinality(LinkedOf(s)) + 1
         /\ Cardinality(BytesOf(t)) = Cardinality(BytesOf(s)) + s.item[i].nbytes
<1> DEFINE n == s.item[i].nbytes
           B == {i} \X (1 .. n)
<1>1. LinkedOf(t) = LinkedOf(s) \cup {i} /\ i \notin LinkedOf(s)
  BY DEF OneMore, LinkedOf
<1>2. Cardinality(LinkedOf(t)) = Cardinality(LinkedOf(s)) + 1
  BY <1>1, BytesFinite, FS_AddElement
<1>3. BytesOf(t) = BytesOf(s) \cup B
  <2>1. \A j \in LinkedOf(t) : t.item[j].nbytes = s.item[j].nbytes
    BY DEF OneMore, LinkedOf
  <2>2. BytesOf(t) = UNION {{j} \X (1 .. s.item[j].nbytes) : j \in LinkedOf(s) \cup {i}}
    BY <1>1, <2>1 DEF BytesOf
  <2>3. QED
    BY <2>2 DEF BytesOf
<1>4. BytesOf(s) \cap B = {}
  BY <1>1 DEF BytesOf
<1>5. n \in Nat
  BY SizeIsNat
<1> HIDE DEF n
<1>6. IsFiniteSet(B) /\ Cardinality(B) = n
  <2>1. IsFiniteSet(1 .. n) /\ Cardinality(1 .. n) = n
    <3>1. IsFiniteSet(1 .. n) /\ Cardinality(1 .. n) = IF 1 > n THEN 0 ELSE n - 1 + 1
      BY <1>5, FS_Interval
    <3>2. QED
      BY <1>5, <3>1
  <2>2. IsFiniteSet({i}) /\ Cardinality({i}) = 1
    BY FS_Singleton
  <2>3. IsFiniteSet(B) /\ Cardinality(B) = 1 * Cardinality(1 .. n)
    BY <2>1, <2>2, FS_Product
  <2>4. QED
    BY <1>5, <2>1, <2>3
<1> HIDE DEF B
<1>7. IsFiniteSet(BytesOf(s)) /\ Cardinality(BytesOf(s)) \in Nat
  BY BytesFinite, FS_CardinalityType
<1>8. Cardinality(BytesOf(s) \cup B)
        = Cardinality(BytesOf(s)) + Cardinality(B) - Cardinality(BytesOf(s) \cap B)
  BY <1>6, <1>7, FS_Union
<1>9. Cardinality(BytesOf(s) \cap B) = 0
  BY <1>4, FS_EmptySet
<1>10. Cardinality(BytesOf(t)) = Cardinality(BytesOf(s)) + n
  BY <1>3, <1>5, <1>6, <1>7, <1>8, <1>9
<1>11. QED
  BY <1>2, <1>10 DEF n

-----------------------------------------------------------------------------
(* What the operators do to the counters *)

\* A change of one item that is neither of its link nor of its size.
LEMMA ItemPlain ==
  ASSUME NEW s \in Store, NEW i \in Chunks, NEW r, NEW t,
         t.item = [s.item EXCEPT ![i] = r], r.nbytes = s.item[i].nbytes,
         "LINKED" \in r.it_flags <=> Linked(s, i),
         t.curr_items = s.curr_items, t.curr_bytes = s.curr_bytes
  PROVE  Plain(s, t)
<1>1. s.item \in [Chunks -> Item]
  BY DEF Store
<1>2. \A j \in Chunks : t.item[j] = IF j = i THEN r ELSE s.item[j]
  BY <1>1
<1>3. QED
  BY <1>2 DEF Plain, Linked

\* Giving a chunk back.
LEMMA FreeCounts ==
  ASSUME NEW s \in Store, NEW i \in Chunks, Counts(s)
  PROVE  Counts(item_free(s, i))
<1> DEFINE r == [s.item[i] EXCEPT !.slabs_clsid = 0, !.it_flags = @ \cup {"SLABBED"}]
           t == item_free(s, i)
<1>1. t.item = [s.item EXCEPT ![i] = r]
  BY FreeFields
<1>2. t.curr_items = s.curr_items /\ t.curr_bytes = s.curr_bytes
  BY DEF item_free, mem_cache_free, Store
<1>3. r.nbytes = s.item[i].nbytes /\ ("LINKED" \in r.it_flags <=> Linked(s, i))
  <2>1. s.item[i] \in Item
    BY DEF Store
  <2>2. QED
    BY <2>1 DEF Item, Linked
<1> HIDE DEF r, t
<1>4. Plain(s, t)
  BY <1>1, <1>2, <1>3, ItemPlain
<1>5. QED
  BY <1>4, PlainCounts DEF t

\* Giving it back if nothing refers to it.
LEMMA FreeIfUnreferencedCounts ==
  ASSUME NEW s \in Store, NEW i \in Chunks, Counts(s)
  PROVE  Counts(FreeIfUnreferenced(s, i))
BY FreeCounts DEF FreeIfUnreferenced

\* A linked item goes, with its bytes.
LEMMA UnlinkLinkedCounts ==
  ASSUME NEW s \in Store, NEW i \in Chunks, Linked(s, i), Counts(s)
  PROVE  Counts(UnlinkLinked(s, i))
<1> DEFINE t == UnlinkLinked(s, i)
<1>1. t \in Store
  BY UnlinkLinkedKeeps DEF Keeps
<1>2. t.curr_items = s.curr_items - 1 /\ t.curr_bytes = s.curr_bytes - s.item[i].nbytes
  BY DEF UnlinkLinked, item_unlink_q, assoc_delete, Store
<1>3. \A j \in Chunks : SameItem(s, t, j) /\ (Linked(t, j) <=> Linked(s, j) /\ j # i)
  BY UnlinkItems
<1> HIDE DEF t
<1>4. OneMore(t, s, i) /\ t.item[i].nbytes = s.item[i].nbytes
  BY <1>3 DEF OneMore, SameItem
<1>5. /\ Cardinality(LinkedOf(s)) = Cardinality(LinkedOf(t)) + 1
      /\ Cardinality(BytesOf(s)) = Cardinality(BytesOf(t)) + s.item[i].nbytes
  BY <1>1, <1>4, OneMoreCounts
<1>6. /\ Cardinality(LinkedOf(t)) \in Nat /\ Cardinality(BytesOf(t)) \in Nat
      /\ s.item[i].nbytes \in Nat
  BY <1>1, BytesFinite, FS_CardinalityType, SizeIsNat
<1>7. t.curr_items = Cardinality(LinkedOf(t)) /\ t.curr_bytes = Cardinality(BytesOf(t))
  BY <1>2, <1>5, <1>6 DEF Counts
<1>8. QED
  BY <1>7 DEF Counts, t

\* So does an item that may be linked.
LEMMA ItemUnlinkCounts ==
  ASSUME NEW s \in Store, NEW i \in Chunks, Counts(s)
  PROVE  Counts(item_unlink(s, i))
<1>1. CASE Linked(s, i)
  <2>1. UnlinkLinked(s, i) \in Store /\ Counts(UnlinkLinked(s, i))
    BY <1>1, UnlinkLinkedKeeps, UnlinkLinkedCounts DEF Keeps
  <2>2. QED
    BY <1>1, <2>1, FreeIfUnreferencedCounts DEF item_unlink
<1>2. CASE ~ Linked(s, i)
  BY <1>2, FreeIfUnreferencedCounts DEF item_unlink
<1>3. QED
  BY <1>1, <1>2

\* A reference more or less.
LEMMA RefCounts ==
  ASSUME NEW s \in Store, NEW i \in Chunks, Counts(s)
  PROVE  Counts(AddRef(s, i)) /\ Counts(DropRef(s, i))
<1>1. ASSUME NEW n
      PROVE  Counts(WithRef(s, i, n))
  <2> DEFINE r == [s.item[i] EXCEPT !.refcount = n]
             t == WithRef(s, i, n)
  <2>1. t.item = [s.item EXCEPT ![i] = r] /\ t.curr_items = s.curr_items
        /\ t.curr_bytes = s.curr_bytes
    BY DEF WithRef, Store
  <2>2. r.nbytes = s.item[i].nbytes /\ ("LINKED" \in r.it_flags <=> Linked(s, i))
    <3>1. s.item[i] \in Item
      BY DEF Store
    <3>2. QED
      BY <3>1 DEF Item, Linked
  <2> HIDE DEF r, t
  <2>3. Plain(s, t)
    BY <2>1, <2>2, ItemPlain
  <2>4. QED
    BY <2>3, PlainCounts DEF t
<1>2. AddRef(s, i) = WithRef(s, i, (s.item[i].refcount + 1) % RefMod)
  BY DEF AddRef, WithRef, Store, Item
<1>3. DropRef(s, i) = WithRef(s, i, IF s.item[i].refcount = 0 THEN 0 ELSE s.item[i].refcount - 1)
  BY DEF DropRef, WithRef, Store, Item
<1>4. QED
  BY <1>1, <1>2, <1>3

\* Letting go of an item.
LEMMA ItemRemoveCounts ==
  ASSUME NEW s \in Store, NEW i \in Chunks, Counts(s)
  PROVE  Counts(item_remove(s, i))
<1>1. DropRef(s, i) \in Store /\ Counts(DropRef(s, i))
  BY DropRefKeeps, RefCounts DEF Keeps
<1>2. QED
  BY <1>1, FreeIfUnreferencedCounts DEF item_remove

\* Moving an item to the head of its list.
LEMMA ItemUpdateCounts ==
  ASSUME NEW s \in Store, NEW i \in Chunks, NEW now, Counts(s)
  PROVE  Counts(item_update(s, i, now))
<1> DEFINE r == [s.item[i] EXCEPT !.time = now]
           t == item_update(s, i, now)
<1>1. UpdateEffect(s, t, i, now)
  BY UpdateFields
<1>2. t.curr_items = s.curr_items /\ t.curr_bytes = s.curr_bytes
  BY DEF item_update, item_link_q, item_unlink_q, Store
<1>3. r.nbytes = s.item[i].nbytes /\ ("LINKED" \in r.it_flags <=> Linked(s, i))
  <2>1. s.item[i] \in Item
    BY DEF Store
  <2>2. QED
    BY <2>1 DEF Item, Linked
<1> HIDE DEF t
<1>4. Plain(s, t)
  <2>1. t.item = [s.item EXCEPT ![i] = r]
    BY <1>1 DEF UpdateEffect
  <2>2. QED
    BY <1>2, <1>3, <2>1, ItemPlain
<1>5. QED
  BY <1>4, PlainCounts DEF t

\* Linking an item that is not linked adds it and its bytes.
LEMMA ItemLinkCounts ==
  ASSUME NEW s \in Store, NEW i \in Chunks, NEW now \in ItemTimes, ~ Linked(s, i), Counts(s)
  PROVE  Counts(item_link(s, i, now))
<1> DEFINE t == item_link(s, i, now)
<1>1. t \in Store
  BY ItemLinkKeeps DEF Keeps
<1>2. t.curr_items = s.curr_items + 1 /\ t.curr_bytes = s.curr_bytes + s.item[i].nbytes
  BY DEF item_link, item_link_q, assoc_insert, Store
<1>3. /\ \A j \in Chunks \ {i} : SameItem(s, t, j)
      /\ \A j \in Chunks : Linked(t, j) <=> Linked(s, j) \/ j = i
      /\ UsedNow(s, t, i, now)
  BY LinkItems
<1> HIDE DEF t
<1>4. OneMore(s, t, i)
  BY <1>3 DEF OneMore, SameItem, UsedNow
<1>5. /\ Cardinality(LinkedOf(t)) = Cardinality(LinkedOf(s)) + 1
      /\ Cardinality(BytesOf(t)) = Cardinality(BytesOf(s)) + s.item[i].nbytes
  BY <1>1, <1>4, OneMoreCounts
<1>6. t.curr_items = Cardinality(LinkedOf(t)) /\ t.curr_bytes = Cardinality(BytesOf(t))
  BY <1>2, <1>5 DEF Counts
<1>7. QED
  BY <1>6 DEF Counts, t

\* item_unlink links nothing.
LEMMA UnlinkLinksNothing ==
  ASSUME NEW s \in Store, NEW i \in Chunks, NEW j \in Chunks, ~ Linked(s, j)
  PROVE  ~ Linked(item_unlink(s, i), j)
<1>1. PICK u : u = IF Linked(s, i) THEN UnlinkLinked(s, i) ELSE s
  OBVIOUS
<1>2. u \in Store /\ ~ Linked(u, j)
  BY <1>1, UnlinkLinkedKeeps, UnlinkItems DEF Keeps
<1>3. item_unlink(s, i) = FreeIfUnreferenced(u, i)
  BY <1>1 DEF item_unlink
<1>4. QED
  BY <1>2, <1>3, FreeItems DEF FreeIfUnreferenced

\* Linking an item in the place of another, or of itself.
LEMMA ItemReplaceCounts ==
  ASSUME NEW s \in Store, NEW old \in Chunks, NEW i \in Chunks, NEW now \in ItemTimes,
         ~ Linked(s, i), Counts(s)
  PROVE  Counts(item_replace(s, old, i, now))
<1>1. item_unlink(s, old) \in Store /\ Counts(item_unlink(s, old))
  BY ItemUnlinkKeeps, ItemUnlinkCounts DEF Keeps
<1>2. ~ Linked(item_unlink(s, old), i)
  BY UnlinkLinksNothing
<1>3. QED
  BY <1>1, <1>2, ItemLinkCounts DEF item_replace

\* The allocator changes no item.
LEMMA AllocCounts ==
  ASSUME NEW s, NEW O, NEW now, Sound(s, O, now), NEW id, NEW o \in mem_cache_alloc(s, id),
         Counts(s)
  PROVE  Counts(o.s)
<1>1. o.s.item = s.item
  BY AllocSound
<1>2. o.s.curr_items = s.curr_items /\ o.s.curr_bytes = s.curr_bytes
  <2>1. \/ o = Outcome(s, NULL)
        \/ \E i \in FreeOf(s, id) : o = Outcome(TakeChunk(s, i), i)
        \/ \E p \in NewPages(s, id) : \E i \in ChunksOf({p}) :
             o = Outcome(TakeChunk(MapPage(s, p), i), i)
    BY DEF mem_cache_alloc
  <2>2. s \in Store
    BY DEF Sound
  <2>3. ASSUME NEW r \in Store, NEW i
        PROVE  /\ TakeChunk(r, i).curr_items = r.curr_items
               /\ TakeChunk(r, i).curr_bytes = r.curr_bytes
    BY DEF TakeChunk, Store
  <2>4. ASSUME NEW p \in Pages
        PROVE  /\ MapPage(s, p) \in Store
               /\ MapPage(s, p).curr_items = s.curr_items
               /\ MapPage(s, p).curr_bytes = s.curr_bytes
    <3>1. MapPage(s, p) \in Store
      BY <2>2, MapPageKeeps DEF Keeps
    <3>2. QED
      BY <2>2, <3>1 DEF MapPage, Store
  <2>5. NewPages(s, id) \subseteq Pages
    BY DEF NewPages
  <2>6. \A r, i : Outcome(r, i).s = r
    BY DEF Outcome
  <2>7. CASE o = Outcome(s, NULL)
    BY <2>6, <2>7
  <2>8. CASE \E i \in FreeOf(s, id) : o = Outcome(TakeChunk(s, i), i)
    BY <2>2, <2>3, <2>6, <2>8
  <2>9. ASSUME NEW p \in NewPages(s, id), NEW i, o = Outcome(TakeChunk(MapPage(s, p), i), i)
        PROVE  o.s.curr_items = s.curr_items /\ o.s.curr_bytes = s.curr_bytes
    BY <2>3, <2>4, <2>5, <2>6, <2>9
  <2>10. QED
    BY <2>1, <2>7, <2>8, <2>9
<1>3. Plain(s, o.s)
  BY <1>1, <1>2 DEF Plain, Linked
<1>4. QED
  BY <1>3, PlainCounts

\* An eviction is an item_unlink.
LEMMA EvictCounts ==
  ASSUME NEW s \in Store, NEW id \in Ids, NEW e \in evict(s, id), Counts(s)
  PROVE  Counts(e)
<1> DEFINE q == s.lru[id]
<1>1. q \in Seq(Chunks)
  BY StoreFields DEF Ids
<1>2. CASE e = s
  BY <1>2
<1>3. CASE \E n \in DOMAIN q : e = item_unlink(s, q[n])
  <2>1. PICK n \in DOMAIN q : e = item_unlink(s, q[n])
    BY <1>3
  <2>2. q[n] \in Chunks
    BY <1>1, <2>1
  <2>3. QED
    BY <2>1, <2>2, ItemUnlinkCounts
<1>4. QED
  BY <1>2, <1>3 DEF evict, Unreferenced

\* So both attempts of item_alloc to get a chunk leave the counters right.
LEMMA ChunkForCounts ==
  ASSUME NEW s, NEW O, NEW now, Sound(s, O, now), NEW id \in Ids, NEW o \in ChunkFor(s, id),
         Counts(s)
  PROVE  Counts(o.s)
<1>1. CASE o \in mem_cache_alloc(s, id)
  BY <1>1, AllocCounts
<1>2. CASE \E f \in mem_cache_alloc(s, id) : f.it = NULL /\ \E e \in evict(f.s, id) :
             o \in mem_cache_alloc(e, id)
  <2>1. PICK f \in mem_cache_alloc(s, id) : f.it = NULL /\ \E e \in evict(f.s, id) :
               o \in mem_cache_alloc(e, id)
    BY <1>2
  <2>2. PICK e \in evict(f.s, id) : o \in mem_cache_alloc(e, id)
    BY <2>1
  <2>3. Sound(f.s, O, now) /\ Counts(f.s)
    BY <2>1, AllocSound, AllocCounts, PoolAssumption DEF Gives
  <2>4. Sound(e, O, now) /\ Counts(e)
    BY <2>2, <2>3, EvictSound, EvictCounts DEF Sound
  <2>5. QED
    BY <2>2, <2>4, AllocCounts
<1>3. QED
  BY <1>1, <1>2 DEF ChunkFor

\* A new item is not linked, and does not take the place of one that is.
LEMMA ItemAllocCounts ==
  ASSUME NEW s, NEW O, NEW now, Sound(s, O, now), NEW k \in Keys, NEW len \in Lens,
         NEW x \in ItemTimes, NEW a \in item_alloc(s, k, len, x), Counts(s)
  PROVE  Counts(a.s) /\ (a.it # NULL => a.it \in Chunks /\ ~ Linked(a.s, a.it))
<1>1. a.it # NULL => a.it \in Chunks /\ ~ Linked(a.s, a.it)
  BY ItemAllocSound DEF Sound, Placed, Live
<1>2. CASE a = Outcome(s, NULL)
  BY <1>1, <1>2 DEF Outcome
<1>3. CASE \E o \in ChunkFor(s, ClsId[len]) : a = InitItem(o, k, len, x)
  <2>1. PICK o \in ChunkFor(s, ClsId[len]) : a = InitItem(o, k, len, x)
    BY <1>3
  <2>2. ClsId[len] \in Ids
    BY ItemsAssumption DEF Ids
  <2>3. Counts(o.s)
    BY <2>1, <2>2, ChunkForCounts
  <2>4. CASE o.it = NULL
    BY <1>1, <2>1, <2>3, <2>4 DEF InitItem
  <2>5. CASE o.it # NULL
    <3> PICK u : u = o.s
      OBVIOUS
    <3> PICK i : i = o.it
      OBVIOUS
    <3>1. i \in Chunks /\ ~ Linked(u, i) /\ u \in Store
      BY <2>1, <2>2, <2>5, ChunkForSound DEF Live, Sound
    <3> DEFINE r == NewItem(k, len, x)
               t == [u EXCEPT !.item = [u.item EXCEPT ![i] = r]]
    <3>2. a.s = t
      BY <2>1, <2>5 DEF InitItem, Outcome
    <3>3. "LINKED" \notin r.it_flags
      BY DEF NewItem, BlankItem
    <3> HIDE DEF r
    <3>4. /\ t.item = [u.item EXCEPT ![i] = r]
          /\ t.curr_items = u.curr_items /\ t.curr_bytes = u.curr_bytes
      BY <3>1 DEF Store
    <3>5. \A j \in Chunks : t.item[j] = IF j = i THEN r ELSE u.item[j]
      BY <3>1, <3>4 DEF Store
    <3> HIDE DEF t
    <3>6. Plain(u, t)
      BY <3>1, <3>3, <3>4, <3>5 DEF Plain, Linked
    <3>7. QED
      BY <1>1, <2>3, <3>2, <3>6, PlainCounts
  <2>6. QED
    BY <2>4, <2>5
<1>4. QED
  BY <1>2, <1>3 DEF item_alloc

\* A lookup may unlink the item it finds.
LEMMA LookupCounts ==
  ASSUME NEW s \in Store, NEW k \in Keys, Counts(s)
  PROVE  /\ Counts(get_item_notedeleted(s, k).s)
         /\ assoc_find(s, k) \in Chunks \cup {NULL}
<1> PICK i : i = assoc_find(s, k)
  OBVIOUS
<1>1. i \in Chunks \cup {NULL}
  <2>1. s.hashtable[k] \in Seq(Chunks)
    BY DEF Store
  <2>2. QED
    BY <2>1 DEF assoc_find
<1>2. i \in Chunks => Counts(item_unlink(s, i))
  BY ItemUnlinkCounts
<1>3. QED
  BY <1>1, <1>2 DEF get_item_notedeleted, Found

\* Another value of an item.
LEMMA ValCounts ==
  ASSUME NEW s \in Store, NEW i \in Chunks, NEW v, Counts(s)
  PROVE  Counts([s EXCEPT !.item[i].val = v])
<1> DEFINE r == [s.item[i] EXCEPT !.val = v]
           t == [s EXCEPT !.item[i].val = v]
<1>1. /\ t.item = [s.item EXCEPT ![i] = r]
      /\ t.curr_items = s.curr_items /\ t.curr_bytes = s.curr_bytes
  BY DEF Store
<1>2. r.nbytes = s.item[i].nbytes /\ ("LINKED" \in r.it_flags <=> Linked(s, i))
  <2>1. s.item[i] \in Item
    BY DEF Store
  <2>2. QED
    BY <2>1 DEF Item, Linked
<1> HIDE DEF r, t
<1>3. Plain(s, t)
  BY <1>1, <1>2, ItemPlain
<1>4. QED
  BY <1>3, PlainCounts DEF t

\* The completion of a set, add or replace.
LEMMA CompletionCounts ==
  ASSUME NEW s, NEW O, NEW k \in Keys, NEW it \in Chunks, NEW comm, NEW good,
         current_time \in ItemTimes, Sound(s, O, current_time), it \in O,
         NEW g, g = get_item_notedeleted(s, k),
         NEW t, t = IF ~ good THEN item_free(s, it)
                    ELSE IF Refused(g, comm) THEN item_free(Touched(g, comm), it)
                    ELSE Stored(g, k, it),
         Counts(s)
  PROVE  Counts(t)
<1>1. s \in Store /\ Sound(g.s, O, current_time) /\ g.s \in Store /\ Counts(g.s)
  BY LookupSound, LookupCounts DEF Sound
<1>2. g.it # NULL => g.it \in Chunks
  BY LookupFinds
<1>3. CASE ~ good
  BY <1>1, <1>3, FreeCounts
<1>4. CASE good /\ Refused(g, comm)
  <2>1. Touched(g, comm) \in Store /\ Counts(Touched(g, comm))
    BY <1>1, <1>2, ItemUpdateKeeps, ItemUpdateCounts DEF Touched, Keeps
  <2>2. QED
    BY <1>4, <2>1, FreeCounts
<1>5. CASE good /\ ~ Refused(g, comm)
  <2>1. ~ Linked(g.s, it)
    BY <1>1 DEF Sound, Placed, Live
  <2>2. assoc_find(g.s, k) # NULL => assoc_find(g.s, k) \in Chunks
    BY <1>1, LookupCounts
  <2>3. PICK old : old = IF g.delete_locked THEN assoc_find(g.s, k) ELSE g.it
    OBVIOUS
  <2>4. t = IF old = NULL THEN item_link(g.s, it, current_time)
            ELSE item_replace(g.s, old, it, current_time)
    BY <1>5, <2>3 DEF Stored
  <2>5. old # NULL => old \in Chunks
    BY <1>2, <2>2, <2>3
  <2>6. QED
    BY <1>1, <2>1, <2>4, <2>5, ItemLinkCounts, ItemReplaceCounts
<1>6. QED
  BY <1>3, <1>4, <1>5

-----------------------------------------------------------------------------
(* The handlers *)

\* The handlers of a connection that are not commands.
LEMMA ConnectionCounts ==
  ASSUME RInv, Counts(store), NEW c \in Conns,
         \/ conn_new(c) \/ conn_close(c) \/ transmit_complete(c)
         \/ \E v \in Vals, good \in BOOLEAN : complete_nread(c, v, good)
  PROVE  Counts(store')
<1>1. /\ store \in Store /\ current_time \in ItemTimes /\ Sound(store, Owned, current_time)
      /\ citem[c] # NULL => citem[c] \in Chunks /\ citem[c] \in Owned
  BY RInvTypes DEF RInv, StoreSound
<1>2. CASE conn_new(c) \/ transmit_complete(c)
  BY <1>2 DEF conn_new, transmit_complete
<1>3. CASE conn_close(c)
  BY <1>1, <1>3, FreeCounts DEF conn_close
<1>4. ASSUME NEW v \in Vals, NEW good \in BOOLEAN, complete_nread(c, v, good)
      PROVE  Counts(store')
  <2>1. citem[c] # NULL
    BY <1>4 DEF complete_nread, RInv, IInv, ReaderHasItem
  <2> PICK it \in Chunks : it = citem[c]
    BY <1>1, <2>1
  <2> PICK k \in Keys : k = store.item[it].key
    BY <2>1 DEF RInv, IInv, ItemHasKey
  <2> PICK s : s = [store EXCEPT !.item[it].val = v]
    OBVIOUS
  <2> PICK g : g = get_item_notedeleted(s, k)
    OBVIOUS
  <2>2. store' = IF ~ good THEN item_free(s, it)
                 ELSE IF Refused(g, item_comm[c]) THEN item_free(Touched(g, item_comm[c]), it)
                 ELSE Stored(g, k, it)
    BY <1>4 DEF complete_nread
  <2>3. Sound(s, Owned, current_time) /\ Counts(s)
    BY <1>1, ValSound, ValCounts
  <2>4. it \in Owned
    BY <1>1, <2>1
  <2>5. QED
    BY <1>1, <2>2, <2>3, <2>4, CompletionCounts
<1>5. QED
  BY <1>2, <1>3, <1>4

\* A new item is sound and belongs to the handler that asked for it.
LEMMA AllocOwned ==
  ASSUME NEW s, NEW O, NEW now, Sound(s, O, now), NEW k \in Keys, NEW len \in Lens,
         NEW x \in ItemTimes, NEW a \in item_alloc(s, k, len, x), a.it # NULL
  PROVE  Sound(a.s, O \cup {a.it}, now)
BY ItemAllocSound

\* set, add and replace allocate; incr and decr may.
LEMMA AllocatingCounts ==
  ASSUME RInv, Counts(store), NEW c \in Conns, NEW k \in Keys,
         \/ \E comm \in Comms, len \in Lens, t \in SetTimes : command_replace(c, comm, k, len, t)
         \/ \E incr \in BOOLEAN, d \in Deltas : command_vary_delta(c, k, incr, d)
  PROVE  Counts(store')
<1>1. /\ store \in Store /\ current_time \in ItemTimes /\ Sound(store, Owned, current_time)
      /\ current_time \in RelTime
  BY RInvTypes DEF RInv, StoreSound, IInv, TypeOK
<1>2. ASSUME NEW comm \in Comms, NEW len \in Lens, NEW t \in SetTimes,
             command_replace(c, comm, k, len, t)
      PROVE  Counts(store')
  <2>1. PICK x \in ItemTimes : x = realtime(t, current_time)
    BY <1>1, RealtimeType, ItemStoreAssumption
  <2>2. PICK o \in item_alloc(store, k, len, x) : store' = o.s
    BY <1>2, <2>1 DEF command_replace
  <2>3. QED
    BY <1>1, <2>2, ItemAllocCounts
<1>3. ASSUME NEW incr \in BOOLEAN, NEW d \in Deltas, command_vary_delta(c, k, incr, d)
      PROVE  Counts(store')
  <2> PICK g : g = get_item_notedeleted(store, k)
    OBVIOUS
  <2>1. CASE g.it = NULL
    <3>1. store' = g.s
      BY <1>3, <2>1 DEF command_vary_delta, get_item
    <3>2. QED
      BY <1>1, <3>1, LookupCounts
  <2>2. CASE g.it # NULL
    <3>1. g.s = store /\ g.it \in Chunks
      BY <1>1, <2>2, LookupFinds
    <3> PICK i \in Chunks : i = g.it
      BY <3>1
    <3> PICK v : v = NewValue(incr, store.item[i].val, d)
      OBVIOUS
    <3>2. \/ \E o \in item_alloc(store, k, DataLen[v], store.item[i].exptime) :
               store' = IF o.it = NULL THEN o.s
                        ELSE item_replace([o.s EXCEPT !.item[o.it].val = v],
                                          i, o.it, current_time)
          \/ store' = [store EXCEPT !.item[i].val = v]
      <4> PICK w : w = NewValue(incr, g.s.item[g.it].val, d)
        OBVIOUS
      <4>1. \/ \E o \in item_alloc(g.s, k, DataLen[w], g.s.item[g.it].exptime) :
                 store' = IF o.it = NULL THEN o.s
                          ELSE item_replace([o.s EXCEPT !.item[o.it].val = w],
                                            g.it, o.it, current_time)
            \/ store' = [g.s EXCEPT !.item[g.it].val = w]
        BY <1>3, <2>2 DEF command_vary_delta, get_item
      <4>2. w = v
        BY <3>1
      <4>3. QED
        BY <3>1, <4>1, <4>2
    <3>3. v \in Vals /\ DataLen[v] \in Lens /\ store.item[i].exptime \in ItemTimes
      <4>1. store.item[i] \in Item
        BY <1>1, ItemTypes
      <4>2. store.item[i].val \in Vals /\ store.item[i].exptime \in ItemTimes
        BY <4>1 DEF Item
      <4>3. v \in Vals
        BY <4>2, NewValueType
      <4>4. QED
        BY <4>2, <4>3, ItemStoreAssumption
    <3>4. ASSUME NEW o \in item_alloc(store, k, DataLen[v], store.item[i].exptime),
                 store' = IF o.it = NULL THEN o.s
                          ELSE item_replace([o.s EXCEPT !.item[o.it].val = v],
                                            i, o.it, current_time)
          PROVE  Counts(store')
      <4>1. Counts(o.s) /\ (o.it # NULL => o.it \in Chunks /\ ~ Linked(o.s, o.it))
        BY <1>1, <3>3, ItemAllocCounts
      <4>2. CASE o.it = NULL
        BY <3>4, <4>1, <4>2
      <4>3. CASE o.it # NULL
        <5> PICK n \in Chunks : n = o.it
          BY <4>1, <4>3
        <5> PICK r : r = [o.s EXCEPT !.item[n].val = v]
          OBVIOUS
        <5>1. Sound(o.s, Owned \cup {n}, current_time)
          <6> PICK len \in Lens : len = DataLen[v]
            BY <3>3
          <6> PICK x \in ItemTimes : x = store.item[i].exptime
            BY <3>3
          <6>1. o \in item_alloc(store, k, len, x)
            OBVIOUS
          <6>2. Sound(store, Owned, current_time)
            BY <1>1
          <6>3. Sound(o.s, Owned \cup {o.it}, current_time)
            BY <4>3, <6>1, <6>2, AllocOwned
          <6>4. QED
            BY <6>3
        <5>2. r \in Store /\ Counts(r) /\ ~ Linked(r, n)
          <6>1. Sound(r, Owned \cup {n}, current_time) /\ Revalued(o.s, r, n)
            BY <3>3, <5>1, ValSound
          <6>2. o.s \in Store /\ r \in Store
            BY <5>1, <6>1 DEF Sound
          <6>3. ~ Linked(r, n)
            BY <4>1, <4>3, <6>1 DEF Revalued
          <6>4. Counts(r)
            BY <4>1, <6>2, ValCounts
          <6>5. QED
            BY <6>2, <6>3, <6>4
        <5>3. store' = item_replace(r, i, n, current_time)
          BY <3>4, <4>3
        <5>4. QED
          BY <1>1, <5>2, <5>3, ItemReplaceCounts
      <4>4. QED
        BY <4>2, <4>3
    <3>5. CASE store' = [store EXCEPT !.item[i].val = v]
      BY <1>1, <3>5, ValCounts
    <3>6. QED
      BY <3>2, <3>4, <3>5
  <2>3. QED
    BY <2>1, <2>2
<1>4. QED
  BY <1>2, <1>3

\* A change of the delete lock of an item.
LEMMA LockCounts ==
  ASSUME NEW s, NEW O, NEW now, Sound(s, O, now), NEW i \in Chunks, Counts(s)
  PROVE  /\ \A x \in ItemTimes :
              Counts([s EXCEPT !.item[i].exptime = x, !.item[i].it_flags = @ \cup {"DELETED"}])
         /\ Counts([s EXCEPT !.item[i].it_flags = @ \ {"DELETED"}])
<1>1. ASSUME NEW t, NEW x, NEW b, Relocking(s, t, i, x, b),
             t.curr_items = s.curr_items, t.curr_bytes = s.curr_bytes
      PROVE  Counts(t)
  <2>1. Plain(s, t)
    BY <1>1 DEF Relocking, SameItem, Plain
  <2>2. QED
    BY <2>1, PlainCounts
<1>2. s \in Store
  BY DEF Sound
<1>3. ASSUME NEW x \in ItemTimes
      PROVE  Counts([s EXCEPT !.item[i].exptime = x, !.item[i].it_flags = @ \cup {"DELETED"}])
  <2> PICK t : t = [s EXCEPT !.item[i].exptime = x, !.item[i].it_flags = @ \cup {"DELETED"}]
    OBVIOUS
  <2>1. t.curr_items = s.curr_items /\ t.curr_bytes = s.curr_bytes
    BY <1>2 DEF Store
  <2>2. QED
    BY <1>1, <2>1, LockSound
<1>4. Counts([s EXCEPT !.item[i].it_flags = @ \ {"DELETED"}])
  <2> PICK t : t = [s EXCEPT !.item[i].it_flags = @ \ {"DELETED"}]
    OBVIOUS
  <2>1. t.curr_items = s.curr_items /\ t.curr_bytes = s.curr_bytes
    BY <1>2 DEF Store
  <2>2. QED
    BY <1>1, <2>1, UnlockSound
<1>5. QED
  BY <1>3, <1>4

\* get and delete.
LEMMA LookingUpCounts ==
  ASSUME RInv, RInv', Regular, Counts(store), NEW k \in Keys,
         \/ command_get_key(k)
         \/ \E c \in Conns, t \in DelTimes : delete_handler(c, k, t)
  PROVE  Counts(store')
<1>1. /\ store \in Store /\ current_time \in ItemTimes /\ Sound(store, Owned, current_time)
      /\ current_time \in RelTime
  BY RInvTypes DEF RInv, StoreSound, IInv, TypeOK
<1> PICK g : g = get_item_notedeleted(store, k)
  OBVIOUS
<1>2. Counts(g.s)
  BY <1>1, LookupCounts
<1>3. CASE store' = g.s
  BY <1>2, <1>3
<1>4. ASSUME g.it # NULL
      PROVE  g.s = store /\ g.it \in Chunks /\ Linked(store, g.it)
  BY <1>1, <1>4, LookupFinds
<1>5. ASSUME NEW i \in Chunks, Linked(store, i)
      PROVE  /\ Counts(AddRef(store, i)) /\ AddRef(store, i) \in Store
             /\ Sound(AddRef(store, i), Owned, current_time)
  <2>1. Sound(AddRef(store, i), Owned, current_time)
    BY <1>1, <1>5, AddRefSound DEF Regular, Live
  <2>2. QED
    BY <1>1, <2>1, RefCounts DEF Sound
<1>6. CASE command_get_key(k) /\ g.it # NULL
  <2>1. store' = item_update(AddRef(store, g.it), g.it, current_time)
    BY <1>4, <1>6 DEF command_get_key, get_item
  <2>2. QED
    BY <1>4, <1>5, <1>6, <2>1, ItemUpdateCounts
<1>7. ASSUME NEW c \in Conns, NEW t \in DelTimes, delete_handler(c, k, t), g.it # NULL,
             store' # g.s
      PROVE  Counts(store')
  <2> PICK i \in Chunks : i = g.it
    BY <1>4, <1>7
  <2>1. \/ store' = item_unlink(store, i)
        \/ store' = [AddRef(store, i) EXCEPT !.item[i].exptime = realtime(t, current_time),
                                             !.item[i].it_flags = @ \cup {"DELETED"}]
    BY <1>4, <1>7 DEF delete_handler, get_item
  <2>2. realtime(t, current_time) \in ItemTimes
    BY <1>1, RealtimeType, ItemStoreAssumption
  <2>3. Linked(store, i)
    BY <1>4, <1>7
  <2> PICK s : s = AddRef(store, i)
    OBVIOUS
  <2>4. Sound(s, Owned, current_time) /\ Counts(s)
    BY <1>5, <2>3
  <2>5. Counts([s EXCEPT !.item[i].exptime = realtime(t, current_time),
                         !.item[i].it_flags = @ \cup {"DELETED"}])
    BY <2>2, <2>4, LockCounts
  <2>6. QED
    BY <1>1, <2>1, <2>5, ItemUnlinkCounts
<1>8. \/ store' = g.s
      \/ command_get_key(k) /\ g.it # NULL
      \/ \E c \in Conns, t \in DelTimes : delete_handler(c, k, t) /\ g.it # NULL
  BY DEF command_get_key, delete_handler, get_item
<1>9. QED
  BY <1>3, <1>6, <1>7, <1>8

\* The handlers that let go of items one by one.
LEMMA LettingGoCounts ==
  ASSUME RInv, Counts(store), release_item \/ timer_delete_step
  PROVE  Counts(store')
<1>1. store \in Store /\ Sound(store, Owned, current_time)
  BY DEF RInv, StoreSound, IInv, TypeOK
<1>2. CASE release_item
  <2>1. who \in Conns /\ icurr[who] < Len(ilist[who])
    BY <1>2 DEF release_item, RInv, IInv, CallerIsConn
  <2> PICK w \in Conns : w = who
    BY <2>1
  <2>2. ilist[w] \in Seq(Entry) /\ icurr[w] \in Nat
    BY DEF RInv, IInv, TypeOK
  <2>3. ilist[w][icurr[w] + 1] \in Entry
    BY <2>1, <2>2
  <2> PICK i \in Chunks : i = ilist[w][icurr[w] + 1].it
    BY <2>3 DEF Entry
  <2>4. store' = item_remove(store, i)
    BY <1>2 DEF release_item
  <2>5. QED
    BY <1>1, <2>4, ItemRemoveCounts
<1>3. CASE timer_delete_step
  <2>1. todelete \in Seq(Chunks) /\ ti \in Nat /\ ti < Len(todelete)
    BY <1>3 DEF timer_delete_step, RInv, IInv, TypeOK
  <2> PICK i \in Chunks : i = todelete[ti + 1]
    BY <2>1
  <2> PICK s : s = [store EXCEPT !.item[i].it_flags = @ \ {"DELETED"}]
    OBVIOUS
  <2>2. store' = store \/ store' = item_remove(item_unlink(s, i), i)
    BY <1>3 DEF timer_delete_step
  <2>3. s \in Store /\ Counts(s)
    BY <1>1, UnlockSound, LockCounts DEF Sound
  <2>4. item_unlink(s, i) \in Store /\ Counts(item_unlink(s, i))
    BY <2>3, ItemUnlinkKeeps, ItemUnlinkCounts DEF Keeps
  <2>5. QED
    BY <2>2, <2>4, ItemRemoveCounts
<1>4. QED
  BY <1>2, <1>3

\* Every step of a regular server leaves the counters right.
LEMMA NextCounts ==
  ASSUME RInv, RInv', Regular, Counts(store), [Next]_vars
  PROVE  Counts(store')
<1>1. CASE UNCHANGED vars
  BY <1>1 DEF vars
<1>2. ASSUME NEW c \in Conns, Command(c)
      PROVE  Counts(store')
  <2>1. CASE command_get(c) \/ flush_all_handler(c) \/ \E t \in FlushTimes : flush_all_at(c, t)
    BY <2>1 DEF command_get, flush_all_handler, flush_all_at
  <2>2. CASE ~ (command_get(c) \/ flush_all_handler(c) \/ \E t \in FlushTimes : flush_all_at(c, t))
    BY <1>2, <2>2, AllocatingCounts, LookingUpCounts DEF Command
  <2>3. QED
    BY <2>1, <2>2
<1>3. CASE \/ command_get_end \/ release_end \/ timer_delete_handler \/ timer_delete_end
           \/ clock_handler
  BY <1>3 DEF command_get_end, release_end, timer_delete_handler, timer_delete_end,
              clock_handler
<1>4. QED
  BY <1>1, <1>2, <1>3, ConnectionCounts, LookingUpCounts, LettingGoCounts DEF Next

\* At the start nothing is linked and nothing counted.
LEMMA InitCounts == Init => Counts(store)
<1> SUFFICES ASSUME Init
             PROVE  Counts(store)
  OBVIOUS
<1>1. store = InitStore
  BY DEF Init
<1>2. \A i \in Chunks : ~ Linked(store, i)
  BY <1>1 DEF InitStore, BlankItem, Linked
<1>3. LinkedOf(store) = {} /\ BytesOf(store) = {}
  BY <1>2 DEF LinkedOf, BytesOf
<1>4. store.curr_items = 0 /\ store.curr_bytes = 0
  BY <1>1 DEF InitStore
<1>5. QED
  BY <1>3, <1>4, FS_EmptySet DEF Counts

-----------------------------------------------------------------------------
(* The property *)

\* The counters of the store are what StatsAgree says.
LEMMA CountsAgree == (StatsAgree <=> Counts(store)) /\ (StatsAgree' <=> Counts(store'))
BY DEF Counts, StatsAgree, LinkedOf, LinkedItems, BytesOf, LinkedBytes

\* curr_items and curr_bytes of "stats" are the number and the bytes of the items
\* in the table: what item_link added is what item_unlink subtracts, although
\* incr, delete, evictions and lookups that expire items come between them
\* (items.c:195-197, 207-208).
THEOREM StatsAlwaysAgree == Spec /\ []Regular => []StatsAgree
<1>1. StatsAgree /\ RInv /\ RInv' /\ Regular /\ [Next]_vars => StatsAgree'
  BY NextCounts, CountsAgree
<1>2. Init => StatsAgree
  BY InitCounts, CountsAgree
<1>3. QED
  BY <1>1, <1>2, RegularRefs, PTL DEF Spec

\* So do they in a server whose refcounts fit and whose evictions spare the items
\* of incr and decr, whatever its clients do.
THEOREM BoundedStats ==
  ASSUME NoAlias, RefsFit
  PROVE  Spec => []StatsAgree
<1>1. Spec => [](RInv /\ Regular)
  BY BoundedRefs
<1>2. QED
  BY <1>1, StatsAlwaysAgree, PTL

-----------------------------------------------------------------------------
(***************************************************************************)
(* ItemStore implements Cache, for every value of its constants and in     *)
(* every regular behaviour, as long as no flush_all has a time: a flush    *)
(* into the future takes back an earlier one.                              *)
(***************************************************************************)

(* What keys show *)

\* Item i of s is linked in vain: no lookup returns it.
Hidden(s, i) == DeleteLocked(s, i) \/ Flushed(s, i) \/ Expired(s, i)

\* What a get of key k would return if the store were s.
Value(s, k) ==
  IF assoc_find(s, k) = NULL \/ Hidden(s, assoc_find(s, k)) THEN NULL
  ELSE s.item[assoc_find(s, k)].val

\* Every key outside of K shows in t what it shows in s, or nothing.
KeysFade(s, t, K) == \A k \in Keys \ K : Value(t, k) \in {Value(s, k), NULL}

\* The fading of keys composes.
LEMMA KeysFadeTrans ==
  ASSUME NEW r, NEW s, NEW t, NEW K, KeysFade(r, s, K), KeysFade(s, t, K)
  PROVE  KeysFade(r, t, K)
BY DEF KeysFade

\* A key shows an item exactly when it is linked with this key and not hidden.
LEMMA ValueOfLinked ==
  ASSUME NEW s, Table(s), NEW i \in Chunks, Linked(s, i), NEW k \in Keys, s.item[i].key = k
  PROVE  Value(s, k) = IF Hidden(s, i) THEN NULL ELSE s.item[i].val
<1>1. assoc_find(s, k) = i /\ i # NULL
  BY FindLinked, PoolAssumption
<1>2. QED
  BY <1>1 DEF Value

\* Keys fade when their items do: each linked item was linked before, with its
\* key and value, and it is hidden if it was.
LEMMA ItemsFade ==
  ASSUME NEW s, NEW t, NEW K, Table(s), Table(t),
         \A j \in Chunks : Linked(t, j) /\ t.item[j].key \notin K =>
           /\ Linked(s, j) /\ t.item[j].key = s.item[j].key /\ t.item[j].val = s.item[j].val
           /\ Hidden(s, j) => Hidden(t, j)
  PROVE  KeysFade(s, t, K)
<1> SUFFICES ASSUME NEW k \in Keys \ K
             PROVE  Value(t, k) \in {Value(s, k), NULL}
  BY DEF KeysFade
<1>1. CASE assoc_find(t, k) = NULL
  BY <1>1 DEF Value
<1>2. CASE assoc_find(t, k) # NULL
  <2> PICK i : i = assoc_find(t, k)
    OBVIOUS
  <2>1. i \in Chunks /\ Linked(t, i) /\ t.item[i].key = k
    BY <1>2, FindLinked
  <2>2. /\ Linked(s, i) /\ s.item[i].key = k /\ t.item[i].val = s.item[i].val
        /\ Hidden(s, i) => Hidden(t, i)
    BY <2>1
  <2>3. /\ Value(t, k) = IF Hidden(t, i) THEN NULL ELSE t.item[i].val
        /\ Value(s, k) = IF Hidden(s, i) THEN NULL ELSE s.item[i].val
    BY <2>1, <2>2, ValueOfLinked
  <2>4. QED
    BY <2>2, <2>3
<1>3. QED
  BY <1>1, <1>2

\* An item that is the same is hidden as before.
LEMMA SameHidden ==
  ASSUME NEW s, NEW t, NEW j, SameItem(s, t, j)
  PROVE  /\ Hidden(s, j) <=> Hidden(t, j)
         /\ t.item[j].key = s.item[j].key /\ t.item[j].val = s.item[j].val
<1>1. "DELETED" \in t.item[j].it_flags <=> "DELETED" \in s.item[j].it_flags
  BY DEF SameItem
<1>2. QED
  BY <1>1 DEF SameItem, Hidden, DeleteLocked, item_delete_lock_over, Flushed, Expired

\* Keys whose items are the same fade.
LEMMA SameItemsFade ==
  ASSUME NEW s, NEW t, NEW K, Table(s), Table(t),
         \A j \in Chunks : Linked(t, j) /\ t.item[j].key \notin K =>
           Linked(s, j) /\ SameItem(s, t, j)
  PROVE  KeysFade(s, t, K)
BY ItemsFade, SameHidden

\* No key shows anything new when the store fades.
LEMMA FadesKeys ==
  ASSUME NEW s, NEW t, NEW O, Table(s), Table(t), Fades(s, t, O)
  PROVE  KeysFade(s, t, {})
BY SameItemsFade DEF Fades

-----------------------------------------------------------------------------
(* The steps of Cache *)

\* The variables of Cache.
KV == [k \in Keys |-> Shown(k)]
Pend == [c \in Conns |-> IF citem[c] = NULL THEN NULL
                         ELSE [key |-> store.item[citem[c]].key, comm |-> item_comm[c]]]

\* KV at a key is its value, before and after a step that takes no time.
LEMMA ShownIsValue ==
  ASSUME NEW k \in Keys
  PROVE  /\ KV[k] = Value(store, k)
         /\ UNCHANGED timeVars => KV'[k] = Value(store', k)
<1>1. KV[k] = Value(store, k)
  BY DEF KV, Shown, Value, Hidden
<1>2. ASSUME UNCHANGED timeVars
      PROVE  KV'[k] = Value(store', k)
  BY <1>2 DEF KV, Shown, Value, Hidden, timeVars, DeleteLocked, item_delete_lock_over, Flushed,
              Expired
<1>3. QED
  BY <1>1, <1>2

\* The keys of the store fade as those of Cache do.
LEMMA OthersFade ==
  ASSUME NEW K, UNCHANGED timeVars, KeysFade(store, store', K)
  PROVE  Promise!OthersFade(K)
<1>1. \A k \in Keys \ K : KV'[k] \in {KV[k], NULL}
  BY ShownIsValue DEF KeysFade
<1>2. QED
  BY <1>1 DEF Promise!OthersFade, KV

\* Cache knows by its pending command that a connection reads an item.
LEMMA PendingReader ==
  ASSUME IInv, NEW c \in Conns, citem[c] # NULL
  PROVE  Pend[c] # NULL
<1>1. store.item[citem[c]].key \in Keys /\ item_comm[c] \in Comms \cup {NULL}
  BY DEF IInv, TypeOK, ItemHasKey
<1>2. QED
  BY <1>1, ItemStoreAssumption DEF Pend, Comms

\* The item that connection d reads, and with what command, stays what it is.
KeepsReading(d) ==
  /\ citem'[d] = citem[d]
  /\ citem[d] # NULL =>
       /\ item_comm'[d] = item_comm[d]
       /\ store'.item[citem[d]].key = store.item[citem[d]].key

\* Then Cache has the same pending command for it.
LEMMA SamePending ==
  ASSUME NEW d \in Conns, KeepsReading(d)
  PROVE  Pend'[d] = Pend[d]
BY DEF Pend, KeepsReading

\* A step in which values only disappear.
LEMMA FadeStep ==
  ASSUME UNCHANGED timeVars, KeysFade(store, store', {}), \A d \in Conns : KeepsReading(d)
  PROVE  Promise!Next
<1>1. Promise!OthersFade({})
  BY OthersFade
<1>2. Pend' = Pend
  BY SamePending DEF Pend
<1>3. Promise!Fade
  BY <1>1, <1>2 DEF Promise!Fade, Pend
<1>4. QED
  BY <1>3 DEF Promise!Next

\* A step that begins a store command.
LEMMA BeginStep ==
  ASSUME UNCHANGED timeVars, KeysFade(store, store', {}),
         NEW c \in Conns, \A d \in Conns \ {c} : KeepsReading(d),
         NEW k \in Keys, NEW comm \in Comms, citem[c] = NULL,
         citem'[c] # NULL, store'.item[citem'[c]].key = k, item_comm'[c] = comm
  PROVE  Promise!Next
<1>1. Promise!OthersFade({})
  BY OthersFade
<1>2. Pend[c] = NULL /\ Pend'[c] = [key |-> k, comm |-> comm]
  BY DEF Pend
<1>3. Pend' = [Pend EXCEPT ![c] = [key |-> k, comm |-> comm]]
  BY <1>2, SamePending DEF Pend
<1>4. Promise!Begin(c, k, comm)
  BY <1>1, <1>2, <1>3 DEF Promise!Begin, Pend
<1>5. QED
  BY <1>4 DEF Promise!Next

\* A step that ends a store command without effect.
LEMMA AbortStep ==
  ASSUME UNCHANGED timeVars, KeysFade(store, store', {}),
         NEW c \in Conns, \A d \in Conns \ {c} : KeepsReading(d),
         IInv, citem[c] # NULL, citem'[c] = NULL
  PROVE  Promise!Next
<1>1. Promise!OthersFade({})
  BY OthersFade
<1>2. Pend[c] # NULL /\ Pend'[c] = NULL
  <2>1. Pend'[c] = NULL
    BY DEF Pend
  <2>2. QED
    BY <2>1, PendingReader
<1>3. Pend' = [Pend EXCEPT ![c] = NULL]
  BY <1>2, SamePending DEF Pend
<1>4. Promise!Abort(c)
  BY <1>1, <1>2, <1>3 DEF Promise!Abort, Pend
<1>5. QED
  BY <1>4 DEF Promise!Next

\* A step that completes a store command: the key shows the value, or nothing.
LEMMA CommitStep ==
  ASSUME UNCHANGED timeVars, NEW c \in Conns, \A d \in Conns \ {c} : KeepsReading(d),
         IInv, citem[c] # NULL, citem'[c] = NULL,
         NEW k, k = store.item[citem[c]].key, KeysFade(store, store', {k}),
         item_comm[c] = "add" => Value(store, k) = NULL,
         item_comm[c] = "replace" => Value(store, k) # NULL,
         NEW v \in Vals, Value(store', k) \in {v, NULL}
  PROVE  Promise!Next
<1>1. k \in Keys
  BY DEF IInv, ItemHasKey
<1>2. Promise!OthersFade({k})
  BY OthersFade
<1>3. Pend[c] # NULL /\ Pend[c] = [key |-> k, comm |-> item_comm[c]] /\ Pend'[c] = NULL
  BY PendingReader DEF Pend
<1>4. Pend' = [Pend EXCEPT ![c] = NULL]
  BY <1>3, SamePending DEF Pend
<1>5. /\ Pend[c].key = k /\ Pend[c].comm = item_comm[c]
      /\ KV[k] = Value(store, k) /\ KV'[k] = Value(store', k)
  BY <1>1, <1>3, ShownIsValue
<1>6. Promise!Allowed(c)
  BY <1>5 DEF Promise!Allowed, Pend, KV
<1>7. Promise!Commit(c, v)
  BY <1>2, <1>3, <1>4, <1>5, <1>6 DEF Promise!Commit, Pend, KV
<1>8. QED
  BY <1>7 DEF Promise!Next

\* A step of incr or decr: a key that shows a value shows the new one, or nothing.
LEMMA ArithmeticStep ==
  ASSUME UNCHANGED timeVars, \A d \in Conns : KeepsReading(d),
         NEW k \in Keys, KeysFade(store, store', {k}), Value(store, k) # NULL,
         NEW v \in Vals, Value(store', k) \in {v, NULL}
  PROVE  Promise!Next
<1>1. Promise!OthersFade({k})
  BY OthersFade
<1>2. Pend' = Pend
  BY SamePending DEF Pend
<1>3. KV[k] = Value(store, k) /\ KV'[k] = Value(store', k)
  BY ShownIsValue
<1>4. Promise!Arithmetic(k, v)
  BY <1>1, <1>2, <1>3 DEF Promise!Arithmetic, KV, Pend
<1>5. QED
  BY <1>4 DEF Promise!Next

-----------------------------------------------------------------------------
(* The handlers *)

\* The table of a store that satisfies the invariant.
LEMMA SoundTables ==
  /\ RInv => Table(store) /\ Sound(store, Owned, current_time)
  /\ RInv' => Table(store')
BY DEF RInv, StoreSound, Sound

\* The pending commands of the others, when the items they read keep their keys.
LEMMA OthersRead ==
  ASSUME RInv, NEW c \in Conns, NEW x, NEW y,
         citem' = [citem EXCEPT ![c] = x], item_comm' = [item_comm EXCEPT ![c] = y],
         \A j \in Owned \ {citem[c]} : store'.item[j].key = store.item[j].key
  PROVE  \A d \in Conns \ {c} : KeepsReading(d)
<1> SUFFICES ASSUME NEW d \in Conns \ {c}
             PROVE  KeepsReading(d)
  OBVIOUS
<1>1. citem'[d] = citem[d] /\ item_comm'[d] = item_comm[d]
  BY DEF RInv, IInv, TypeOK
<1>2. ASSUME citem[d] # NULL
      PROVE  citem[d] \in Owned \ {citem[c]}
  BY <1>2 DEF Owned, RInv, OwnedApart
<1>3. QED
  BY <1>1, <1>2 DEF KeepsReading

\* The same for a step that begins and ends no command.
LEMMA AllRead ==
  ASSUME RInv, UNCHANGED <<citem, item_comm>>,
         \A j \in Owned : store'.item[j].key = store.item[j].key
  PROVE  \A d \in Conns : KeepsReading(d)
BY DEF KeepsReading, Owned

\* A step in which the store fades.
LEMMA StoreFades ==
  ASSUME RInv, RInv', UNCHANGED <<timeVars, citem, item_comm>>, Fades(store, store', Owned)
  PROVE  Promise!Next
<1>1. KeysFade(store, store', {})
  BY SoundTables, FadesKeys
<1>2. \A d \in Conns : KeepsReading(d)
  BY AllRead, RInvTypes DEF Fades, SameItem
<1>3. QED
  BY <1>1, <1>2, FadeStep

\* An item that was hidden stays hidden as time goes by, also through a flush.
LEMMA HiddenLater ==
  ASSUME TypeOK, TypeOK', UNCHANGED store, current_time <= current_time',
         oldest_live' \in {oldest_live, current_time'}, NEW i \in Chunks, Hidden(store, i)
  PROVE  Hidden(store, i)'
<1>1. /\ current_time \in Nat /\ current_time' \in Nat /\ oldest_live \in Nat
      /\ oldest_live' \in Nat
  BY RealtimeType DEF TypeOK, RelTime
<1>2. store.item[i].exptime \in Nat /\ store.item[i].time \in Nat
  <2>1. store.item[i] \in Item
    BY ItemTypes DEF TypeOK
  <2>2. QED
    BY <2>1, ItemsAssumption DEF Item
<1>3. CASE DeleteLocked(store, i)
  <2>1. "DELETED" \in store.item[i].it_flags /\ store.item[i].exptime > current_time
    BY <1>1, <1>2, <1>3 DEF DeleteLocked, item_delete_lock_over
  <2>2. \/ ~ current_time' >= store.item[i].exptime
        \/ store.item[i].exptime # 0 /\ store.item[i].exptime <= current_time'
    BY <1>1, <1>2, <2>1
  <2>3. QED
    BY <2>1, <2>2 DEF Hidden, DeleteLocked, item_delete_lock_over, Expired
<1>4. CASE Flushed(store, i)
  <2>1. oldest_live # 0 /\ oldest_live <= current_time /\ store.item[i].time <= oldest_live
    BY <1>4 DEF Flushed
  <2>2. /\ oldest_live' # 0 /\ oldest_live' <= current_time'
        /\ store.item[i].time <= oldest_live'
    BY <1>1, <1>2, <2>1
  <2>3. QED
    BY <2>2 DEF Hidden, Flushed
<1>5. CASE Expired(store, i)
  <2>1. store.item[i].exptime # 0 /\ store.item[i].exptime <= current_time'
    BY <1>1, <1>2, <1>5 DEF Expired
  <2>2. QED
    BY <2>1 DEF Hidden, Expired
<1>6. QED
  BY <1>3, <1>4, <1>5 DEF Hidden

\* A second passes, or a flush_all without a time.
LEMMA TimePasses ==
  ASSUME RInv, TypeOK', UNCHANGED <<store, citem, item_comm>>, current_time <= current_time',
         oldest_live' \in {oldest_live, current_time'}
  PROVE  Promise!Next
<1>1. ASSUME NEW k \in Keys
      PROVE  KV'[k] \in {KV[k], NULL}
  <2>1. assoc_find(store, k) # NULL => assoc_find(store, k) \in Chunks
    BY SoundTables, FindLinked
  <2>2. /\ KV[k] = Value(store, k)
        /\ KV'[k] = IF assoc_find(store, k) = NULL \/ Hidden(store, assoc_find(store, k))'
                    THEN NULL ELSE store.item[assoc_find(store, k)].val
    BY ShownIsValue DEF KV, Shown, Hidden
  <2>3. TypeOK
    BY DEF RInv, IInv
  <2>4. QED
    BY <2>1, <2>2, <2>3, HiddenLater DEF Value
<1>2. Promise!OthersFade({})
  BY <1>1 DEF Promise!OthersFade, KV
<1>3. Pend' = Pend
  BY DEF Pend
<1>4. Promise!Fade
  BY <1>2, <1>3 DEF Promise!Fade, Pend
<1>5. QED
  BY <1>4 DEF Promise!Next

\* Closing a connection ends the command whose data it was sending.
LEMMA ConnClosePromised ==
  ASSUME RInv, RInv', NEW c \in Conns, conn_close(c)
  PROVE  Promise!Next
<1>1. /\ UNCHANGED timeVars
      /\ store' = IF citem[c] = NULL THEN store ELSE item_free(store, citem[c])
      /\ citem' = [citem EXCEPT ![c] = NULL]
      /\ item_comm' = [item_comm EXCEPT ![c] = NULL]
  BY DEF conn_close
<1>2. citem'[c] = NULL
  BY <1>1 DEF RInv, IInv, TypeOK
<1>3. CASE citem[c] = NULL
  <2>1. KeysFade(store, store', {})
    BY <1>1, <1>3 DEF KeysFade
  <2>2. \A d \in Conns \ {c} : KeepsReading(d)
    BY <1>1, <1>3, OthersRead
  <2>3. KeepsReading(c)
    BY <1>2, <1>3 DEF KeepsReading
  <2>4. QED
    BY <1>1, <2>1, <2>2, <2>3, FadeStep
<1>4. CASE citem[c] # NULL
  <2> PICK i \in Chunks : i = citem[c]
    BY <1>4, RInvTypes
  <2>1. i \in Owned /\ ~ Linked(store, i)
    BY <1>4, RInvTypes, SoundTables DEF Sound, Placed, Live
  <2>2. /\ \A j \in Chunks \ {i} : SameItem(store, store', j)
        /\ \A j \in Chunks : Linked(store', j) <=> Linked(store, j)
    BY <1>1, <1>4, RInvTypes, FreeItems
  <2>3. KeysFade(store, store', {})
    BY <2>1, <2>2, SoundTables, SameItemsFade
  <2>4. \A d \in Conns \ {c} : KeepsReading(d)
    BY <1>1, <2>2, OthersRead, RInvTypes DEF SameItem
  <2>5. IInv
    BY DEF RInv
  <2>6. QED
    BY <1>1, <1>2, <1>4, <2>3, <2>4, <2>5, AbortStep
<1>5. QED
  BY <1>3, <1>4

\* Releasing an item of a response hides none.
LEMMA ReleasePromised ==
  ASSUME RInv, RInv', release_item
  PROVE  Promise!Next
<1> PICK c \in Conns : c = who
  BY DEF release_item, RInv, IInv, CallerIsConn
<1>1. /\ UNCHANGED timeVars /\ UNCHANGED <<citem, item_comm>>
      /\ icurr[c] < Len(ilist[c])
      /\ store' = item_remove(store, ilist[c][icurr[c] + 1].it)
  BY DEF release_item
<1>2. PICK i \in Chunks : i = ilist[c][icurr[c] + 1].it /\ Referenced(store, i)
  <2>1. icurr[c] \in Nat /\ ilist[c] \in Seq(Entry) /\ Len(ilist[c]) \in Nat
    BY DEF RInv, IInv, TypeOK
  <2>2. icurr[c] + 1 \in DOMAIN ilist[c] /\ icurr[c] + 1 > icurr[c]
    BY <1>1, <2>1
  <2>3. icurr[c] + 1 \in 1 .. MaxIList
    BY <1>1, <2>1, ItemStoreAssumption DEF RInv, InBounds
  <2> PICK i : i = ilist[c][icurr[c] + 1].it
    OBVIOUS
  <2>4. i \in Chunks
    <3>1. ilist[c][icurr[c] + 1] \in Entry
      BY <2>1, <2>2
    <3>2. QED
      BY <3>1 DEF Entry
  <2>5. <<c, icurr[c] + 1>> \in ResponseHolds(i)
    BY <2>2, <2>3 DEF ResponseHolds
  <2>6. TypeOK /\ RefcountIsHolds
    BY DEF RInv, IInv
  <2>7. QED
    BY <2>4, <2>5, <2>6, HeldIsReferenced
<1>3. Dropped(store, store', i, Owned)
  BY <1>1, <1>2, SoundTables, ItemRemoveSound
<1>4. KeysFade(store, store', {})
  BY <1>3, SoundTables, SameItemsFade DEF Dropped, Live
<1>5. \A d \in Conns : KeepsReading(d)
  BY <1>1, <1>3, AllRead, RInvTypes DEF Dropped, SameItem
<1>6. QED
  BY <1>1, <1>4, <1>5, FadeStep

\* set, add and replace begin with their line, when there is room for the data.
LEMMA CommandReplacePromised ==
  ASSUME RInv, RInv', NEW c \in Conns, NEW comm \in Comms, NEW k \in Keys, NEW len \in Lens,
         NEW exptime \in SetTimes, command_replace(c, comm, k, len, exptime)
  PROVE  Promise!Next
<1>1. UNCHANGED timeVars /\ state[c] = "conn_read"
  BY DEF command_replace, Ready
<1>2. PICK x \in ItemTimes : x = realtime(exptime, current_time)
  <2>1. exptime \in Int /\ current_time \in RelTime
    BY ItemStoreAssumption DEF RInv, IInv, TypeOK
  <2>2. QED
    BY <2>1, RealtimeType
<1>3. PICK o \in item_alloc(store, k, len, x) :
        /\ store' = o.s
        /\ IF o.it = NULL
           THEN UNCHANGED <<state, citem, item_comm>>
           ELSE /\ citem' = [citem EXCEPT ![c] = o.it]
                /\ item_comm' = [item_comm EXCEPT ![c] = comm]
  BY <1>2 DEF command_replace
<1>4. /\ Fades(store, store', Owned)
      /\ o.it # NULL => o.it \in Chunks /\ store'.item[o.it] = NewItem(k, len, x)
  <2>1. Sound(store, Owned, current_time)
    BY SoundTables
  <2>2. /\ Fades(store, o.s, Owned) /\ Spares(store, o.s)
        /\ \/ o.it = NULL /\ Sound(o.s, Owned, current_time)
           \/ /\ o.it \in Chunks /\ o.it \notin Owned
              /\ Sound(o.s, Owned \cup {o.it}, current_time)
              /\ o.s.item[o.it] = NewItem(k, len, x)
    BY <2>1, ItemAllocSound
  <2>3. store' = o.s
    BY <1>3
  <2>4. QED
    BY <2>2, <2>3
<1>5. CASE o.it = NULL
  BY <1>1, <1>3, <1>4, <1>5, StoreFades
<1>6. CASE o.it # NULL
  <2>1. citem[c] = NULL /\ citem'[c] = o.it /\ item_comm'[c] = comm
    BY <1>1, <1>3, <1>6 DEF RInv, IInv, TypeOK, OwnersRead
  <2>2. store'.item[o.it].key = k
    BY <1>4, <1>6 DEF NewItem, BlankItem
  <2>3. KeysFade(store, store', {})
    BY <1>4, SoundTables, FadesKeys
  <2>4. \A d \in Conns \ {c} : KeepsReading(d)
    BY <1>3, <1>4, <1>6, OthersRead, RInvTypes DEF Fades, SameItem
  <2>5. QED
    BY <1>1, <1>6, <2>1, <2>2, <2>3, <2>4, BeginStep
<1>7. QED
  BY <1>5, <1>6

\* What a lookup finds is what the key shows.
LEMMA LookupValue ==
  ASSUME NEW s, NEW O, NEW now, Sound(s, O, now), NEW k \in Keys
  PROVE  LET g == get_item_notedeleted(s, k)
         IN  /\ g.it = NULL => Value(s, k) = NULL
             /\ g.it # NULL =>
                  /\ g.it \in Chunks /\ g.s = s /\ Linked(s, g.it) /\ s.item[g.it].key = k
                  /\ ~ Hidden(s, g.it) /\ Value(s, k) = s.item[g.it].val /\ Value(s, k) # NULL
<1> DEFINE g == get_item_notedeleted(s, k)
           i == assoc_find(s, k)
<1>1. \/ /\ i \in Chunks /\ Linked(s, i) /\ s.item[i].key = k
         /\ \/ /\ ~ DeleteLocked(s, i) /\ ~ Flushed(s, i) /\ ~ Expired(s, i)
               /\ g = Found(s, i, FALSE)
            \/ DeleteLocked(s, i) /\ g = Found(s, NULL, TRUE)
            \/ ~ DeleteLocked(s, i) /\ (Flushed(s, i) \/ Expired(s, i)) /\ g.it = NULL
      \/ s.hashtable[k] = <<>> /\ g = Found(s, NULL, FALSE)
  BY LookupSound
<1>2. /\ g = Found(s, i, FALSE) => g.s = s /\ g.it = i
      /\ g = Found(s, NULL, TRUE) => g.it = NULL
      /\ g = Found(s, NULL, FALSE) => g.it = NULL
  BY DEF Found
<1>3. NULL \notin Chunks /\ NULL \notin Vals
  BY PoolAssumption, ItemStoreAssumption
<1>4. CASE s.hashtable[k] = <<>> /\ g.it = NULL
  <2>1. Value(s, k) = NULL
    BY <1>4 DEF Value, assoc_find
  <2>2. QED
    BY <1>4, <2>1
<1>5. CASE i \in Chunks /\ Linked(s, i) /\ s.item[i].key = k /\ ~ Hidden(s, i)
           /\ g.s = s /\ g.it = i
  <2>1. Value(s, k) = s.item[i].val
    BY <1>3, <1>5 DEF Value
  <2>2. s.item[i] \in Item
    BY <1>5, ItemTypes DEF Sound
  <2>3. s.item[i].val \in Vals
    BY <2>2 DEF Item
  <2>4. QED
    BY <1>3, <1>5, <2>1, <2>3
<1>6. CASE Hidden(s, i) /\ g.it = NULL
  <2>1. Value(s, k) = NULL
    BY <1>6 DEF Value
  <2>2. QED
    BY <1>6, <2>1
<1>7. QED
  BY <1>1, <1>2, <1>4, <1>5, <1>6 DEF Hidden

\* Giving back the chunk a connection reads into changes no key.
LEMMA GiveBackFades ==
  ASSUME NEW s, NEW O, NEW now, Sound(s, O, now), NEW i \in Chunks, i \in O
  PROVE  KeysFade(s, item_free(s, i), {})
<1> PICK t : t = item_free(s, i)
  OBVIOUS
<1>1. Table(s) /\ Table(t) /\ s \in Store
  BY GiveBack DEF Sound
<1>2. ~ Linked(s, i)
  BY DEF Sound, Placed, Live
<1>3. /\ \A j \in Chunks \ {i} : SameItem(s, t, j)
      /\ \A j \in Chunks : Linked(t, j) <=> Linked(s, j)
  BY <1>1, FreeItems
<1>4. QED
  BY <1>1, <1>2, <1>3, SameItemsFade

\* Nor does touching an item that is shown.
LEMMA TouchFades ==
  ASSUME NEW s, NEW O, NEW i \in Chunks, current_time \in ItemTimes, Sound(s, O, current_time),
         Linked(s, i), ~ Hidden(s, i)
  PROVE  KeysFade(s, item_update(s, i, current_time), {})
<1> PICK t : t = item_update(s, i, current_time)
  OBVIOUS
<1>1. /\ Sound(t, O, current_time) /\ \A j \in Chunks \ {i} : SameItem(s, t, j)
      /\ \A j \in Chunks : Linked(t, j) <=> Linked(s, j)
      /\ UsedNow(s, t, i, current_time)
  BY ItemUpdateSound
<1>2. Table(s) /\ Table(t)
  BY <1>1 DEF Sound
<1>3. ASSUME NEW j \in Chunks, Linked(t, j)
      PROVE  /\ Linked(s, j) /\ t.item[j].key = s.item[j].key /\ t.item[j].val = s.item[j].val
             /\ Hidden(s, j) => Hidden(t, j)
  <2>1. CASE j = i
    BY <1>1, <2>1 DEF UsedNow
  <2>2. CASE j # i
    BY <1>1, <1>3, <2>2, SameHidden
  <2>3. QED
    BY <2>1, <2>2
<1>4. QED
  BY <1>2, <1>3, ItemsFade

\* A lookup makes keys fade at most.
LEMMA LookupFades ==
  ASSUME NEW s, NEW O, NEW now, Sound(s, O, now), NEW k \in Keys
  PROVE  KeysFade(s, get_item_notedeleted(s, k).s, {})
<1>1. /\ Sound(get_item_notedeleted(s, k).s, O, now)
      /\ Fades(s, get_item_notedeleted(s, k).s, O)
  BY LookupSound
<1>2. QED
  BY <1>1, FadesKeys DEF Sound

\* A key that a new item is linked with shows its value, or nothing; the others fade.
LEMMA NewShows ==
  ASSUME NEW s, NEW t, Table(s), Table(t), NEW i \in Chunks, NEW k \in Keys, NEW v,
         LinksNew(s, t, i, k, v)
  PROVE  KeysFade(s, t, {k}) /\ Value(t, k) \in {v, NULL}
<1>1. /\ Linked(t, i) /\ t.item[i].key = k /\ t.item[i].val = v
      /\ \A j \in Chunks \ {i} : Linked(t, j) => Linked(s, j) /\ SameItem(s, t, j)
  BY DEF LinksNew
<1>2. Value(t, k) \in {v, NULL}
  BY <1>1, ValueOfLinked
<1>3. KeysFade(s, t, {k})
  BY <1>1, SameItemsFade
<1>4. QED
  BY <1>2, <1>3

\* The end of a store command: nothing new is shown, or add and replace were
\* allowed and the key shows the new value.
LEMMA CompletionFades ==
  ASSUME NEW s, NEW O, NEW k \in Keys, NEW it \in Chunks, NEW comm, NEW good,
         current_time \in ItemTimes, Sound(s, O, current_time), it \in O,
         s.item[it].key = k, s.item[it].it_flags = {},
         NEW g, g = get_item_notedeleted(s, k),
         NEW t, t = IF ~ good THEN item_free(s, it)
                    ELSE IF Refused(g, comm) THEN item_free(Touched(g, comm), it)
                    ELSE Stored(g, k, it)
  PROVE  \/ KeysFade(s, t, {})
         \/ /\ KeysFade(s, t, {k}) /\ Value(t, k) \in {s.item[it].val, NULL}
            /\ comm = "add" => Value(s, k) = NULL
            /\ comm = "replace" => Value(s, k) # NULL
<1>1. CASE ~ good
  <2>1. KeysFade(s, t, {})
    BY <1>1, GiveBackFades
  <2>2. QED
    BY <2>1
<1>2. CASE good /\ Refused(g, comm)
  <2>1. PICK u : u = Touched(g, comm)
    OBVIOUS
  <2>2. Sound(u, O, current_time) /\ KeysFade(s, u, {})
    <3>1. CASE g.it # NULL /\ comm = "add"
      <4>1. g.it \in Chunks /\ Linked(s, g.it) /\ ~ Hidden(s, g.it) /\ g.s = s
        BY <3>1, LookupValue
      <4>2. u = item_update(s, g.it, current_time)
        BY <2>1, <3>1, <4>1 DEF Touched
      <4>3. QED
        BY <4>1, <4>2, TouchFades, ItemUpdateSound
    <3>2. CASE ~ (g.it # NULL /\ comm = "add")
      <4>1. u = g.s
        BY <2>1, <3>2 DEF Touched
      <4>2. QED
        BY <4>1, LookupSound, LookupFades
    <3>3. QED
      BY <3>1, <3>2
  <2>3. t = item_free(u, it)
    BY <1>2, <2>1
  <2>4. KeysFade(u, t, {})
    BY <2>2, <2>3, GiveBackFades
  <2>5. KeysFade(s, t, {})
    BY <2>2, <2>4, KeysFadeTrans
  <2>6. QED
    BY <2>5
<1>3. CASE good /\ ~ Refused(g, comm)
  <2>1. t = Stored(g, k, it)
    BY <1>3
  <2>2. Sound(t, O \ {it}, current_time) /\ LinksNew(s, t, it, k, s.item[it].val)
    BY <1>3, <2>1, StoredSound
  <2>3. Table(s) /\ Table(t)
    BY <2>2 DEF Sound
  <2>4. KeysFade(s, t, {k}) /\ Value(t, k) \in {s.item[it].val, NULL}
    BY <2>2, <2>3, NewShows
  <2>5. /\ g.it = NULL => Value(s, k) = NULL
        /\ g.it # NULL => Value(s, k) # NULL
    BY LookupValue
  <2>6. /\ comm = "add" => g.it = NULL
        /\ comm = "replace" => g.it # NULL
    BY <1>3 DEF Refused
  <2>7. QED
    BY <2>4, <2>5, <2>6
<1>4. QED
  BY <1>1, <1>2, <1>3

\* The end of a command that stores is where Cache commits or aborts it.
LEMMA CompleteNreadPromised ==
  ASSUME RInv, RInv', NEW c \in Conns, NEW val \in Vals, NEW good \in BOOLEAN,
         complete_nread(c, val, good)
  PROVE  Promise!Next
<1>1. /\ citem \in [Conns -> Chunks \cup {NULL}] /\ state[c] = "conn_nread"
      /\ NULL \notin Chunks /\ current_time \in ItemTimes
      /\ fn = "ae_loop" /\ UNCHANGED timeVars
      /\ citem' = [citem EXCEPT ![c] = NULL] /\ item_comm' = [item_comm EXCEPT ![c] = NULL]
  BY RInvTypes DEF complete_nread, RInv, IInv, TypeOK
<1>2. citem[c] # NULL /\ citem'[c] = NULL
  <2>1. ReaderHasItem
    BY DEF RInv, IInv
  <2>2. QED
    BY <1>1, <2>1 DEF ReaderHasItem
<1> PICK it \in Chunks : it = citem[c]
  BY <1>1, <1>2
<1> PICK k \in Keys : k = store.item[it].key
  BY <1>2 DEF RInv, IInv, ItemHasKey
<1>3. PICK s : s = [store EXCEPT !.item[it].val = val]
  OBVIOUS
<1>4. PICK g : g = get_item_notedeleted(s, k)
  OBVIOUS
<1>5. store' = IF ~ good THEN item_free(s, it)
               ELSE IF Refused(g, item_comm[c]) THEN item_free(Touched(g, item_comm[c]), it)
               ELSE Stored(g, k, it)
  BY <1>3, <1>4 DEF complete_nread
<1>6. /\ it \in Owned /\ Sound(store, Owned, current_time) /\ store \in Store
      /\ store.item[it].it_flags = {} /\ ~ Linked(store, it)
  <2>1. it \in Owned /\ Sound(store, Owned, current_time) /\ store.item[it].it_flags = {}
    BY <1>2, RInvTypes DEF RInv, StoreSound, OwnersRead
  <2>2. QED
    BY <2>1 DEF Sound, Placed, Live
<1>7. Sound(s, Owned, current_time) /\ Revalued(store, s, it)
  BY <1>3, <1>6, ValSound
<1>8. /\ \A j \in Chunks \ {it} : SameItem(store, s, j)
      /\ \A j \in Chunks : Linked(s, j) <=> Linked(store, j)
      /\ s.item[it].key = k /\ s.item[it].it_flags = {} /\ s.item[it].val = val
  <2>1. store.item \in [Chunks -> Item] /\ store.item[it] \in Item
    BY <1>6 DEF Store
  <2>2. s.item[it].val = val
    BY <1>3, <1>6, <2>1 DEF Store, Item
  <2>3. QED
    BY <1>6, <1>7, <2>2 DEF Revalued
<1>9. /\ KeysFade(store, s, {}) /\ KeysFade(s, store, {})
  <2>1. Table(store) /\ Table(s)
    BY <1>6, <1>7 DEF Sound
  <2>2. \A j \in Chunks \ {it} : SameItem(s, store, j)
    BY <1>8 DEF SameItem
  <2>3. QED
    BY <1>6, <1>8, <2>1, <2>2, SameItemsFade
<1>10. \/ KeysFade(s, store', {})
       \/ /\ KeysFade(s, store', {k}) /\ Value(store', k) \in {val, NULL}
          /\ item_comm[c] = "add" => Value(s, k) = NULL
          /\ item_comm[c] = "replace" => Value(s, k) # NULL
  <2>1. s.item[it].key = k /\ s.item[it].it_flags = {} /\ s.item[it].val = val
    BY <1>8
  <2>2. PICK t, comm : t = store' /\ comm = item_comm[c]
    OBVIOUS
  <2>3. t = IF ~ good THEN item_free(s, it)
            ELSE IF Refused(g, comm) THEN item_free(Touched(g, comm), it)
            ELSE Stored(g, k, it)
    BY <1>5, <2>2
  <2>4. current_time \in ItemTimes /\ Sound(s, Owned, current_time) /\ it \in Owned
    BY <1>1, <1>6, <1>7
  <2>5. \/ KeysFade(s, t, {})
        \/ /\ KeysFade(s, t, {k}) /\ Value(t, k) \in {s.item[it].val, NULL}
           /\ comm = "add" => Value(s, k) = NULL
           /\ comm = "replace" => Value(s, k) # NULL
    BY <1>4, <2>1, <2>3, <2>4, CompletionFades
  <2>6. QED
    BY <2>1, <2>2, <2>5
<1>11. \A d \in Conns \ {c} : KeepsReading(d)
  <2>1. Passes(s, store', Owned \ {it})
    BY <1>1, <1>4, <1>5, <1>6, <1>7, <1>8, CompletionSound
  <2>2. \A j \in Owned \ {it} : store'.item[j].key = store.item[j].key
    BY <1>8, <2>1, RInvTypes DEF Passes, SameItem
  <2>3. QED
    BY <1>1, <2>2, OthersRead
<1>12. CASE KeysFade(s, store', {})
  <2>1. KeysFade(store, store', {})
    BY <1>9, <1>12, KeysFadeTrans
  <2>2. QED
    BY <1>1, <1>2, <1>11, <2>1, AbortStep DEF RInv
<1>13. CASE /\ KeysFade(s, store', {k}) /\ Value(store', k) \in {val, NULL}
            /\ item_comm[c] = "add" => Value(s, k) = NULL
            /\ item_comm[c] = "replace" => Value(s, k) # NULL
  <2>1. KeysFade(store, s, {k}) /\ KeysFade(s, store, {})
        /\ Value(s, k) \in {Value(store, k), NULL} /\ Value(store, k) \in {Value(s, k), NULL}
    BY <1>9 DEF KeysFade
  <2>2. KeysFade(store, store', {k})
    BY <1>13, <2>1, KeysFadeTrans
  <2>3. /\ item_comm[c] = "add" => Value(store, k) = NULL
        /\ item_comm[c] = "replace" => Value(store, k) # NULL
    BY <1>13, <2>1
  <2>4. IInv
    BY DEF RInv
  <2>5. QED
    BY <1>1, <1>2, <1>11, <1>13, <2>2, <2>3, <2>4, CommitStep
<1>14. QED
  BY <1>10, <1>12, <1>13

\* A get that takes a reference to the item it found, and touches it.
LEMMA GetFades ==
  ASSUME NEW s, NEW O, NEW i \in Chunks, current_time \in ItemTimes, Sound(s, O, current_time),
         Linked(s, i), ~ Hidden(s, i), s.item[i].refcount < RefMod - 1,
         NEW t, t = item_update(AddRef(s, i), i, current_time)
  PROVE  /\ Sound(t, O, current_time) /\ KeysFade(s, t, {})
         /\ \A j \in Chunks : t.item[j].key = s.item[j].key
<1>1. PICK u : u = AddRef(s, i)
  OBVIOUS
<1>2. Sound(u, O, current_time) /\ Taking(s, u, i)
  BY <1>1, TakingSound
<1>3. \A j \in Chunks : SameItem(s, u, j) /\ (Linked(u, j) <=> Linked(s, j))
  BY <1>2 DEF Taking
<1>4. Linked(u, i) /\ ~ Hidden(u, i)
  BY <1>3, SameHidden
<1>5. KeysFade(s, u, {})
  BY <1>2, <1>3, SameItemsFade DEF Sound
<1>6. t = item_update(u, i, current_time)
  BY <1>1
<1>7. /\ Sound(t, O, current_time) /\ \A j \in Chunks \ {i} : SameItem(u, t, j)
      /\ UsedNow(u, t, i, current_time)
  BY <1>2, <1>4, <1>6, ItemUpdateSound
<1>8. KeysFade(u, t, {})
  BY <1>2, <1>4, <1>6, TouchFades
<1>9. KeysFade(s, t, {})
  BY <1>5, <1>8, KeysFadeTrans
<1>10. \A j \in Chunks : t.item[j].key = s.item[j].key
  BY <1>3, <1>7 DEF UsedNow, SameItem
<1>11. QED
  BY <1>7, <1>9, <1>10

\* It changes no value.
LEMMA GetPromised ==
  ASSUME RInv, RInv', UNCHANGED timeVars, UNCHANGED <<citem, item_comm>>,
         NEW i \in Chunks, Linked(store, i), ~ Hidden(store, i),
         store.item[i].refcount < RefMod - 1,
         store' = item_update(AddRef(store, i), i, current_time)
  PROVE  Promise!Next
<1>1. Sound(store, Owned, current_time) /\ current_time \in ItemTimes
  BY SoundTables, RInvTypes
<1>2. KeysFade(store, store', {}) /\ \A j \in Chunks : store'.item[j].key = store.item[j].key
  BY <1>1, GetFades
<1>3. \A d \in Conns : KeepsReading(d)
  BY <1>2, AllRead, RInvTypes
<1>4. QED
  BY <1>2, <1>3, FadeStep

\* A get changes no value: it hides what its lookup finds expired or flushed.
LEMMA CommandGetKeyPromised ==
  ASSUME RInv, RInv', \A i \in Chunks : store.item[i].refcount < RefMod - 1,
         NEW k \in Keys, command_get_key(k)
  PROVE  Promise!Next
<1>1. UNCHANGED timeVars /\ UNCHANGED <<citem, item_comm>>
  BY DEF command_get_key
<1> PICK g : g = get_item_notedeleted(store, k)
  OBVIOUS
<1>2. Sound(store, Owned, current_time) /\ current_time \in ItemTimes
  BY SoundTables, RInvTypes
<1>3. CASE g.it = NULL
  <2>1. store' = g.s
    BY <1>3 DEF command_get_key, get_item
  <2>2. Fades(store, store', Owned)
    BY <1>2, <2>1, LookupSound
  <2>3. QED
    BY <1>1, <2>2, StoreFades
<1>4. CASE g.it # NULL
  <2>1. g.it \in Chunks /\ g.s = store /\ Linked(store, g.it) /\ ~ Hidden(store, g.it)
    BY <1>2, <1>4, LookupValue
  <2>2. store' = item_update(AddRef(store, g.it), g.it, current_time)
    BY <1>4, <2>1 DEF command_get_key, get_item
  <2>3. QED
    BY <1>1, <2>1, <2>2, GetPromised
<1>5. QED
  BY <1>3, <1>4

\* A value that incr or decr changes in place.
LEMMA RevaluedShows ==
  ASSUME NEW s, NEW O, NEW now, NEW i \in Chunks, NEW v \in Vals, Sound(s, O, now),
         NEW k \in Keys, Linked(s, i), s.item[i].key = k,
         NEW t, t = [s EXCEPT !.item[i].val = v]
  PROVE  LinksNew(s, t, i, k, v) /\ \A j \in Chunks : t.item[j].key = s.item[j].key
<1>1. Revalued(s, t, i)
  BY ValSound
<1>2. t.item[i].val = v
  <2>1. s.item \in [Chunks -> Item] /\ s.item[i] \in Item /\ s \in Store
    BY DEF Sound, Store
  <2>2. QED
    BY <2>1 DEF Store, Item
<1>3. QED
  BY <1>1, <1>2 DEF Revalued, LinksNew

\* A step that leaves a key with a new value, where it showed one.
LEMMA NewPromised ==
  ASSUME RInv, RInv', UNCHANGED timeVars, UNCHANGED <<citem, item_comm>>,
         NEW k \in Keys, NEW v \in Vals, NEW n \in Chunks, Value(store, k) # NULL,
         LinksNew(store, store', n, k, v),
         \A j \in Owned : store'.item[j].key = store.item[j].key
  PROVE  Promise!Next
<1>1. KeysFade(store, store', {k}) /\ Value(store', k) \in {v, NULL}
  BY SoundTables, NewShows
<1>2. \A d \in Conns : KeepsReading(d)
  BY AllRead
<1>3. QED
  BY <1>1, <1>2, ArithmeticStep

\* The longer number is the new value, if there is room for it.
LEMMA RegrownPromised ==
  ASSUME RInv, RInv', UNCHANGED timeVars, UNCHANGED <<citem, item_comm>>,
         NEW k \in Keys, NEW i \in Chunks, Value(store, k) # NULL,
         Linked(store, i), store.item[i].key = k, ~ DeleteLocked(store, i),
         NEW len \in Lens, NEW x \in ItemTimes, NEW v \in Vals,
         NEW o \in item_alloc(store, k, len, x),
         store' = IF o.it = NULL THEN o.s
                  ELSE item_replace([o.s EXCEPT !.item[o.it].val = v], i, o.it, current_time)
  PROVE  Promise!Next
<1>1. Sound(store, Owned, current_time) /\ current_time \in ItemTimes
  BY SoundTables, RInvTypes
<1>2. /\ Fades(store, o.s, Owned) /\ Spares(store, o.s)
      /\ \/ o.it = NULL /\ Sound(o.s, Owned, current_time)
         \/ /\ o.it \in Chunks /\ o.it \notin Owned
            /\ Sound(o.s, Owned \cup {o.it}, current_time)
            /\ o.s.item[o.it] = NewItem(k, len, x)
  BY <1>1, ItemAllocSound
<1>3. CASE o.it = NULL
  <2>1. Fades(store, store', Owned)
    BY <1>2, <1>3
  <2>2. QED
    BY <2>1, StoreFades
<1>4. CASE o.it # NULL
  <2> PICK t : t = store'
    OBVIOUS
  <2>1. t = item_replace([o.s EXCEPT !.item[o.it].val = v], i, o.it, current_time)
    BY <1>4
  <2>2. NoRetry \/ ~ (Linked(t, i) /\ "SLABBED" \in t.item[i].it_flags)
    BY DEF RInv, LinkedIsNotSlabbed
  <2>3. Passes(store, t, Owned) /\ LinksNew(store, t, o.it, k, v)
    BY <1>1, <1>4, <2>1, <2>2, RegrownSound
  <2>4. \A j \in Owned : store'.item[j].key = store.item[j].key
    BY <2>3, RInvTypes DEF Passes, SameItem
  <2>5. o.it \in Chunks
    BY <1>2, <1>4
  <2>6. QED
    BY <2>3, <2>4, <2>5, NewPromised
<1>5. QED
  BY <1>3, <1>4

\* incr and decr are arithmetic on a value that is shown, unless there is none,
\* or no room for the longer number.
LEMMA CommandVaryDeltaPromised ==
  ASSUME RInv, RInv', NEW c \in Conns, NEW k \in Keys, NEW incr \in BOOLEAN,
         NEW delta \in Deltas, command_vary_delta(c, k, incr, delta)
  PROVE  Promise!Next
<1>1. UNCHANGED timeVars /\ UNCHANGED <<citem, item_comm>>
  BY DEF command_vary_delta, connVars
<1> PICK g : g = get_item_notedeleted(store, k)
  OBVIOUS
<1>2. /\ Sound(store, Owned, current_time) /\ current_time \in ItemTimes
      /\ Table(store) /\ Table(store')
  BY SoundTables, RInvTypes
<1>3. CASE g.it = NULL
  <2>1. store' = g.s
    BY <1>3 DEF command_vary_delta, get_item
  <2>2. Fades(store, store', Owned)
    BY <1>2, <2>1, LookupSound
  <2>3. QED
    BY <1>1, <2>2, StoreFades
<1>4. CASE g.it # NULL
  <2>1. /\ g.it \in Chunks /\ g.s = store /\ Linked(store, g.it) /\ store.item[g.it].key = k
        /\ Value(store, k) # NULL
    BY <1>2, <1>4, LookupValue
  <2>2. ~ DeleteLocked(store, g.it)
    BY <1>2, <1>4, LookupFinds
  <2> PICK i \in Chunks : i = g.it
    BY <2>1
  <2>3. PICK v \in Vals :
          /\ DataLen[v] \in Lens /\ store.item[i].exptime \in ItemTimes
          /\ \/ \E o \in item_alloc(store, k, DataLen[v], store.item[i].exptime) :
                  store' = IF o.it = NULL THEN o.s
                           ELSE item_replace([o.s EXCEPT !.item[o.it].val = v],
                                             i, o.it, current_time)
             \/ store' = [store EXCEPT !.item[i].val = v]
    <3> PICK v : v = NewValue(incr, store.item[i].val, delta)
      OBVIOUS
    <3>1. \/ \E o \in item_alloc(store, k, DataLen[v], store.item[i].exptime) :
                store' = IF o.it = NULL THEN o.s
                         ELSE item_replace([o.s EXCEPT !.item[o.it].val = v],
                                           i, o.it, current_time)
          \/ store' = [store EXCEPT !.item[i].val = v]
      BY <1>4, <2>1 DEF command_vary_delta, get_item
    <3>2. store.item[i] \in Item
      BY RInvTypes, ItemTypes
    <3>3. store.item[i].val \in Vals /\ store.item[i].exptime \in ItemTimes
      BY <3>2 DEF Item
    <3>4. v \in Vals
      BY <3>3, NewValueType
    <3>5. QED
      BY <3>1, <3>3, <3>4, ItemStoreAssumption
  <2>4. CASE store' = [store EXCEPT !.item[i].val = v]
    <3>1. /\ LinksNew(store, store', i, k, v)
          /\ \A j \in Chunks : store'.item[j].key = store.item[j].key
      BY <1>2, <2>1, <2>4, RevaluedShows
    <3>2. QED
      BY <1>1, <2>1, <3>1, RInvTypes, NewPromised
  <2>5. CASE \E o \in item_alloc(store, k, DataLen[v], store.item[i].exptime) :
               store' = IF o.it = NULL THEN o.s
                        ELSE item_replace([o.s EXCEPT !.item[o.it].val = v],
                                          i, o.it, current_time)
    BY <1>1, <2>1, <2>2, <2>3, <2>5, RegrownPromised
  <2>6. QED
    BY <2>3, <2>4, <2>5
<1>5. QED
  BY <1>3, <1>4

\* A lock leaves the value.
LEMMA LockedVal ==
  ASSUME NEW s \in Store, NEW i \in Chunks, NEW x,
         NEW t, t = [s EXCEPT !.item[i].exptime = x, !.item[i].it_flags = @ \cup {"DELETED"}]
  PROVE  t.item[i].val = s.item[i].val
<1>1. s.item[i] \in Item /\ s.item \in [Chunks -> Item]
  BY DEF Store
<1> PICK w : w = s.item[i].it_flags \cup {"DELETED"}
  OBVIOUS
<1> PICK r : r = [s.item[i] EXCEPT !.exptime = x, !.it_flags = w]
  OBVIOUS
<1>2. r.val = s.item[i].val
  BY <1>1 DEF Item
<1>3. t.item = [s.item EXCEPT ![i] = r]
  BY <1>1 DEF Store
<1>4. QED
  BY <1>1, <1>2, <1>3

\* An item that is shown comes under a lock: no key shows anything new.
LEMMA LockPromised ==
  ASSUME RInv, RInv', UNCHANGED timeVars, UNCHANGED <<citem, item_comm>>,
         NEW i \in Chunks, Linked(store, i), ~ Hidden(store, i),
         store.item[i].refcount < RefMod - 1, NEW x \in ItemTimes,
         store' = [AddRef(store, i) EXCEPT !.item[i].exptime = x,
                                           !.item[i].it_flags = @ \cup {"DELETED"}]
  PROVE  Promise!Next
<1>1. Sound(store, Owned, current_time) /\ Table(store) /\ Table(store')
  BY SoundTables
<1>2. PICK u : u = AddRef(store, i)
  OBVIOUS
<1>3. Sound(u, Owned, current_time) /\ Taking(store, u, i)
  BY <1>1, <1>2, TakingSound
<1>4. store' = [u EXCEPT !.item[i].exptime = x, !.item[i].it_flags = @ \cup {"DELETED"}]
  BY <1>2
<1>5. Relocking(u, store', i, x, TRUE)
  BY <1>3, <1>4, LockSound
<1>6. store'.item[i].val = u.item[i].val
  <2>1. u \in Store
    BY <1>3 DEF Sound
  <2>2. PICK t : t = store'
    OBVIOUS
  <2>3. t = [u EXCEPT !.item[i].exptime = x, !.item[i].it_flags = @ \cup {"DELETED"}]
    BY <1>4, <2>2
  <2>4. t.item[i].val = u.item[i].val
    BY <2>1, <2>3, LockedVal
  <2>5. QED
    BY <2>2, <2>4
<1>7. \A j \in Chunks : /\ SameItem(store, u, j) /\ (Linked(u, j) <=> Linked(store, j))
                        /\ Linked(store', j) <=> Linked(u, j)
                        /\ store'.item[j].key = u.item[j].key
  BY <1>3, <1>5 DEF Taking, Relocking
<1>8. ASSUME NEW j \in Chunks, Linked(store', j)
      PROVE  /\ Linked(store, j) /\ store'.item[j].key = store.item[j].key
             /\ store'.item[j].val = store.item[j].val
             /\ Hidden(store, j) => Hidden(store', j)
  <2>1. CASE j = i
    BY <1>6, <1>7, <2>1 DEF SameItem
  <2>2. CASE j # i
    <3>1. SameItem(store, u, j) /\ SameItem(u, store', j)
      BY <1>5, <1>7, <2>2 DEF Relocking
    <3>2. (Hidden(store, j) <=> Hidden(u, j)) /\ (Hidden(u, j) <=> Hidden(store', j))
      BY <3>1, SameHidden
    <3>3. QED
      BY <1>7, <1>8, <3>1, <3>2 DEF SameItem
  <2>3. QED
    BY <2>1, <2>2
<1>9. KeysFade(store, store', {})
  BY <1>1, <1>8, ItemsFade
<1>10. \A d \in Conns : KeepsReading(d)
  BY <1>7, AllRead, RInvTypes DEF SameItem
<1>11. QED
  BY <1>9, <1>10, FadeStep

\* A delete hides its key, at once or until the timer takes the item out.
LEMMA DeleteHandlerPromised ==
  ASSUME RInv, RInv', \A i \in Chunks : store.item[i].refcount < RefMod - 1,
         NEW c \in Conns, NEW k \in Keys, NEW t \in DelTimes, delete_handler(c, k, t)
  PROVE  Promise!Next
<1>1. UNCHANGED timeVars /\ UNCHANGED <<citem, item_comm>>
  BY DEF delete_handler, connVars
<1> PICK g : g = get_item_notedeleted(store, k)
  OBVIOUS
<1>2. Sound(store, Owned, current_time)
  BY SoundTables
<1>3. CASE store' = g.s
  <2>1. Fades(store, store', Owned)
    BY <1>2, <1>3, LookupSound
  <2>2. QED
    BY <1>1, <2>1, StoreFades
<1>4. CASE g.it # NULL /\ store' # g.s
  <2>1. g.it \in Chunks /\ g.s = store /\ Linked(store, g.it) /\ ~ Hidden(store, g.it)
    BY <1>2, <1>4, LookupValue
  <2> PICK i \in Chunks : i = g.it
    BY <2>1
  <2>2. CASE store' = item_unlink(store, i)
    <3>1. i \notin Owned /\ PageOf[i] \in store.pages
      BY <1>2, <2>1 DEF Sound, Placed, Live
    <3>2. Fades(store, store', Owned)
      BY <1>2, <2>2, <3>1, ItemUnlinkSound
    <3>3. QED
      BY <1>1, <3>2, StoreFades
  <2>3. CASE store' = [AddRef(store, i) EXCEPT
                         !.item[i].exptime = realtime(t, current_time),
                         !.item[i].it_flags = @ \cup {"DELETED"}]
    <3>1. PICK x \in ItemTimes : x = realtime(t, current_time)
      <4>1. t \in Int /\ current_time \in RelTime
        BY ItemStoreAssumption DEF RInv, IInv, TypeOK
      <4>2. QED
        BY <4>1, RealtimeType
    <3>2. store' = [AddRef(store, i) EXCEPT !.item[i].exptime = x,
                                            !.item[i].it_flags = @ \cup {"DELETED"}]
      BY <2>3, <3>1
    <3>3. QED
      BY <1>1, <2>1, <3>2, LockPromised
  <2>4. QED
    BY <1>4, <2>1, <2>2, <2>3 DEF delete_handler, get_item
<1>5. g.it = NULL => store' = g.s
  BY DEF delete_handler, get_item
<1>6. QED
  BY <1>3, <1>4, <1>5

\* The timer takes an item out, or keeps it.
LEMMA TimerDropPromised ==
  ASSUME RInv, RInv', UNCHANGED timeVars, UNCHANGED <<citem, item_comm>>,
         NEW i \in Chunks, Referenced(store, i),
         store' = item_remove(item_unlink(
                    [store EXCEPT !.item[i].it_flags = @ \ {"DELETED"}], i), i)
  PROVE  Promise!Next
<1>1. Sound(store, Owned, current_time) /\ Table(store) /\ Table(store')
  BY SoundTables
<1>2. TimerDrops(store, store', i, Owned)
  BY <1>1, TimerDropSound
<1>3. KeysFade(store, store', {})
  BY <1>1, <1>2, SameItemsFade DEF TimerDrops, Live
<1>4. i \notin Owned
  BY <1>1 DEF Sound, Placed, Live
<1>5. \A j \in Owned : store'.item[j].key = store.item[j].key
  BY <1>2, <1>4, RInvTypes DEF TimerDrops, SameItem
<1>6. \A d \in Conns : KeepsReading(d)
  BY <1>5, AllRead
<1>7. QED
  BY <1>3, <1>6, FadeStep

LEMMA TimerStepPromised ==
  ASSUME RInv, RInv', timer_delete_step
  PROVE  Promise!Next
<1>1. /\ UNCHANGED timeVars /\ UNCHANGED <<citem, item_comm>>
      /\ fn = "timer_delete_handler" /\ ti < Len(todelete)
  BY DEF timer_delete_step, connVars
<1>2. /\ todelete \in Seq(Chunks) /\ Len(todelete) \in Nat /\ ti \in Nat
  BY DEF RInv, IInv, TypeOK
<1> PICK n \in Nat : n = ti + 1
  BY <1>2
<1>3. n \in 1 .. Len(todelete) /\ todelete[n] \in Chunks
  BY <1>1, <1>2
<1> PICK i \in Chunks : i = todelete[n]
  BY <1>3
<1>4. n \in QueueHolds(i)
  BY <1>2, <1>3 DEF QueueHolds, QueueLive
<1>5. Referenced(store, i)
  BY <1>4, HeldIsReferenced DEF RInv, IInv
<1>6. CASE store' = item_remove(item_unlink(
                      [store EXCEPT !.item[i].it_flags = @ \ {"DELETED"}], i), i)
  BY <1>1, <1>5, <1>6, TimerDropPromised
<1>7. CASE UNCHANGED store
  BY <1>1, <1>7, FadesSelf, StoreFades
<1>8. QED
  BY <1>6, <1>7 DEF timer_delete_step

\* A step that touches neither the store nor what a connection reads.
LEMMA QuietPromised ==
  ASSUME RInv, RInv', UNCHANGED <<store, timeVars, citem, item_comm>>
  PROVE  Promise!Next
BY FadesSelf, StoreFades

-----------------------------------------------------------------------------
(* The refinement *)

\* A command is a step of Cache, which has no flush_all with a time.
LEMMA CommandPromised ==
  ASSUME RInv, RInv', Regular, FlushTimes = {}, ~ SetBack, NEW c \in Conns, Command(c)
  PROVE  Promise!Next
<1>1. ASSUME NEW comm \in Comms, NEW k \in Keys, NEW len \in Lens, NEW t \in SetTimes,
             command_replace(c, comm, k, len, t)
      PROVE  Promise!Next
  BY <1>1, CommandReplacePromised
<1>2. CASE command_get(c)
  BY <1>2, QuietPromised DEF command_get, connVars
<1>3. ASSUME NEW k \in Keys, NEW incr \in BOOLEAN, NEW d \in Deltas,
             command_vary_delta(c, k, incr, d)
      PROVE  Promise!Next
  BY <1>3, CommandVaryDeltaPromised
<1>4. ASSUME NEW k \in Keys, NEW t \in DelTimes, delete_handler(c, k, t)
      PROVE  Promise!Next
  BY <1>4, DeleteHandlerPromised DEF Regular
<1>5. CASE flush_all_handler(c)
  <2>1. /\ UNCHANGED <<store, citem, item_comm>> /\ oldest_live' = current_time'
        /\ current_time <= current_time'
    BY <1>5 DEF flush_all_handler, set_current_time, connVars
  <2>2. TypeOK'
    BY DEF RInv, IInv
  <2>3. QED
    BY <2>1, <2>2, TimePasses
<1>6. QED
  BY <1>1, <1>2, <1>3, <1>4, <1>5 DEF Command

\* Every step of a regular server is a step of Cache.
LEMMA NextPromised ==
  ASSUME RInv, RInv', Regular, FlushTimes = {}, ~ SetBack, Next
  PROVE  Promise!Next
<1> USE DEF connVars
<1>1. ASSUME NEW c \in Conns, conn_new(c)
      PROVE  Promise!Next
  BY <1>1, QuietPromised DEF conn_new
<1>2. ASSUME NEW c \in Conns, conn_close(c)
      PROVE  Promise!Next
  BY <1>2, ConnClosePromised
<1>3. ASSUME NEW c \in Conns, Command(c)
      PROVE  Promise!Next
  BY <1>3, CommandPromised
<1>4. ASSUME NEW c \in Conns, NEW v \in Vals, NEW good \in BOOLEAN, complete_nread(c, v, good)
      PROVE  Promise!Next
  BY <1>4, CompleteNreadPromised
<1>5. ASSUME NEW c \in Conns, transmit_complete(c)
      PROVE  Promise!Next
  BY <1>5, QuietPromised DEF transmit_complete
<1>6. ASSUME NEW k \in Keys, command_get_key(k)
      PROVE  Promise!Next
  BY <1>6, CommandGetKeyPromised DEF Regular
<1>7. CASE command_get_end
  BY <1>7, QuietPromised DEF command_get_end
<1>8. CASE release_item
  BY <1>8, ReleasePromised
<1>9. CASE release_end
  BY <1>9, QuietPromised DEF release_end
<1>10. CASE timer_delete_handler
  BY <1>10, QuietPromised DEF timer_delete_handler
<1>11. CASE timer_delete_step
  BY <1>11, TimerStepPromised
<1>12. CASE timer_delete_end
  BY <1>12, QuietPromised DEF timer_delete_end
<1>13. CASE clock_handler
  <2>1. /\ UNCHANGED <<store, citem, item_comm, oldest_live>>
        /\ current_time <= current_time'
    BY <1>13 DEF clock_handler, set_current_time
  <2>2. TypeOK'
    BY DEF RInv, IInv
  <2>3. QED
    BY <2>1, <2>2, TimePasses
<1>14. QED
  BY <1>1, <1>2, <1>3, <1>4, <1>5, <1>6, <1>7, <1>8, <1>9, <1>10, <1>11, <1>12, <1>13 DEF Next

\* At first no key shows anything, and no data is awaited.
LEMMA InitPromised == Init => Promise!Init
<1> SUFFICES ASSUME Init
             PROVE  Promise!Init
  OBVIOUS
<1>1. ASSUME NEW k \in Keys
      PROVE  Shown(k) = NULL
  <2>1. store.hashtable[k] = <<>>
    BY DEF Init, InitStore
  <2>2. QED
    BY <2>1 DEF Shown, assoc_find
<1>2. \A c \in Conns : citem[c] = NULL
  BY DEF Init
<1>3. QED
  BY <1>1, <1>2 DEF Promise!Init

\* A step that changes nothing changes nothing of Cache.
LEMMA StutterPromised ==
  ASSUME UNCHANGED vars
  PROVE  UNCHANGED Promise!cvars
BY DEF Promise!cvars, vars, timeVars, connVars, Shown, DeleteLocked, item_delete_lock_over,
       Flushed, Expired

\* On a clock that nobody sets back, and without a flush_all at a time, the server
\* shows in every regular behaviour what Cache promises: a key shows
\* the value of the last store or arithmetic that succeeded for it, or nothing,
\* and whether add and replace succeed is decided by what their key shows when
\* their data is complete (memcached.c:176-229).
THEOREM CacheImplemented ==
  ASSUME FlushTimes = {}, ~ SetBack
  PROVE  Spec /\ []Regular => ImplementsCache
<1>1. ASSUME RInv, RInv', Regular, [Next]_vars
      PROVE  [Promise!Next]_(Promise!cvars)
  BY <1>1, NextPromised, StutterPromised
<1>2. QED
  BY <1>1, InitPromised, RegularRefs, PTL DEF Spec, ImplementsCache, Promise!Spec

\* So it does whatever the clients do, under the conditions of BoundedServer.
THEOREM CacheOfBoundedServer ==
  ASSUME NoAlias, RefsFit, FlushTimes = {}, ~ SetBack
  PROVE  Spec => ImplementsCache
<1>1. Spec => [](RInv /\ Regular)
  BY BoundedRefs
<1>2. QED
  BY <1>1, CacheImplemented, PTL

-----------------------------------------------------------------------------
(***************************************************************************)
(* ServerLoop orders the actions of ItemStore and adds none: every theorem *)
(* above holds of the store inside aeMain.                                 *)
(***************************************************************************)

\* A step of the loop or of a handler is a step of ItemStore or none of its business.
LEMMA ServerSteps ==
  ASSUME [ServerNext]_serverVars
  PROVE  [Next]_vars
<1>1. CASE UNCHANGED serverVars
  BY <1>1 DEF serverVars
<1>2. CASE Loop
  <2>1. CASE epoll_return \/ events_done \/ time_events_done
    BY <2>1 DEF epoll_return, events_done, time_events_done
  <2>2. CASE \E f \in {LISTEN} \cup Conns : file_event(f)
    BY <2>2 DEF file_event
  <2>3. CASE delete_timer \/ delete_timer_runs \/ clock_timer
    BY <2>3 DEF delete_timer, delete_timer_runs, clock_timer, Next
  <2>4. QED
    BY <1>2, <2>1, <2>2, <2>3 DEF Loop
<1>3. CASE accept
  BY <1>3 DEF accept, Next
<1>4. ASSUME NEW c \in Conns, drive_machine(c)
      PROVE  Next
  BY <1>4 DEF drive_machine, Next
<1>5. CASE handler_return
  BY <1>5 DEF handler_return
<1>6. QED
  BY <1>1, <1>2, <1>3, <1>4, <1>5 DEF ServerNext

\* The server inside its event loop is the server of ItemStore: the loop decides
\* when a handler or a timer runs, never what it does (ae.c:363-518).
THEOREM ServerImplementsStore == ServerSpec => Spec
<1>1. ServerInit => Init
  BY DEF ServerInit
<1>2. QED
  BY <1>1, ServerSteps, PTL DEF ServerSpec, Spec

=============================================================================
