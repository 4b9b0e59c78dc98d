--------------------------- MODULE EventLoopProofs ---------------------------
(***************************************************************************)
(* Theorems about EventLoop for every value of its constants: any number   *)
(* of clients, descriptors and connection structures, any limits, and any  *)
(* movement of the wall clock.                                             *)
(***************************************************************************)
EXTENDS EventLoop, FiniteSetTheorems, TLAPS

-----------------------------------------------------------------------------
(* Types *)

LEMMA EventLoopTypes ==
  /\ NULL \notin Clients /\ NULL \notin Structs /\ LISTEN \notin Clients /\ LISTEN # NULL
  /\ Structs # {} /\ AE_SETSIZE \in Nat /\ MaxFds \in Nat \ {0} /\ Rlims \subseteq Nat
  /\ FreeTotal \in Nat \ {0} /\ Second \in Nat \ {0} /\ MinClock \in Nat /\ MaxClock \in Nat
  /\ Second <= MinClock /\ Started \in Int /\ RelTimeMod \in Nat \ {0}
  /\ Period = Second /\ Timers # {} /\ Fds \subseteq Nat /\ Clock \subseteq Nat
  /\ l_conn \in Structs
BY EventLoopAssumption DEF Period, Timers, Fds, Clock, l_conn

\* The structure that conn_new takes.
LEMMA TakenType ==
  ASSUME TypeOK, Available
  PROVE  /\ Taken \in Structs
         /\ FreeLeft \in Seq(Structs)
         /\ freeconns # <<>> => Taken = freeconns[Len(freeconns)] /\ Len(freeconns) > 0
         /\ freeconns = <<>> => Taken \notin structs
<1>1. CASE freeconns # <<>>
  <2>1. freeconns \in Seq(Structs) /\ Len(freeconns) \in Nat /\ Len(freeconns) > 0
    BY <1>1 DEF TypeOK
  <2>2. freeconns[Len(freeconns)] \in Structs
    BY <2>1
  <2>3. SubSeq(freeconns, 1, Len(freeconns) - 1) \in Seq(Structs)
    BY <2>1
  <2> QED BY <1>1, <2>1, <2>2, <2>3 DEF Taken, FreeLeft, Last, Front
<1>2. CASE freeconns = <<>>
  <2>1. \E s \in Structs : s \notin structs
    BY <1>2 DEF TypeOK, Available
  <2> QED BY <1>2, <2>1 DEF Taken, FreeLeft, TypeOK
<1> QED BY <1>1, <1>2

LEMMA ConnCloseType ==
  ASSUME TypeOK, NEW s \in Structs, sfd[s] \in Fds, curr_conns > 0, conn_close(s)
  PROVE  /\ peer' \in [Clients -> {"away", "quiet", "input"}] /\ rlim' \in Rlims
         /\ socket' \in [Fds -> Clients \cup {LISTEN, NULL}]
         /\ interest' \subseteq Fds /\ events' \subseteq Fds
         /\ clientData' \in [Fds -> Structs \cup {NULL}]
         /\ maxfd' \in Fds \cup {-1}
         /\ structs' \subseteq Structs /\ sfd' \in [Structs -> Fds \cup {NULL}]
         /\ state' \in [Structs -> {"conn_listening", "conn_read"}]
         /\ freeconns' \in Seq(Structs) /\ freetotal' \in Nat /\ curr_conns' \in Nat
<1>1. freeconns' \in Seq(Structs) /\ freetotal' \in Nat /\ structs' \subseteq Structs
  <2>1. freeconns \in Seq(Structs) /\ freetotal \in Nat /\ structs \subseteq Structs
    BY DEF TypeOK
  <2>2. Append(freeconns, s) \in Seq(Structs) /\ freetotal * 2 \in Nat
    BY <2>1
  <2> QED BY <2>1, <2>2 DEF conn_close, conn_free
<1>2. events' \subseteq Fds /\ maxfd' \in Fds \cup {-1}
  BY DEF TypeOK, conn_close, aeDeleteFileEvent
<1>3. /\ peer' \in [Clients -> {"away", "quiet", "input"}]
      /\ socket' \in [Fds -> Clients \cup {LISTEN, NULL}] /\ interest' \subseteq Fds
  BY DEF TypeOK, conn_close, close
<1> QED BY <1>1, <1>2, <1>3 DEF TypeOK, conn_close

-----------------------------------------------------------------------------
(* The free list, as a sequence without repetition *)

Elems(f) == {f[i] : i \in 1 .. Len(f)}
NoDup(f) == \A i, j \in 1 .. Len(f) : f[i] = f[j] => i = j

LEMMA Pushed ==
  ASSUME NEW f \in Seq(Structs), NEW s \in Structs, s \notin Elems(f), NoDup(f)
  PROVE  /\ Elems(Append(f, s)) = Elems(f) \cup {s} /\ NoDup(Append(f, s))
         /\ Len(Append(f, s)) = Len(f) + 1
<1> DEFINE g == Append(f, s)
<1>1. Len(g) = Len(f) + 1 /\ g[Len(f) + 1] = s /\ \A i \in 1 .. Len(f) : g[i] = f[i]
  OBVIOUS
<1> HIDE DEF g
<1>2. Elems(g) = Elems(f) \cup {s}
  <2>1. \A x \in Elems(g) : x \in Elems(f) \cup {s}
    BY <1>1 DEF Elems
  <2>2. \A x \in Elems(f) \cup {s} : x \in Elems(g)
    BY <1>1 DEF Elems
  <2> QED BY <2>1, <2>2
<1>3. NoDup(g)
  BY <1>1 DEF NoDup, Elems
<1> QED BY <1>1, <1>2, <1>3 DEF g

LEMMA Popped ==
  ASSUME NEW f \in Seq(Structs), f # <<>>, NoDup(f)
  PROVE  /\ Elems(Front(f)) = Elems(f) \ {Last(f)} /\ NoDup(Front(f))
         /\ Front(f) \in Seq(Structs) /\ Len(Front(f)) = Len(f) - 1
         /\ Last(f) \in Elems(f)
<1> DEFINE g == Front(f)
<1>1. /\ g \in Seq(Structs) /\ Len(g) = Len(f) - 1 /\ Last(f) = f[Len(f)] /\ Len(f) > 0
      /\ \A i \in 1 .. Len(f) - 1 : g[i] = f[i]
  <2>1. Len(f) \in Nat /\ Len(f) > 0
    OBVIOUS
  <2>2. \A i \in 1 .. Len(f) - 1 : f[i] \in Structs
    BY <2>1
  <2>3. g = [i \in 1 .. Len(f) - 1 |-> f[i]]
    BY <2>1 DEF Front
  <2>4. Len(g) = Len(f) - 1
    BY <2>1, <2>3
  <2> QED BY <2>1, <2>2, <2>3, <2>4 DEF Last
<1> HIDE DEF g
<1>2. Elems(g) = Elems(f) \ {Last(f)}
  <2>1. \A x \in Elems(g) : x \in Elems(f) /\ x # Last(f)
    BY <1>1 DEF Elems, NoDup
  <2>2. \A x \in Elems(f) \ {Last(f)} : x \in Elems(g)
    <3> SUFFICES ASSUME NEW i \in 1 .. Len(f), f[i] # Last(f)
                 PROVE  f[i] \in Elems(g)
      BY DEF Elems
    <3> QED BY <1>1 DEF Elems
  <2> QED BY <2>1, <2>2
<1>3. NoDup(g)
  <2> SUFFICES ASSUME NEW i \in 1 .. Len(g), NEW j \in 1 .. Len(g), g[i] = g[j]
               PROVE  i = j
    BY DEF NoDup
  <2> QED BY <1>1 DEF NoDup
<1>4. Last(f) \in Elems(f)
  BY <1>1 DEF Elems
<1> QED BY <1>1, <1>2, <1>3, <1>4 DEF g

-----------------------------------------------------------------------------
(* Descriptors, events and connections *)

\* The invariant: each conjunct of the three properties, the events that are
\* still to be handled, and the room in freeconns.
NullIsFree == interest = events /\ events = {fd \in Fds : socket[fd] # NULL}
Owners == \A fd \in events : clientData[fd] \in structs \ Elems(freeconns) /\ sfd[clientData[fd]] = fd
Bound == structs \ Elems(freeconns) = {clientData[fd] : fd \in events}
FreeGood == Elems(freeconns) \subseteq structs /\ NoDup(freeconns)
            /\ Len(freeconns) <= freetotal /\ freetotal > 0
FiredGood == /\ \A i \in 1 .. Len(fired) : fired[i] \in events
             /\ NoDup(fired)
             /\ fn = "drive_machine" =>
                  /\ c \in Structs /\ sfd[c] \in events /\ clientData[sfd[c]] = c
                  /\ \A i \in 1 .. Len(fired) : fired[i] # sfd[c]

FdInv ==
  /\ TypeOK
  /\ NullIsFree /\ Owners /\ Bound /\ FreeGood /\ FiredGood
  /\ MaxfdIsLargest
  /\ curr_conns = Cardinality(events)

LEMMA EventsFinite ==
  ASSUME TypeOK
  PROVE  IsFiniteSet(events) /\ IsFiniteSet(Fds)
<1>1. IsFiniteSet(0 .. MaxFds - 1)
  BY FS_Interval, EventLoopTypes
<1>2. events \subseteq 0 .. MaxFds - 1
  BY DEF TypeOK, Fds
<1> QED BY <1>1, <1>2, FS_Subset DEF Fds

\* Closing the connection of drive_machine.
LEMMA ConnClose ==
  ASSUME FdInv, fn = "drive_machine", conn_close(c)
  PROVE  /\ NullIsFree' /\ Owners' /\ Bound' /\ FreeGood' /\ MaxfdIsLargest'
         /\ curr_conns' = Cardinality(events') /\ curr_conns > 0
         /\ events' = events \ {sfd[c]} /\ sfd' = sfd /\ clientData' = clientData
<1> DEFINE fd == sfd[c]
<1>1. c \in Structs /\ fd \in events /\ clientData[fd] = c /\ fd \in Fds
      /\ c \in structs \ Elems(freeconns) /\ freeconns \in Seq(Structs)
  BY DEF FdInv, FiredGood, Owners, TypeOK
<1> HIDE DEF fd
<1>2. /\ events' = events \ {fd} /\ interest' = interest \ {fd}
      /\ socket' = [socket EXCEPT ![fd] = NULL]
      /\ clientData' = clientData /\ sfd' = sfd
      /\ curr_conns' = curr_conns - 1
  BY DEF conn_close, aeDeleteFileEvent, close, fd
<1>3. NullIsFree'
  BY <1>1, <1>2 DEF FdInv, NullIsFree, TypeOK
<1>4. structs' \ Elems(freeconns') = (structs \ Elems(freeconns)) \ {c} /\ FreeGood'
  <2>1. CASE structs' = structs \ {c} /\ freeconns' = freeconns /\ freetotal' = freetotal
    BY <2>1, <1>1 DEF FdInv, FreeGood
  <2>2. CASE /\ freeconns' = Append(freeconns, c) /\ structs' = structs
             /\ freetotal' = IF Len(freeconns) < freetotal THEN freetotal ELSE freetotal * 2
    <3>1. /\ Elems(freeconns') = Elems(freeconns) \cup {c} /\ NoDup(freeconns')
          /\ Len(freeconns') = Len(freeconns) + 1
      BY <2>2, <1>1, Pushed DEF FdInv, FreeGood
    <3>2. freetotal \in Nat /\ freetotal > 0 /\ Len(freeconns) <= freetotal /\ Len(freeconns) \in Nat
          /\ Elems(freeconns) \subseteq structs
      BY <1>1 DEF FdInv, FreeGood, TypeOK
    <3>3. Len(freeconns') <= freetotal' /\ freetotal' > 0
      BY <3>1, <3>2, <2>2
    <3> QED BY <3>1, <3>2, <3>3, <2>2, <1>1 DEF FreeGood
  <2> QED BY <2>1, <2>2 DEF conn_close, conn_free
<1>5. \A other \in events : clientData[other] = c => other = fd
  BY <1>1 DEF FdInv, Owners, fd
<1>6. Owners'
  BY <1>2, <1>4, <1>5 DEF Owners, FdInv
<1>7. Bound'
  BY <1>1, <1>2, <1>4, <1>5 DEF Bound, FdInv
<1>8. MaxfdIsLargest'
  <2>1. CASE fd # maxfd
    BY <2>1, <1>2 DEF conn_close, aeDeleteFileEvent, MaxfdIsLargest, FdInv, fd
  <2>2. CASE fd = maxfd
    BY <2>2, <1>2 DEF conn_close, aeDeleteFileEvent, MaxfdIsLargest, fd
  <2> QED BY <2>1, <2>2
<1>9. curr_conns' = Cardinality(events') /\ curr_conns > 0
  <2>1. IsFiniteSet(events)
    BY EventsFinite DEF FdInv
  <2>2. Cardinality(events') = Cardinality(events) - 1
    BY <2>1, <1>1, <1>2, FS_RemoveElement
  <2>3. Cardinality(events) \in Nat /\ Cardinality(events') \in Nat
    BY <2>1, <1>2, FS_CardinalityType, FS_RemoveElement
  <2> QED BY <2>2, <2>3, <1>2 DEF FdInv
<1> QED BY <1>2, <1>3, <1>4, <1>6, <1>7, <1>8, <1>9 DEF fd

\* What is known of the structure and the descriptor when a client is accepted.
LEMMA Accepted ==
  ASSUME FdInv, NEW k \in Clients, NEW fd \in FreeFds, accept(k, fd)
  PROVE  /\ fd \in Fds /\ fd \notin events /\ socket[fd] = NULL
         /\ Taken \in Structs /\ Taken \notin structs \ Elems(freeconns)
         /\ FreeLeft \in Seq(Structs) /\ NoDup(FreeLeft) /\ Taken \notin Elems(FreeLeft)
         /\ Elems(FreeLeft) \subseteq structs /\ Len(FreeLeft) < freetotal
         /\ (structs \cup {Taken}) \ Elems(FreeLeft) = (structs \ Elems(freeconns)) \cup {Taken}
         /\ c \in structs \ Elems(freeconns) /\ c # Taken
<1>1. fd \in Fds /\ fd \notin events /\ socket[fd] = NULL
  BY DEF FreeFds, FdInv, NullIsFree
<1>2. c \in structs \ Elems(freeconns) /\ fn = "drive_machine"
  BY DEF accept, Accepting, FdInv, FiredGood, Owners
<1>3. freeconns \in Seq(Structs) /\ NoDup(freeconns) /\ Elems(freeconns) \subseteq structs
      /\ Len(freeconns) <= freetotal /\ freetotal > 0 /\ freetotal \in Nat
  BY DEF FdInv, FreeGood, TypeOK
<1>4. TypeOK /\ Available
  BY DEF accept, FdInv
<1>5. CASE freeconns # <<>>
  <2>1. Taken = Last(freeconns) /\ FreeLeft = Front(freeconns)
    BY <1>5 DEF Taken, FreeLeft
  <2>2. /\ Elems(FreeLeft) = Elems(freeconns) \ {Taken} /\ NoDup(FreeLeft)
        /\ FreeLeft \in Seq(Structs) /\ Len(FreeLeft) = Len(freeconns) - 1
        /\ Taken \in Elems(freeconns)
    BY <1>3, <1>5, <2>1, Popped
  <2>3. Len(FreeLeft) < freetotal
    BY <1>3, <2>2
  <2>4. (structs \cup {Taken}) \ Elems(FreeLeft) = (structs \ Elems(freeconns)) \cup {Taken}
    BY <2>2, <1>3
  <2> QED BY <1>1, <1>2, <1>3, <1>4, <2>2, <2>3, <2>4, TakenType
<1>6. CASE freeconns = <<>>
  <2>1. FreeLeft = <<>> /\ Elems(freeconns) = {} /\ Elems(FreeLeft) = {}
    BY <1>6 DEF FreeLeft, Elems
  <2>2. Taken \in Structs /\ Taken \notin structs /\ NoDup(<<>>)
    BY <1>4, <1>6, TakenType DEF NoDup
  <2> QED BY <1>1, <1>2, <1>3, <2>1, <2>2, <1>6
<1> QED BY <1>5, <1>6

\* conn_new has registered the descriptor.
LEMMA ConnNew ==
  ASSUME FdInv, NEW k \in Clients, NEW fd \in FreeFds, accept(k, fd), conn_new(k, fd)
  PROVE  FdInv'
<1> DEFINE s == Taken
           left_ == FreeLeft
           used == structs \ Elems(freeconns)
<1>1. /\ fd \in Fds /\ fd \notin events /\ socket[fd] = NULL
      /\ s \in Structs /\ s \notin used
      /\ left_ \in Seq(Structs) /\ NoDup(left_) /\ s \notin Elems(left_)
      /\ Elems(left_) \subseteq structs /\ Len(left_) < freetotal
      /\ (structs \cup {s}) \ Elems(left_) = used \cup {s}
      /\ c \in used /\ c # s
  BY Accepted
<1> HIDE DEF s, left_
<1>2. /\ socket' = [socket EXCEPT ![fd] = k]
      /\ interest' = interest \cup {fd} /\ events' = events \cup {fd}
      /\ clientData' = [clientData EXCEPT ![fd] = s]
      /\ maxfd' = IF fd > maxfd THEN fd ELSE maxfd
      /\ sfd' = [sfd EXCEPT ![s] = fd]
      /\ state' = [state EXCEPT ![s] = "conn_read"]
      /\ structs' = structs \cup {s} /\ freeconns' = left_
      /\ curr_conns' = curr_conns + 1
      /\ UNCHANGED <<peer, freetotal, rlim, fired, timeVars, fn, c>>
      /\ fn = "drive_machine"
  BY DEF conn_new, accept, Accepting, s, left_
<1>3. TypeOK /\ k \in Clients /\ k # NULL
  BY EventLoopTypes DEF FdInv
<1>4. TypeOK'
  <2>1. /\ socket' \in [Fds -> Clients \cup {LISTEN, NULL}]
        /\ clientData' \in [Fds -> Structs \cup {NULL}]
        /\ sfd' \in [Structs -> Fds \cup {NULL}]
        /\ state' \in [Structs -> {"conn_listening", "conn_read"}]
    BY <1>1, <1>2, <1>3 DEF TypeOK
  <2>2. /\ interest' \subseteq Fds /\ events' \subseteq Fds /\ maxfd' \in Fds \cup {-1}
        /\ structs' \subseteq Structs /\ freeconns' \in Seq(Structs) /\ curr_conns' \in Nat
    BY <1>1, <1>2, <1>3 DEF TypeOK
  <2> QED BY <1>2, <1>3, <2>1, <2>2 DEF TypeOK, timeVars
<1>5. NullIsFree'
  BY <1>1, <1>2, <1>3 DEF FdInv, NullIsFree, TypeOK
<1>6. structs' \ Elems(freeconns') = used \cup {s} /\ FreeGood'
  <2>1. freetotal \in Nat /\ freetotal > 0 /\ Len(left_) \in Nat
    BY <1>1, <1>3 DEF FreeGood, FdInv, TypeOK
  <2>2. Len(freeconns') <= freetotal' /\ freetotal' > 0
    BY <1>1, <1>2, <2>1
  <2>3. Elems(freeconns') \subseteq structs' /\ NoDup(freeconns')
    BY <1>1, <1>2
  <2> QED BY <1>1, <1>2, <2>2, <2>3 DEF FreeGood
<1>7. Owners'
  <2>1. \A other \in events : clientData[other] \in used /\ sfd[clientData[other]] = other
                              /\ other \in Fds
    BY <1>3 DEF FdInv, Owners, TypeOK
  <2>2. \A other \in events : clientData'[other] = clientData[other]
    BY <1>1, <1>2, <2>1 DEF TypeOK
  <2>3. \A other \in events : sfd'[clientData[other]] = other
    BY <1>1, <1>2, <1>3, <2>1 DEF TypeOK
  <2>4. clientData'[fd] = s /\ sfd'[s] = fd
    BY <1>1, <1>2, <1>3 DEF TypeOK
  <2> QED BY <1>2, <1>6, <2>1, <2>2, <2>3, <2>4 DEF Owners
<1>8. Bound'
  <2>1. \A other \in events : clientData'[other] = clientData[other]
    BY <1>1, <1>2, <1>3 DEF TypeOK
  <2>2. clientData'[fd] = s
    BY <1>1, <1>2, <1>3 DEF TypeOK
  <2>3. {clientData'[o] : o \in events'} = {clientData[o] : o \in events} \cup {s}
    BY <1>2, <2>1, <2>2
  <2>4. used = {clientData[o] : o \in events}
    BY DEF FdInv, Bound
  <2> QED BY <1>6, <2>3, <2>4 DEF Bound
<1>9. FiredGood'
  <2>1. /\ c \in Structs /\ sfd[c] \in events /\ clientData[sfd[c]] = c
        /\ \A i \in 1 .. Len(fired) : fired[i] # sfd[c] /\ fired[i] \in events
        /\ NoDup(fired)
    BY <1>2 DEF FdInv, FiredGood
  <2>2. sfd'[c] = sfd[c] /\ clientData'[sfd[c]] = c
    BY <1>1, <1>2, <1>3, <2>1 DEF TypeOK
  <2> QED BY <1>2, <2>1, <2>2 DEF FiredGood
<1>10. MaxfdIsLargest'
  BY <1>1, <1>2, <1>3, EventLoopTypes DEF MaxfdIsLargest, FdInv, TypeOK
<1>11. curr_conns' = Cardinality(events')
  <2>1. IsFiniteSet(events)
    BY <1>3, EventsFinite
  <2>2. Cardinality(events') = Cardinality(events) + 1
    BY <2>1, <1>1, <1>2, FS_AddElement
  <2> QED BY <2>2, <1>2 DEF FdInv
<1> QED BY <1>4, <1>5, <1>6, <1>7, <1>8, <1>9, <1>10, <1>11 DEF FdInv

\* conn_new could not: the structure goes into freeconns.
LEMMA ConnNewError ==
  ASSUME FdInv, NEW k \in Clients, NEW fd \in FreeFds, accept(k, fd), conn_new_error(k, fd)
  PROVE  FdInv'
<1> DEFINE s == Taken
           left_ == FreeLeft
           used == structs \ Elems(freeconns)
<1>1. /\ fd \in Fds /\ fd \notin events
      /\ s \in Structs /\ s \notin used
      /\ left_ \in Seq(Structs) /\ NoDup(left_) /\ s \notin Elems(left_)
      /\ Elems(left_) \subseteq structs /\ Len(left_) < freetotal
      /\ (structs \cup {s}) \ Elems(left_) = used \cup {s}
      /\ c \in used /\ c # s
  BY Accepted
<1> HIDE DEF s, left_
<1>2. /\ peer' = [peer EXCEPT ![k] = "away"]
      /\ sfd' = [sfd EXCEPT ![s] = fd]
      /\ state' = [state EXCEPT ![s] = "conn_read"]
      /\ structs' = structs \cup {s} /\ freeconns' = Append(left_, s)
      /\ UNCHANGED <<socket, interest, eventVars, freetotal, curr_conns, rlim, fired,
                     timeVars, fn, c>>
      /\ fn = "drive_machine"
  BY DEF conn_new_error, accept, Accepting, s, left_
<1>3. TypeOK
  BY DEF FdInv
<1>4. /\ Elems(freeconns') = Elems(left_) \cup {s} /\ NoDup(freeconns')
      /\ Len(freeconns') = Len(left_) + 1 /\ freeconns' \in Seq(Structs)
  BY <1>1, <1>2, Pushed
<1>5. structs' \ Elems(freeconns') = used
  BY <1>1, <1>2, <1>4
<1>6. TypeOK'
  <2>1. /\ peer' \in [Clients -> {"away", "quiet", "input"}]
        /\ sfd' \in [Structs -> Fds \cup {NULL}]
        /\ state' \in [Structs -> {"conn_listening", "conn_read"}]
    BY <1>1, <1>2, <1>3 DEF TypeOK
  <2>2. structs' \subseteq Structs
    BY <1>1, <1>2, <1>3 DEF TypeOK
  <2> QED BY <1>2, <1>3, <1>4, <2>1, <2>2 DEF TypeOK, timeVars, eventVars
<1>7. NullIsFree' /\ MaxfdIsLargest' /\ curr_conns' = Cardinality(events')
  BY <1>2 DEF FdInv, NullIsFree, MaxfdIsLargest, eventVars
<1>8. FreeGood'
  <2>1. Elems(freeconns') \subseteq structs'
    BY <1>1, <1>2, <1>4
  <2>2. Len(freeconns') <= freetotal' /\ freetotal' > 0
    <3>1. freetotal \in Nat /\ freetotal > 0 /\ Len(left_) \in Nat
      BY <1>1, <1>3 DEF FdInv, FreeGood, TypeOK
    <3> QED BY <3>1, <1>1, <1>2, <1>4
  <2> QED BY <1>4, <2>1, <2>2 DEF FreeGood
<1>9. \A o \in events : clientData[o] \in used /\ sfd'[clientData[o]] = o
  BY <1>1, <1>2, <1>3 DEF FdInv, Owners, TypeOK
<1>10. Owners' /\ Bound'
  BY <1>2, <1>5, <1>9 DEF Owners, Bound, FdInv, eventVars
<1>11. FiredGood'
  <2>1. /\ c \in Structs /\ sfd[c] \in events /\ clientData[sfd[c]] = c
        /\ \A i \in 1 .. Len(fired) : fired[i] # sfd[c] /\ fired[i] \in events
        /\ NoDup(fired)
    BY <1>2 DEF FdInv, FiredGood
  <2>2. sfd'[c] = sfd[c]
    BY <1>1, <1>2, <1>3, <2>1 DEF TypeOK
  <2> QED BY <1>2, <2>1, <2>2 DEF FiredGood, eventVars
<1> QED BY <1>6, <1>7, <1>8, <1>10, <1>11 DEF FdInv

\* Steps that change neither descriptors nor connections.
fdVars == <<rlim, socket, interest, eventVars, connVars>>

LEMMA FdUntouched ==
  ASSUME FdInv, TypeOK', UNCHANGED fdVars, FiredGood'
  PROVE  FdInv'
BY DEF FdInv, fdVars, eventVars, connVars, NullIsFree, Owners, Bound, FreeGood, MaxfdIsLargest

\* Steps of the clients and of time.
LEMMA EnvironmentStep ==
  ASSUME FdInv, Environment
  PROVE  UNCHANGED <<fdVars, fired, fn, c>> /\ TypeOK'
<1>0. TypeOK
  BY DEF FdInv
<1>1. ASSUME NEW k \in Clients, client_connect(k)
      PROVE  UNCHANGED <<fdVars, fired, fn, c>> /\ TypeOK'
  BY <1>0, <1>1 DEF client_connect, TypeOK, fdVars, eventVars, connVars, timeVars
<1>2. ASSUME NEW k \in Clients, client_send(k)
      PROVE  UNCHANGED <<fdVars, fired, fn, c>> /\ TypeOK'
  BY <1>0, <1>2 DEF client_send, TypeOK, fdVars, eventVars, connVars, timeVars
<1>3. ASSUME tick PROVE UNCHANGED <<fdVars, fired, fn, c>> /\ TypeOK'
  <2>1. clock' \in Clock /\ left' \in Nat
    BY <1>0, <1>3, EventLoopTypes DEF tick, TypeOK, Clock
  <2> QED BY <1>0, <1>3, <2>1 DEF tick, TypeOK, fdVars, kernelVars, eventVars, connVars
<1>4. ASSUME NEW t \in Clock, clock_set(t)
      PROVE  UNCHANGED <<fdVars, fired, fn, c>> /\ TypeOK'
  BY <1>0, <1>4 DEF clock_set, TypeOK, fdVars, kernelVars, eventVars, connVars
<1> QED BY <1>1, <1>2, <1>3, <1>4 DEF Environment

LEMMA Nearest ==
  ASSUME TypeOK
  PROVE  /\ aeSearchNearestTimer \in Timers
         /\ \A t \in Timers : when[aeSearchNearestTimer] <= when[t]
<1>1. when["clock_handler"] \in Nat /\ when["timer_delete_handler"] \in Nat
  BY DEF TypeOK, Timers
<1>2. \E t \in Timers : \A other \in Timers : when[t] <= when[other]
  BY <1>1 DEF Timers
<1> QED BY <1>2 DEF aeSearchNearestTimer

\* Integer division by the length of a second.
LEMMA SecondsType ==
  ASSUME NEW t \in Nat
  PROVE  Seconds(t) \in Nat /\ t % Second \in 0 .. Second - 1
BY EventLoopTypes DEF Seconds

LEMMA SecondsOrder ==
  ASSUME NEW t \in Nat, NEW u \in Nat
  PROVE  /\ t <= u => Seconds(t) <= Seconds(u)
         /\ Seconds(t) <= Seconds(u) => t < u + Second
         /\ t < u + Second => Seconds(t) <= Seconds(u) + 1
<1>1. \A m, n \in Nat : m <= n => Seconds(m) <= Seconds(n)
  BY EventLoopTypes DEF Seconds
<1>2. Seconds(u + Second) = Seconds(u) + 1 /\ u + Second \in Nat
  BY EventLoopTypes DEF Seconds
<1>3. Seconds(t) \in Nat /\ Seconds(u) \in Nat
  BY SecondsType
<1>4. u + Second <= t => Seconds(u) + 1 <= Seconds(t)
  BY <1>1, <1>2
<1>5. t <= u + Second => Seconds(t) <= Seconds(u) + 1
  BY <1>1, <1>2
<1> QED BY <1>1, <1>2, <1>3, <1>4, <1>5, EventLoopTypes

LEMMA TimeoutType ==
  ASSUME TypeOK
  PROVE  Timeout(clock) \in Nat
<1>1. when[aeSearchNearestTimer] \in Nat /\ clock \in Nat
  BY Nearest, EventLoopTypes DEF TypeOK
<1>2. (when[aeSearchNearestTimer] - clock) % Second \in Nat
  BY <1>1, EventLoopTypes
<1> QED BY <1>1, <1>2 DEF Timeout

-----------------------------------------------------------------------------
(* Every step of the server keeps FdInv *)

LEMMA PollStep ==
  ASSUME FdInv, aeApiPoll
  PROVE  FdInv'
<1>1. TypeOK'
  BY TimeoutType DEF FdInv, aeApiPoll, TypeOK, kernelVars, eventVars, connVars
<1>2. UNCHANGED fdVars /\ FiredGood'
  BY DEF FdInv, FiredGood, aeApiPoll, fdVars, kernelVars, eventVars, connVars
<1> QED BY <1>1, <1>2, FdUntouched

LEMMA ReturnStep ==
  ASSUME FdInv, epoll_return
  PROVE  FdInv'
<1> DEFINE ready == {fd \in interest : Readable(fd)}
           n == Cardinality(ready)
<1>1. ready \subseteq events /\ ready \subseteq Fds /\ IsFiniteSet(ready)
  BY EventsFinite, FS_Subset DEF FdInv, NullIsFree, TypeOK
<1>2. n \in Nat
  BY <1>1, FS_CardinalityType
<1>3. fired' \in [1 .. n -> ready] /\ \A i, j \in 1 .. n : i # j => fired'[i] # fired'[j]
  BY DEF epoll_return, SetToSeqs
<1> HIDE DEF ready, n
<1>4. Len(fired') = n /\ fired' \in Seq(Fds)
  BY <1>1, <1>2, <1>3
<1>5. /\ UNCHANGED <<kernelVars, eventVars, connVars, clock, when, lastTime, current_time, c>>
      /\ fn' = "file_events" /\ left' = 0
  BY DEF epoll_return
<1>6. TypeOK'
  BY <1>4, <1>5 DEF FdInv, TypeOK, kernelVars, eventVars, connVars
<1>7. FiredGood'
  <2>1. \A i \in 1 .. Len(fired') : fired'[i] \in events
    BY <1>1, <1>3, <1>4
  <2>2. NoDup(fired')
    BY <1>3, <1>4 DEF NoDup
  <2> QED BY <1>5, <2>1, <2>2 DEF FiredGood, eventVars
<1>8. UNCHANGED fdVars
  BY <1>5 DEF fdVars, kernelVars
<1> QED BY <1>6, <1>7, <1>8, FdUntouched

LEMMA EventStep ==
  ASSUME FdInv, file_event
  PROVE  FdInv'
<1> DEFINE fd == Head(fired)
<1>1. fired \in Seq(Fds) /\ fired # <<>> /\ fd = fired[1] /\ fd \in events /\ fd \in Fds
      /\ Len(fired) > 0
  BY DEF FdInv, TypeOK, FiredGood, file_event
<1>2. clientData[fd] \in structs \ Elems(freeconns) /\ sfd[clientData[fd]] = fd
      /\ clientData[fd] \in Structs
  BY <1>1 DEF FdInv, Owners, TypeOK
<1>3. /\ fired' = Tail(fired) /\ fn' = "drive_machine" /\ c' = clientData[fd]
      /\ UNCHANGED <<kernelVars, eventVars, connVars, timeVars>>
  BY <1>1, <1>2 DEF file_event
<1> HIDE DEF fd
<1>4. /\ fired' \in Seq(Fds) /\ Len(fired') = Len(fired) - 1
      /\ \A i \in 1 .. Len(fired') : fired'[i] = fired[i + 1]
  BY <1>1, <1>3
<1>5. TypeOK'
  BY <1>2, <1>3, <1>4 DEF FdInv, TypeOK, kernelVars, eventVars, connVars, timeVars
<1>6. FiredGood'
  <2>1. NoDup(fired) /\ \A i \in 1 .. Len(fired) : fired[i] \in events
    BY DEF FdInv, FiredGood
  <2>2. Len(fired) \in Nat
    BY <1>1
  <2>3. \A i \in 1 .. Len(fired') : i + 1 \in 1 .. Len(fired) /\ 1 \in 1 .. Len(fired) /\ i + 1 # 1
    BY <1>1, <1>4, <2>2
  <2>4. \A i \in 1 .. Len(fired') : fired'[i] \in events /\ fired'[i] # fd
    BY <1>1, <1>4, <2>1, <2>3 DEF NoDup
  <2>5. NoDup(fired')
    BY <1>4, <2>1, <2>2, <2>3 DEF NoDup
  <2> QED BY <1>1, <1>2, <1>3, <2>4, <2>5 DEF FiredGood, eventVars, connVars
<1>7. UNCHANGED fdVars
  BY <1>3 DEF fdVars, kernelVars
<1> QED BY <1>5, <1>6, <1>7, FdUntouched

LEMMA EventsDoneStep ==
  ASSUME FdInv, events_done
  PROVE  FdInv'
<1>1. TypeOK' /\ UNCHANGED fdVars /\ FiredGood'
  BY DEF FdInv, FiredGood, events_done, TypeOK, fdVars, kernelVars, eventVars, connVars, timeVars
<1> QED BY <1>1, FdUntouched

LEMMA TimeEventsStep ==
  ASSUME FdInv, processTimeEvents
  PROVE  FdInv'
<1> DEFINE due == [t \in Timers |-> IF Seconds(clock) < lastTime THEN when[t] % Second ELSE when[t]]
<1>1. clock \in Nat /\ Seconds(clock) \in Nat /\ when \in [Timers -> Nat] /\ Period \in Nat
  BY SecondsType, EventLoopTypes DEF FdInv, TypeOK
<1>2. \A t \in Timers : due[t] \in Nat
  BY <1>1, EventLoopTypes
<1>3. /\ when' = [t \in Timers |-> IF clock >= due[t] THEN clock + Period ELSE due[t]]
      /\ current_time' = IF clock >= due["clock_handler"]
                         THEN (Seconds(clock) - Started) % RelTimeMod ELSE current_time
      /\ lastTime' = Seconds(clock) /\ fn' = "aeProcessEvents"
      /\ UNCHANGED <<kernelVars, eventVars, fired, connVars, clock, left, c>>
  BY DEF processTimeEvents
<1> HIDE DEF due
<1>4. when' \in [Timers -> Nat]
  BY <1>1, <1>2, <1>3
<1>5. current_time' \in RelTime
  <2>1. (Seconds(clock) - Started) % RelTimeMod \in RelTime
    BY <1>1, EventLoopTypes DEF RelTime
  <2> QED BY <1>3, <2>1 DEF FdInv, TypeOK
<1>6. TypeOK'
  BY <1>1, <1>3, <1>4, <1>5 DEF FdInv, TypeOK, kernelVars, eventVars, connVars
<1>7. FiredGood' /\ UNCHANGED fdVars
  BY <1>3 DEF FdInv, FiredGood, fdVars, kernelVars, eventVars, connVars
<1> QED BY <1>6, <1>7, FdUntouched

LEMMA AcceptStep ==
  ASSUME FdInv, accept_none \/ accept_error
  PROVE  FdInv'
<1>1. CASE accept_none
  <2>1. TypeOK' /\ UNCHANGED fdVars /\ FiredGood'
    BY <1>1 DEF FdInv, FiredGood, accept_none, Return, TypeOK, fdVars, kernelVars, eventVars,
                connVars, timeVars
  <2> QED BY <2>1, FdUntouched
<1>2. CASE accept_error
  <2>1. TypeOK' /\ UNCHANGED fdVars /\ FiredGood'
    BY <1>2 DEF FdInv, FiredGood, accept_error, vars, TypeOK, fdVars, kernelVars, eventVars,
                connVars, timeVars
  <2> QED BY <2>1, FdUntouched
<1> QED BY <1>1, <1>2

LEMMA RefusedStep ==
  ASSUME FdInv, NEW k \in Clients, accept_refused(k)
  PROVE  FdInv'
<1>1. TypeOK' /\ UNCHANGED fdVars /\ FiredGood'
  BY DEF FdInv, FiredGood, accept_refused, TypeOK, fdVars, eventVars, connVars, timeVars
<1> QED BY <1>1, FdUntouched

LEMMA ServeStep ==
  ASSUME FdInv, serve_more \/ serve_return
  PROVE  FdInv'
<1>1. CASE serve_more
  <2>1. peer' \in [Clients -> {"away", "quiet", "input"}]
    BY <1>1 DEF FdInv, TypeOK, serve_more
  <2>2. TypeOK' /\ UNCHANGED fdVars /\ FiredGood'
    BY <1>1, <2>1 DEF FdInv, FiredGood, serve_more, TypeOK, fdVars, eventVars, connVars, timeVars
  <2> QED BY <2>2, FdUntouched
<1>2. CASE serve_return
  <2>1. TypeOK' /\ UNCHANGED fdVars /\ FiredGood'
    BY <1>2 DEF FdInv, FiredGood, serve_return, Return, TypeOK, fdVars, kernelVars, eventVars,
                connVars, timeVars
  <2> QED BY <2>1, FdUntouched
<1> QED BY <1>1, <1>2

LEMMA ServeCloseStep ==
  ASSUME FdInv, serve_close
  PROVE  FdInv'
<1>1. /\ fn = "drive_machine" /\ conn_close(c) /\ fn' = "file_events" /\ c' = NULL
      /\ UNCHANGED <<fired, timeVars>>
  BY DEF serve_close, Serving, Return
<1>2. /\ NullIsFree' /\ Owners' /\ Bound' /\ FreeGood' /\ MaxfdIsLargest'
      /\ curr_conns' = Cardinality(events') /\ curr_conns > 0
      /\ events' = events \ {sfd[c]}
  BY <1>1, ConnClose
<1>3. c \in Structs /\ sfd[c] \in Fds
  BY <1>1 DEF FdInv, FiredGood, TypeOK
<1>4. TypeOK'
  BY <1>1, <1>2, <1>3, ConnCloseType DEF FdInv, TypeOK, timeVars
<1>5. FiredGood'
  BY <1>1, <1>2 DEF FdInv, FiredGood
<1> QED BY <1>2, <1>4, <1>5 DEF FdInv

LEMMA FdInit ==
  ASSUME Init
  PROVE  FdInv
<1>1. /\ l_conn \in Structs /\ 0 \in Fds /\ LISTEN # NULL
  BY EventLoopTypes DEF Fds
<1>2. /\ events = {0} /\ interest = {0} /\ maxfd = 0 /\ fired = <<>> /\ structs = {l_conn}
      /\ freeconns = <<>> /\ freetotal = FreeTotal /\ curr_conns = 1
      /\ fn = "aeProcessEvents" /\ c = NULL /\ left = 0 /\ current_time = 0
      /\ clock \in Clock /\ Seconds(clock) = Started + 1 /\ lastTime = Started + 1
      /\ socket[0] = LISTEN /\ \A fd \in Fds \ {0} : socket[fd] = NULL
      /\ clientData[0] = l_conn /\ sfd[l_conn] = 0
  BY <1>1 DEF Init
<1>3. /\ peer \in [Clients -> {"away", "quiet", "input"}] /\ rlim \in Rlims
      /\ socket \in [Fds -> Clients \cup {LISTEN, NULL}]
      /\ clientData \in [Fds -> Structs \cup {NULL}] /\ sfd \in [Structs -> Fds \cup {NULL}]
      /\ state \in [Structs -> {"conn_listening", "conn_read"}]
  BY <1>1 DEF Init
<1>4. when \in [Timers -> Nat]
  <2>1. \A t \in Clock : t + Period \in Nat
    BY EventLoopTypes
  <2> QED BY <1>2, <2>1 DEF Init
<1>5. lastTime \in Nat /\ current_time \in RelTime
  <2>1. Seconds(clock) \in Nat
    BY <1>2, EventLoopTypes, SecondsType
  <2> QED BY <1>2, <2>1, EventLoopTypes DEF RelTime
<1>6. freeconns \in Seq(Structs) /\ freetotal \in Nat
  BY <1>2, EventLoopTypes
<1>7. TypeOK
  BY <1>1, <1>2, <1>3, <1>4, <1>5, <1>6, EventLoopTypes DEF TypeOK
<1>8. NullIsFree /\ MaxfdIsLargest
  BY <1>1, <1>2 DEF NullIsFree, MaxfdIsLargest
<1>9. Elems(freeconns) = {} /\ Len(freeconns) = 0 /\ Len(fired) = 0
  BY <1>2 DEF Elems
<1>10. Owners /\ Bound
  BY <1>2, <1>9 DEF Owners, Bound
<1>11. FreeGood
  BY <1>2, <1>9, EventLoopTypes DEF FreeGood, NoDup
<1>12. FiredGood
  BY <1>2, <1>9 DEF FiredGood, NoDup
<1>13. curr_conns = Cardinality(events)
  BY <1>2, FS_Singleton
<1> QED BY <1>7, <1>8, <1>10, <1>11, <1>12, <1>13 DEF FdInv

LEMMA FdStep ==
  ASSUME FdInv, [Next]_vars
  PROVE  FdInv'
<1>1. CASE aeApiPoll \/ epoll_return \/ file_event \/ events_done \/ processTimeEvents
  BY <1>1, PollStep, ReturnStep, EventStep, EventsDoneStep, TimeEventsStep
<1>2. CASE accept_none \/ accept_error \/ serve_more \/ serve_return \/ serve_close
  BY <1>2, AcceptStep, ServeStep, ServeCloseStep
<1>3. ASSUME NEW k \in Clients, accept_refused(k)
      PROVE  FdInv'
  BY <1>3, RefusedStep
<1>4. ASSUME NEW k \in Clients, NEW fd \in FreeFds, accept(k, fd)
      PROVE  FdInv'
  <2>1. conn_new(k, fd) \/ conn_new_error(k, fd)
    BY <1>4 DEF accept
  <2> QED BY <1>4, <2>1, ConnNew, ConnNewError
<1>5. CASE Environment
  <2>1. UNCHANGED <<fdVars, fired, fn, c>> /\ TypeOK'
    BY <1>5, EnvironmentStep
  <2>2. FiredGood'
    BY <2>1 DEF FdInv, FiredGood, fdVars, eventVars, connVars
  <2> QED BY <2>1, <2>2, FdUntouched
<1>6. CASE UNCHANGED vars
  <2>1. UNCHANGED <<fdVars, fired, fn, c>> /\ TypeOK'
    BY <1>6 DEF FdInv, TypeOK, vars, fdVars, kernelVars, eventVars, connVars, timeVars
  <2>2. FiredGood'
    BY <2>1 DEF FdInv, FiredGood, fdVars, eventVars, connVars
  <2> QED BY <2>1, <2>2, FdUntouched
<1> QED BY <1>1, <1>2, <1>3, <1>4, <1>5, <1>6 DEF Next, Server

LEMMA FdInvariant == Spec => []FdInv
<1>1. Init => FdInv
  BY FdInit
<1>2. FdInv /\ [Next]_vars => FdInv'
  BY FdStep
<1> QED BY <1>1, <1>2, PTL DEF Spec

\* Every variable keeps its type, with any clock and any limits.
THEOREM TypeCorrect == Spec => []TypeOK
<1>1. FdInv => TypeOK
  BY DEF FdInv
<1> QED BY <1>1, FdInvariant, PTL

\* Whatever is closed and accepted while events are still to be handled, an
\* event leads to the connection of its descriptor (ae.c:493, memcached.c:1262).
THEOREM OwnersMatch == Spec => []ConnectionsMatch
<1>1. FdInv => ConnectionsMatch
  <2> SUFFICES ASSUME FdInv PROVE ConnectionsMatch
    OBVIOUS
  <2>1. FreeStructs = Elems(freeconns)
    BY DEF FreeStructs, Elems
  <2> QED BY <2>1 DEF FdInv, Owners, FiredGood, ConnectionsMatch
<1> QED BY <1>1, FdInvariant, PTL

\* The masks of the event loop, the descriptors epoll watches and the open
\* descriptors are the same set, so ADD and MOD are never confused (ae.c:94).
THEOREM EpollAgrees == Spec => []EventsMatchEpoll
<1>1. FdInv => EventsMatchEpoll
  BY DEF FdInv, NullIsFree, EventsMatchEpoll
<1> QED BY <1>1, FdInvariant, PTL

\* maxfd is the largest descriptor with an event (ae.c:240, 255).
THEOREM MaxfdCorrect == Spec => []MaxfdIsLargest
<1>1. FdInv => MaxfdIsLargest
  BY DEF FdInv
<1> QED BY <1>1, FdInvariant, PTL

\* No path through conn_new and conn_close loses a structure, frees it twice or
\* miscounts the connections, with any number of them (connection.c:97, 170).
THEOREM ConnsCounted == Spec => []ConnsAccounted
<1>1. FdInv => ConnsAccounted
  <2> SUFFICES ASSUME FdInv PROVE ConnsAccounted
    OBVIOUS
  <2>1. FreeStructs = Elems(freeconns)
    BY DEF FreeStructs, Elems
  <2> QED BY <2>1 DEF FdInv, Bound, FreeGood, NoDup, ConnsAccounted
<1> QED BY <1>1, FdInvariant, PTL

-----------------------------------------------------------------------------
(* The timers and the clock *)

\* When a timer last ran, or was created.  The loop looked at its timers in that
\* second or later, but for clock_handler at most in the next one.
Armed(t) == when[t] - Period
TimersArmed ==
  /\ \A t \in Timers : Armed(t) \in Clock /\ Seconds(Armed(t)) <= lastTime
  /\ lastTime <= Seconds(Armed("clock_handler")) + 1
TimeOfClockHandler ==
  \/ current_time = (Seconds(Armed("clock_handler")) - Started) % RelTimeMod
  \/ current_time = 0 /\ Seconds(Armed("clock_handler")) = Started + 1
NoTimerFarAhead ==
  fn = "aeProcessEvents" => \A t \in Timers : when[t] < clock + (Period + Second)

TInv == TypeOK /\ TimersArmed /\ TimeOfClockHandler /\ NoTimerFarAhead /\ WaitBounded

LEMMA TimeInit ==
  ASSUME Init
  PROVE  TInv
<1>1. TypeOK
  BY FdInit DEF FdInv
<1>2. \A t \in Timers : Armed(t) \in Clock /\ Armed(t) <= clock /\ Seconds(Armed(t)) = Started + 1
  <2>1. PICK u \in Clock :
          /\ u <= clock /\ Seconds(u) = Started + 1
          /\ when = [timer \in Timers |-> (IF timer = "clock_handler" THEN u ELSE clock) + Period]
    BY DEF Init
  <2>2. clock \in Clock /\ Seconds(clock) = Started + 1 /\ clock \in Nat /\ u \in Nat /\ Period \in Nat
    BY EventLoopTypes DEF Init
  <2>3. \A t \in Timers : Armed(t) = IF t = "clock_handler" THEN u ELSE clock
    BY <2>1, <2>2 DEF Armed
  <2> QED BY <2>1, <2>2, <2>3
<1>3. lastTime = Started + 1 /\ current_time = 0 /\ fn = "aeProcessEvents" /\ Started \in Int
      /\ "clock_handler" \in Timers
  BY EventLoopTypes DEF Init, Timers
<1>4. TimersArmed /\ TimeOfClockHandler
  BY <1>2, <1>3 DEF TimersArmed, TimeOfClockHandler
<1>5. NoTimerFarAhead
  <2>1. \A t \in Timers : when[t] \in Nat /\ clock \in Nat /\ Period \in Nat /\ Second > 0 /\ Second \in Nat
    BY <1>1, EventLoopTypes DEF TypeOK
  <2> QED BY <1>2, <2>1 DEF NoTimerFarAhead, Armed
<1>6. WaitBounded
  BY <1>3 DEF WaitBounded
<1> QED BY <1>1, <1>4, <1>5, <1>6 DEF TInv

\* A clock that is behind the last look lets every timer run.
LEMMA TimeEventsTime ==
  ASSUME TInv, TypeOK', processTimeEvents
  PROVE  TInv'
<1> DEFINE now == Seconds(clock)
           due == [t \in Timers |-> IF now < lastTime THEN when[t] % Second ELSE when[t]]
<1>1. /\ when' = [t \in Timers |-> IF clock >= due[t] THEN clock + Period ELSE due[t]]
      /\ current_time' = IF clock >= due["clock_handler"]
                         THEN (now - Started) % RelTimeMod ELSE current_time
      /\ lastTime' = now /\ fn' = "aeProcessEvents" /\ clock' = clock
  BY DEF processTimeEvents
<1>2. /\ clock \in Clock /\ clock \in Nat /\ clock >= MinClock /\ MinClock >= Second
      /\ Second \in Nat \ {0} /\ Period = Second /\ lastTime \in Nat /\ MinClock \in Nat
      /\ Started \in Int /\ \A t \in Timers : when[t] \in Nat
  BY EventLoopTypes DEF TInv, TypeOK, Clock
<1>3. now \in Nat
  BY <1>2, SecondsType
<1>4. \A t \in Timers : now < lastTime => clock >= due[t]
  <2> SUFFICES ASSUME NEW t \in Timers, now < lastTime
               PROVE  clock >= due[t]
    OBVIOUS
  <2>1. due[t] = when[t] % Second
    OBVIOUS
  <2>2. when[t] % Second \in 0 .. Second - 1
    BY <1>2, SecondsType
  <2> QED BY <1>2, <2>1, <2>2
<1>5. \A t \in Timers : now >= lastTime => due[t] = when[t]
  BY <1>2, <1>3
<1>6. \A t \in Timers : \/ clock >= due[t] /\ when'[t] = clock + Period
                        \/ /\ ~ (clock >= due[t]) /\ now >= lastTime /\ clock < when[t]
                           /\ when'[t] = when[t]
  <2> HIDE DEF now
  <2>1. \A t \in Timers : due[t] \in Nat
    BY <1>2, EventLoopTypes
  <2> HIDE DEF due
  <2> QED BY <1>1, <1>2, <1>3, <1>4, <1>5, <2>1
<1> HIDE DEF now, due
<1>7. \A t \in Timers : \/ clock >= due[t] /\ Armed(t)' = clock
                        \/ /\ ~ (clock >= due[t]) /\ Armed(t)' = Armed(t) /\ now >= lastTime
                           /\ clock < Armed(t) + Second
  BY <1>2, <1>6 DEF Armed
<1>8. \A t \in Timers : Armed(t) \in Clock /\ Armed(t) \in Nat /\ Seconds(Armed(t)) \in Nat
                        /\ Seconds(Armed(t)) <= lastTime
  BY EventLoopTypes, SecondsType DEF TInv, TimersArmed
<1>9. \A t \in Timers : Armed(t)' \in Clock /\ Seconds(Armed(t)') <= now /\ now <= Seconds(Armed(t)') + 1
  <2> SUFFICES ASSUME NEW t \in Timers
               PROVE  Armed(t)' \in Clock /\ Seconds(Armed(t)') <= now /\ now <= Seconds(Armed(t)') + 1
    OBVIOUS
  <2>1. CASE Armed(t)' = clock
    <3>1. Seconds(Armed(t)') = now
      BY <2>1 DEF now
    <3> QED BY <2>1, <3>1, <1>2, <1>3
  <2>2. CASE Armed(t)' = Armed(t) /\ now >= lastTime /\ clock < Armed(t) + Second
    <3>1. now <= Seconds(Armed(t)) + 1
      BY <2>2, <1>2, <1>8, SecondsOrder DEF now
    <3>2. Seconds(Armed(t)') = Seconds(Armed(t))
      BY <2>2
    <3>3. Seconds(Armed(t)) <= now
      BY <2>2, <1>2, <1>3, <1>8
    <3> QED BY <2>2, <3>1, <3>2, <3>3, <1>8
  <2> QED BY <2>1, <2>2, <1>7
<1>10. "clock_handler" \in Timers
  BY DEF Timers
<1>11. TimersArmed'
  BY <1>1, <1>9, <1>10 DEF TimersArmed
<1>12. TimeOfClockHandler'
  <2>1. CASE clock >= due["clock_handler"] /\ Armed("clock_handler")' = clock
    <3>1. Seconds(Armed("clock_handler")') = now
      BY <2>1 DEF now
    <3> QED BY <2>1, <3>1, <1>1 DEF TimeOfClockHandler
  <2>2. CASE ~ (clock >= due["clock_handler"]) /\ Armed("clock_handler")' = Armed("clock_handler")
    <3>1. Seconds(Armed("clock_handler")') = Seconds(Armed("clock_handler")) /\ current_time' = current_time
      BY <2>2, <1>1
    <3> QED BY <3>1 DEF TInv, TimeOfClockHandler
  <2> QED BY <2>1, <2>2, <1>7, <1>10
<1>13. NoTimerFarAhead'
  <2>1. \A t \in Timers : Armed(t)' < clock + Second
    <3> SUFFICES ASSUME NEW t \in Timers PROVE Armed(t)' < clock + Second
      OBVIOUS
    <3>1. Armed(t)' \in Clock /\ Armed(t)' \in Nat /\ Seconds(Armed(t)') <= now
      BY <1>9, EventLoopTypes
    <3> QED BY <3>1, <1>2, SecondsOrder DEF now
  <2>2. \A t \in Timers : when'[t] = Armed(t)' + Period /\ Armed(t)' \in Nat
    <3>1. \A t \in Timers : when'[t] \in Nat /\ Armed(t)' \in Nat
      BY <1>9, EventLoopTypes DEF TypeOK
    <3> QED BY <1>2, <3>1 DEF Armed
  <2>3. \A t \in Timers : when'[t] < clock' + (Period + Second)
    BY <1>1, <1>2, <2>1, <2>2
  <2> QED BY <2>3 DEF NoTimerFarAhead, Period
<1>14. WaitBounded'
  BY <1>1 DEF WaitBounded
<1> QED BY <1>11, <1>12, <1>13, <1>14 DEF TInv

LEMMA PollTime ==
  ASSUME TInv, TypeOK', aeApiPoll
  PROVE  TInv'
<1>1. /\ left' = Timeout(clock) /\ fn = "aeProcessEvents" /\ fn' = "epoll_wait"
      /\ UNCHANGED <<clock, when, lastTime, current_time>>
  BY DEF aeApiPoll
<1>2. /\ Period \in Nat /\ Second \in Nat \ {0} /\ clock \in Nat
      /\ aeSearchNearestTimer \in Timers /\ when[aeSearchNearestTimer] \in Nat
  BY EventLoopTypes, Nearest DEF TInv, TypeOK
<1>3. when[aeSearchNearestTimer] < clock + (Period + Second)
  BY <1>1, <1>2 DEF TInv, NoTimerFarAhead
<1>4. (when[aeSearchNearestTimer] - clock) % Second < Second
  BY <1>2
<1>5. Timeout(clock) < Period + Second
  BY <1>2, <1>3, <1>4 DEF Timeout
<1>6. WaitBounded'
  BY <1>1, <1>5 DEF WaitBounded, Period
<1>7. TimersArmed' /\ TimeOfClockHandler' /\ NoTimerFarAhead'
  BY <1>1 DEF TInv, TimersArmed, TimeOfClockHandler, NoTimerFarAhead, Armed
<1> QED BY <1>6, <1>7 DEF TInv

\* Time passes while the loop waits or is about to.
LEMMA TickTime ==
  ASSUME TInv, TypeOK', tick
  PROVE  TInv'
<1>1. /\ clock' = clock + 1 /\ left' = (IF fn = "epoll_wait" /\ left > 0 THEN left - 1 ELSE left)
      /\ UNCHANGED <<when, lastTime, current_time, fn>>
  BY DEF tick
<1>2. /\ clock \in Nat /\ left \in Nat /\ Period \in Nat /\ Second \in Nat
      /\ \A t \in Timers : when[t] \in Nat
  BY EventLoopTypes DEF TInv, TypeOK
<1>3. TimersArmed' /\ TimeOfClockHandler'
  BY <1>1 DEF TInv, TimersArmed, TimeOfClockHandler, Armed
<1>4. NoTimerFarAhead' /\ WaitBounded'
  BY <1>1, <1>2 DEF TInv, NoTimerFarAhead, WaitBounded, Period
<1> QED BY <1>3, <1>4 DEF TInv

\* The other steps leave the timers alone, and end elsewhere than before a wait.
LEMMA OtherTime ==
  ASSUME TInv, TypeOK', UNCHANGED <<when, lastTime, current_time>>,
         (fn' = "aeProcessEvents" \/ fn' = "epoll_wait") => fn' = fn /\ left' = left,
         fn' = "aeProcessEvents" => clock' = clock
  PROVE  TInv'
BY DEF TInv, TimersArmed, TimeOfClockHandler, NoTimerFarAhead, WaitBounded, Armed, Period

LEMMA TimeStep ==
  ASSUME TInv, TypeOK', [Next]_vars
  PROVE  TInv'
<1>1. CASE aeApiPoll
  BY <1>1, PollTime
<1>2. CASE processTimeEvents
  BY <1>2, TimeEventsTime
<1>3. CASE tick
  BY <1>3, TickTime
<1>4. CASE epoll_return \/ file_event \/ events_done \/ accept_none \/ serve_return \/ serve_close
  <2>1. /\ UNCHANGED <<when, lastTime, current_time, clock>>
        /\ fn' \notin {"aeProcessEvents", "epoll_wait"}
    BY <1>4 DEF epoll_return, file_event, events_done, accept_none, serve_return, serve_close, Return,
                timeVars
  <2> QED BY <2>1, OtherTime
<1>5. CASE accept_error \/ serve_more \/ UNCHANGED vars
  <2>1. UNCHANGED <<when, lastTime, current_time, clock, fn, left>>
    BY <1>5 DEF accept_error, serve_more, vars, timeVars
  <2> QED BY <2>1, OtherTime
<1>6. ASSUME NEW k \in Clients, accept_refused(k) \/ \E fd \in FreeFds : accept(k, fd)
      PROVE  TInv'
  <2>1. UNCHANGED <<when, lastTime, current_time, clock, fn, left>>
    BY <1>6 DEF accept_refused, accept, timeVars
  <2> QED BY <2>1, OtherTime
<1>7. ASSUME NEW k \in Clients, client_connect(k) \/ client_send(k)
      PROVE  TInv'
  <2>1. UNCHANGED <<when, lastTime, current_time, clock, fn, left>>
    BY <1>7 DEF client_connect, client_send, timeVars
  <2> QED BY <2>1, OtherTime
<1>8. ASSUME NEW t \in Clock, clock_set(t)
      PROVE  TInv'
  <2>1. UNCHANGED <<when, lastTime, current_time, fn, left>> /\ fn = "epoll_wait"
    BY <1>8 DEF clock_set
  <2> QED BY <2>1, OtherTime
<1> QED BY <1>1, <1>2, <1>3, <1>4, <1>5, <1>6, <1>7, <1>8 DEF Next, Server, Environment

LEMMA TimeInvariant == Spec => []TInv
<1>1. Init => TInv
  BY TimeInit
<1>2. TInv /\ TypeOK' /\ [Next]_vars => TInv'
  BY TimeStep
<1> QED BY <1>1, <1>2, TypeCorrect, PTL DEF Spec

\* current_time never falls behind the timers by more than a second, for any
\* movement of the clock and any length of a second (ae.c:369).
THEOREM TimeFresh == Spec => []CurrentTimeFresh
<1>1. TInv => CurrentTimeFresh
  <2> SUFFICES ASSUME TInv PROVE CurrentTimeFresh
    OBVIOUS
  <2> DEFINE last == Seconds(Armed("clock_handler"))
  <2>1. last \in Nat /\ last <= lastTime /\ lastTime <= last + 1 /\ lastTime \in Nat /\ Started \in Int
    <3>1. "clock_handler" \in Timers
      BY DEF Timers
    <3> QED BY <3>1, EventLoopTypes, SecondsType DEF TInv, TimersArmed, TypeOK
  <2>2. current_time = (last - Started) % RelTimeMod \/ (current_time = 0 /\ last = Started + 1)
    BY DEF TInv, TimeOfClockHandler
  <2> HIDE DEF last
  <2>3. last = lastTime \/ last = lastTime - 1
    BY <2>1
  <2>4. lastTime - 1 - Started = (lastTime - 1) - Started
    BY <2>1
  <2>5. current_time = 0 /\ last = Started + 1 => lastTime \in {Started + 1, Started + 2}
    BY <2>1, <2>3
  <2> QED BY <2>2, <2>3, <2>4, <2>5 DEF CurrentTimeFresh
<1> QED BY <1>1, TimeInvariant, PTL

\* epoll_wait never waits for two periods, for any movement of the clock
\* (ae.c:370, 471).
THEOREM NeverSleepsLong == Spec => []WaitBounded
<1>1. TInv => WaitBounded
  BY DEF TInv
<1> QED BY <1>1, TimeInvariant, PTL

=============================================================================
