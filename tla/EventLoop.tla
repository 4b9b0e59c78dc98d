------------------------------ MODULE EventLoop ------------------------------
(***************************************************************************)
(* ae.c, and what memcached.c and connection.c hang into it: the loop      *)
(* aeMain around epoll_wait, the file events of the listening socket and   *)
(* of the connections (accept, conn_new, conn_close), and the two timers,  *)
(* which compare with a wall clock that anybody may set.                   *)
(*                                                                         *)
(* The kernel is the table of descriptors `socket', the set of descriptors *)
(* epoll watches and the backlog of the listening socket, descriptor 0.    *)
(* What a handler does with the bytes of its connection is the subject of  *)
(* Connection; here it reads them, leaves them, or closes the connection,  *)
(* and may go on for as long as more of them come.                         *)
(***************************************************************************)
EXTENDS Integers, FiniteSetsExt, SequencesExt

CONSTANTS
  NULL, LISTEN,
  Clients,
  AE_SETSIZE,         \* descriptors the event loop can track: 10240
  MaxFds,             \* bound: the descriptors are those below
  Rlims,              \* values of RLIMIT_NOFILE, one of which is chosen
  Structs,            \* addresses that malloc can give to a struct conn
  FreeTotal,          \* initial size of freeconns: 200
  Second,             \* units of time in a second: 1000 in the code
  MinClock, MaxClock, \* bound: the values of the wall clock
  Started,            \* stats.started, a second before the start
  RelTimeMod          \* rel_time_t is unsigned: 2^32

ASSUME EventLoopAssumption ==
  /\ NULL \notin Clients \cup Structs /\ LISTEN \notin Clients \cup {NULL}
  /\ IsFiniteSet(Clients) /\ IsFiniteSet(Structs) /\ Structs # {}
  /\ AE_SETSIZE \in Nat \ {0} /\ MaxFds \in Nat \ {0} /\ Rlims \subseteq 1 .. MaxFds
  /\ FreeTotal \in Nat \ {0}
  /\ Second \in Nat \ {0}
  /\ MinClock \in Nat /\ MaxClock \in Nat /\ Second <= MinClock
  /\ Started \in Int /\ RelTimeMod \in Nat \ {0}

VARIABLES
  peer,       \* each client: "away", "quiet", or "input": unread bytes or the
              \* end of its stream
  rlim,       \* RLIMIT_NOFILE
  socket,     \* what each descriptor is: a client's, LISTEN, or NULL (free)
  interest,   \* descriptors epoll watches for reading
  events,     \* descriptors with mask AE_READABLE in eventLoop->events
  clientData, \* of eventLoop->events
  maxfd,
  fired,      \* the fired events not handled yet
  structs,    \* the structs conn that are allocated
  sfd, state, \* c->sfd, and whether c->state is conn_listening
  freeconns, freetotal, curr_conns,
  clock,      \* the wall clock, in units
  when,       \* when each time event is due
  lastTime,   \* eventLoop->lastTime
  left,       \* what remains of the time epoll_wait may wait
  current_time,
  fn, c       \* the function running, and the connection of drive_machine

kernelVars == <<peer, rlim, socket, interest>>
eventVars == <<events, clientData, maxfd>>
connVars == <<structs, sfd, state, freeconns, freetotal, curr_conns>>
timeVars == <<clock, when, lastTime, left, current_time>>
vars == <<kernelVars, eventVars, fired, connVars, timeVars, fn, c>>

Fds == 0 .. MaxFds - 1
Timers == {"clock_handler", "timer_delete_handler"}
Period == Second  \* both handlers return 1000
Clock == MinClock .. MaxClock
RelTime == 0 .. RelTimeMod - 1

TypeOK ==
  /\ peer \in [Clients -> {"away", "quiet", "input"}]
  /\ rlim \in Rlims
  /\ socket \in [Fds -> Clients \cup {LISTEN, NULL}]
  /\ interest \subseteq Fds /\ events \subseteq Fds
  /\ clientData \in [Fds -> Structs \cup {NULL}]
  /\ maxfd \in Fds \cup {-1}
  /\ fired \in Seq(Fds)
  /\ structs \subseteq Structs
  /\ sfd \in [Structs -> Fds \cup {NULL}]
  /\ state \in [Structs -> {"conn_listening", "conn_read"}]
  /\ freeconns \in Seq(Structs) /\ freetotal \in Nat /\ curr_conns \in Nat
  /\ clock \in Clock /\ when \in [Timers -> Nat] /\ lastTime \in Nat
  /\ left \in Nat /\ current_time \in RelTime
  /\ fn \in {"aeProcessEvents", "epoll_wait", "file_events", "drive_machine",
             "processTimeEvents"}
  /\ c \in Structs \cup {NULL}

Seconds(t) == t \div Second

\* Which address malloc returns does not matter.
l_conn == CHOOSE s \in Structs : TRUE

\* What main() leaves behind: one listening connection, and the two time
\* events, created one after the other.
Init ==
  /\ peer = [k \in Clients |-> "away"]
  /\ rlim \in Rlims
  /\ socket = [fd \in Fds |-> IF fd = 0 THEN LISTEN ELSE NULL]
  /\ interest = {0} /\ events = {0} /\ maxfd = 0 /\ fired = <<>>
  /\ structs = {l_conn}
  /\ clientData = [fd \in Fds |-> IF fd = 0 THEN l_conn ELSE NULL]
  /\ sfd = [s \in Structs |-> IF s = l_conn THEN 0 ELSE NULL]
  /\ state = [s \in Structs |-> IF s = l_conn THEN "conn_listening" ELSE "conn_read"]
  /\ freeconns = <<>> /\ freetotal = FreeTotal /\ curr_conns = 1
  /\ clock \in {t \in Clock : Seconds(t) = Started + 1}
  /\ \E t \in Clock :
       /\ t <= clock /\ Seconds(t) = Started + 1
       /\ when = [timer \in Timers |-> (IF timer = "clock_handler" THEN t ELSE clock) + Period]
  /\ lastTime = Started + 1 /\ left = 0 /\ current_time = 0
  /\ fn = "aeProcessEvents" /\ c = NULL

-----------------------------------------------------------------------------
(* The clients and the kernel *)

client_connect(k) ==
  /\ peer[k] = "away"
  /\ peer' = [peer EXCEPT ![k] = "quiet"]
  /\ UNCHANGED <<rlim, socket, interest, eventVars, fired, connVars, timeVars, fn, c>>

client_send(k) ==
  /\ peer[k] = "quiet"
  /\ peer' = [peer EXCEPT ![k] = "input"]
  /\ UNCHANGED <<rlim, socket, interest, eventVars, fired, connVars, timeVars, fn, c>>

\* Connected, and not accepted yet.
Backlog == {k \in Clients : peer[k] # "away" /\ \A fd \in Fds : socket[fd] # k}

Readable(fd) ==
  \/ socket[fd] = LISTEN /\ Backlog # {}
  \/ socket[fd] \in Clients /\ peer[socket[fd]] = "input"

FreeFds == {fd \in Fds : fd < rlim /\ socket[fd] = NULL}

\* Time passes.
tick ==
  /\ fn \in {"aeProcessEvents", "epoll_wait"} /\ clock < MaxClock
  /\ clock' = clock + 1
  /\ left' = IF fn = "epoll_wait" /\ left > 0 THEN left - 1 ELSE left
  /\ UNCHANGED <<kernelVars, eventVars, fired, connVars, when, lastTime, current_time, fn, c>>

\* Somebody sets the wall clock.  epoll_wait counts on its own.  Nothing reads
\* the clock between the end of the wait and the timers, so this is also the time
\* the handlers take, and what is done to the clock meanwhile.
clock_set(t) ==
  /\ fn = "epoll_wait"
  /\ clock' = t
  /\ UNCHANGED <<kernelVars, eventVars, fired, connVars, when, lastTime, left, current_time,
                 fn, c>>

-----------------------------------------------------------------------------
(* The loop *)

aeSearchNearestTimer == CHOOSE t \in Timers : \A other \in Timers : when[t] <= when[other]

\* Mutant: an overdue timer gives a negative time.
Timeout_bug(now) == when[aeSearchNearestTimer] - now

\* tv_sec is cut off at 0, tv_usec has been carried: a timer that is overdue
\* still waits for the fraction of the second.
Timeout(now) ==
  LET missing == when[aeSearchNearestTimer] - now
  IN  IF missing >= 0 THEN missing ELSE missing % Second

aeApiPoll ==
  /\ fn = "aeProcessEvents"
  /\ left' = Timeout(clock)
  /\ fn' = "epoll_wait"
  /\ UNCHANGED <<kernelVars, eventVars, fired, connVars, clock, when, lastTime, current_time, c>>

\* epoll is level triggered and promises no order.
epoll_return ==
  LET ready == {fd \in interest : Readable(fd)}
  IN  /\ fn = "epoll_wait" /\ (ready # {} \/ left = 0)
      /\ fired' \in SetToSeqs(ready)
      /\ fn' = "file_events" /\ left' = 0
      /\ UNCHANGED <<kernelVars, eventVars, connVars, clock, when, lastTime, current_time, c>>

\* Mutant: the last fired event is not looked at.
events_done_bug ==
  /\ fn = "file_events" /\ Len(fired) <= 1
  /\ fn' = "processTimeEvents" /\ fired' = <<>>
  /\ UNCHANGED <<kernelVars, eventVars, connVars, timeVars, c>>

events_done ==
  /\ fn = "file_events" /\ fired = <<>>
  /\ fn' = "processTimeEvents"
  /\ UNCHANGED <<kernelVars, eventVars, fired, connVars, timeVars, c>>

-----------------------------------------------------------------------------
(* File events *)

\* c->rsize may be above READ_BUFFER_HIGHWAT, and then the structure is freed.
\* Otherwise it goes into freeconns, which doubles when it is full.
conn_free(s) ==
  \/ structs' = structs \ {s} /\ UNCHANGED <<freeconns, freetotal>>
  \/ /\ freeconns' = Append(freeconns, s)
     /\ freetotal' = IF Len(freeconns) < freetotal THEN freetotal ELSE freetotal * 2
     /\ UNCHANGED structs

\* Mutant: the search for the new maximum starts below the next descriptor.
aeDeleteFileEvent_bug(fd) ==
  /\ events' = events \ {fd}
  /\ IF fd # maxfd THEN UNCHANGED maxfd
     ELSE /\ maxfd' \in (events \ {fd, fd - 1}) \cup {-1}
          /\ \A n \in events \ {fd, fd - 1} : n <= maxfd'

aeDeleteFileEvent(fd) ==
  /\ events' = events \ {fd}
  /\ IF fd # maxfd THEN UNCHANGED maxfd
     ELSE /\ maxfd' \in (events \ {fd}) \cup {-1}
          /\ \A n \in events \ {fd} : n <= maxfd'

\* close() tells the client, and takes the descriptor out of epoll.
close(fd) ==
  /\ socket' = [socket EXCEPT ![fd] = NULL]
  /\ peer' = [k \in Clients |-> IF socket[fd] = k THEN "away" ELSE peer[k]]
  /\ interest' = interest \ {fd}

\* Mutant: aeDeleteFileEvent is not called.
conn_close_bug(s) ==
  /\ UNCHANGED <<events, maxfd>>
  /\ close(sfd[s])
  /\ conn_free(s)
  /\ curr_conns' = curr_conns - 1
  /\ UNCHANGED <<rlim, clientData, sfd, state>>

conn_close(s) ==
  /\ aeDeleteFileEvent(sfd[s])
  /\ close(sfd[s])
  /\ conn_free(s)
  /\ curr_conns' = curr_conns - 1
  /\ UNCHANGED <<rlim, clientData, sfd, state>>

\* An event of a descriptor that an earlier handler closed is skipped, unless
\* the descriptor has been opened again.  event_handler compares descriptors.
file_event ==
  /\ fn = "file_events" /\ fired # <<>>
  /\ fired' = Tail(fired)
  /\ LET fd == Head(fired)
         s == clientData[fd]
     IN  IF fd \in events /\ sfd[s] = fd
         THEN /\ fn' = "drive_machine" /\ c' = s
              /\ UNCHANGED <<kernelVars, eventVars, connVars>>
         ELSE /\ UNCHANGED <<fn, c>>
              /\ IF fd \in events THEN conn_close(s)
                 ELSE UNCHANGED <<kernelVars, eventVars, connVars>>
  /\ UNCHANGED timeVars

Return == fn' = "file_events" /\ c' = NULL

-----------------------------------------------------------------------------
(* drive_machine on the listening connection *)

Accepting == fn = "drive_machine" /\ state[c] = "conn_listening"

accept_none ==
  /\ Accepting /\ Backlog = {} /\ FreeFds # {}
  /\ Return
  /\ UNCHANGED <<kernelVars, eventVars, fired, connVars, timeVars>>

\* Linux takes a descriptor before it looks at the backlog: without one the
\* answer is EMFILE even when nobody waits, and that is no reason to leave the
\* loop of drive_machine.
accept_error ==
  /\ Accepting /\ FreeFds = {}
  /\ UNCHANGED vars

\* fcntl or malloc fails: the client's connection is closed.
accept_refused(k) ==
  /\ Accepting /\ k \in Backlog /\ FreeFds # {}
  /\ peer' = [peer EXCEPT ![k] = "away"]
  /\ UNCHANGED <<rlim, socket, interest, eventVars, fired, connVars, timeVars, fn, c>>

\* The structure conn_new uses: the last of freeconns or a new one.
Available == freeconns # <<>> \/ structs # Structs
Taken == IF freeconns # <<>> THEN Last(freeconns)
         ELSE CHOOSE s \in Structs : s \notin structs
FreeLeft == IF freeconns # <<>> THEN Front(freeconns) ELSE freeconns

\* EPOLL_CTL_ADD needs a descriptor epoll does not watch, EPOLL_CTL_MOD one
\* that it does.
EpollCtlOk(fd) == (fd \in events) <=> (fd \in interest)

\* Mutant: a structure taken from freeconns keeps its descriptor.
conn_new_bug(k, fd) ==
  LET s == Taken
  IN  /\ fd < AE_SETSIZE /\ EpollCtlOk(fd)
      /\ socket' = [socket EXCEPT ![fd] = k]
      /\ interest' = interest \cup {fd} /\ events' = events \cup {fd}
      /\ clientData' = [clientData EXCEPT ![fd] = s]
      /\ maxfd' = IF fd > maxfd THEN fd ELSE maxfd
      /\ sfd' = IF freeconns # <<>> THEN sfd ELSE [sfd EXCEPT ![s] = fd]
      /\ state' = [state EXCEPT ![s] = "conn_read"]
      /\ structs' = structs \cup {s} /\ freeconns' = FreeLeft
      /\ curr_conns' = curr_conns + 1
      /\ UNCHANGED <<peer, freetotal>>

conn_new(k, fd) ==
  LET s == Taken
  IN  /\ fd < AE_SETSIZE /\ EpollCtlOk(fd)
      /\ socket' = [socket EXCEPT ![fd] = k]
      /\ interest' = interest \cup {fd} /\ events' = events \cup {fd}
      /\ clientData' = [clientData EXCEPT ![fd] = s]
      /\ maxfd' = IF fd > maxfd THEN fd ELSE maxfd
      /\ sfd' = [sfd EXCEPT ![s] = fd]
      /\ state' = [state EXCEPT ![s] = "conn_read"]
      /\ structs' = structs \cup {s} /\ freeconns' = FreeLeft
      /\ curr_conns' = curr_conns + 1
      /\ UNCHANGED <<peer, freetotal>>

\* Mutant: the structure is put back with what the event loop failed to register.
conn_new_error_bug(k, fd) ==
  LET s == Taken
  IN  /\ peer' = [peer EXCEPT ![k] = "away"]
      /\ sfd' = [sfd EXCEPT ![s] = fd]
      /\ state' = [state EXCEPT ![s] = "conn_read"]
      /\ structs' = structs \cup {s}
      /\ UNCHANGED <<socket, interest, eventVars, freeconns, freetotal, curr_conns>>

\* aeCreateFileEvent refuses the descriptor, or epoll_ctl fails: the structure
\* goes (back) into freeconns, where there is room for it, and the descriptor
\* is closed.
conn_new_error(k, fd) ==
  LET s == Taken
  IN  /\ peer' = [peer EXCEPT ![k] = "away"]
      /\ sfd' = [sfd EXCEPT ![s] = fd]
      /\ state' = [state EXCEPT ![s] = "conn_read"]
      /\ structs' = structs \cup {s}
      /\ freeconns' = Append(FreeLeft, s)
      /\ UNCHANGED <<socket, interest, eventVars, freetotal, curr_conns>>

\* accept returns the lowest free descriptor.
accept(k, fd) ==
  /\ Accepting /\ k \in Backlog /\ Available
  /\ fd \in FreeFds /\ \A other \in FreeFds : fd <= other
  /\ conn_new(k, fd) \/ conn_new_error(k, fd)
  /\ UNCHANGED <<rlim, fired, timeVars, fn, c>>

-----------------------------------------------------------------------------
(* drive_machine on the connection of a client *)

Serving == fn = "drive_machine" /\ state[c] = "conn_read"

\* What the client has sent is read, executed and answered.  Nothing limits how
\* often: a client that keeps sending, and reads its answers, keeps the handler.
serve_more ==
  /\ Serving /\ peer[socket[sfd[c]]] = "input"
  /\ peer' = [peer EXCEPT ![socket[sfd[c]]] = "quiet"]
  /\ UNCHANGED <<rlim, socket, interest, eventVars, fired, connVars, timeVars, fn, c>>

\* It returns when there is no more to read, or, with input left or not, when
\* a response blocks.  update_event only registers AE_READABLE once more.
serve_return ==
  /\ Serving
  /\ Return
  /\ UNCHANGED <<kernelVars, eventVars, fired, connVars, timeVars>>

\* quit, the end of the stream, or an error.
serve_close ==
  /\ Serving
  /\ conn_close(c)
  /\ Return
  /\ UNCHANGED <<fired, timeVars>>

-----------------------------------------------------------------------------
(* Time events *)

\* Mutant: lastTime is not updated.
processTimeEvents_bug ==
  LET now == Seconds(clock)
      due == [t \in Timers |-> IF now < lastTime THEN when[t] % Second ELSE when[t]]
  IN  /\ fn = "processTimeEvents"
      /\ when' = [t \in Timers |-> IF clock >= due[t] THEN clock + Period ELSE due[t]]
      /\ current_time' = IF clock >= due["clock_handler"]
                         THEN (now - Started) % RelTimeMod ELSE current_time
      /\ lastTime' = lastTime /\ fn' = "aeProcessEvents"
      /\ UNCHANGED <<kernelVars, eventVars, fired, connVars, clock, left, c>>

\* Mutant: a clock that was set back is not noticed.
processTimeEvents_bug2 ==
  LET now == Seconds(clock)
  IN  /\ fn = "processTimeEvents"
      /\ when' = [t \in Timers |-> IF clock >= when[t] THEN clock + Period ELSE when[t]]
      /\ current_time' = IF clock >= when["clock_handler"]
                         THEN (now - Started) % RelTimeMod ELSE current_time
      /\ lastTime' = now /\ fn' = "aeProcessEvents"
      /\ UNCHANGED <<kernelVars, eventVars, fired, connVars, clock, left, c>>

\* The clock does not move during this step.  When it is behind the last one
\* every when_sec becomes 0.  A timer that is due runs once and is due again a
\* period later; clock_handler sets current_time, timer_delete_handler is a
\* part of ItemStore.
processTimeEvents ==
  LET now == Seconds(clock)
      due == [t \in Timers |-> IF now < lastTime THEN when[t] % Second ELSE when[t]]
  IN  /\ fn = "processTimeEvents"
      /\ when' = [t \in Timers |-> IF clock >= due[t] THEN clock + Period ELSE due[t]]
      /\ current_time' = IF clock >= due["clock_handler"]
                         THEN (now - Started) % RelTimeMod ELSE current_time
      /\ lastTime' = now /\ fn' = "aeProcessEvents"
      /\ UNCHANGED <<kernelVars, eventVars, fired, connVars, clock, left, c>>

-----------------------------------------------------------------------------

Server ==
  \/ aeApiPoll \/ epoll_return \/ file_event \/ events_done \/ processTimeEvents
  \/ accept_none \/ accept_error \/ serve_more \/ serve_return \/ serve_close
  \/ \E k \in Clients : accept_refused(k) \/ \E fd \in FreeFds : accept(k, fd)

Environment ==
  \/ \E k \in Clients : client_connect(k) \/ client_send(k)
  \/ tick \/ \E t \in Clock : clock_set(t)

Next == Server \/ Environment

Spec == Init /\ [][Next]_vars

\* The server is a running thread, and epoll_wait returns when it may.
FairSpec == Spec /\ WF_vars(Server)

-----------------------------------------------------------------------------
(* Properties *)

FreeStructs == {freeconns[i] : i \in 1 .. Len(freeconns)}

\* A registered descriptor leads to a structure in use that has this very
\* descriptor, and an event that fired is still registered when its turn comes,
\* whatever the handlers before it closed and accepted: event_handler never
\* meets a wrong descriptor (ae.c:499, memcached.c:1262).
ConnectionsMatch ==
  /\ \A fd \in events : clientData[fd] \in structs \ FreeStructs /\ sfd[clientData[fd]] = fd
  /\ fn = "drive_machine" => sfd[c] \in events /\ clientData[sfd[c]] = c
  /\ \A i \in 1 .. Len(fired) : fired[i] \in events

\* Every open descriptor of a client and the listening one, and no other, is
\* watched by epoll and has its mask set: aeApiAddEvent chooses between ADD and
\* MOD by the mask, and a wrong choice refuses the connection (ae.c:94).
EventsMatchEpoll ==
  /\ interest = events
  /\ events = {fd \in Fds : socket[fd] # NULL}

\* maxfd is the largest registered descriptor, although aeDeleteFileEvent looks
\* for it only below the one it removes (ae.c:255-262).
MaxfdIsLargest == maxfd \in events \cup {-1} /\ \A fd \in events : fd <= maxfd

\* A structure is in use by one descriptor or in freeconns once, and
\* stats.curr_conns counts those in use, whatever path conn_new and conn_close
\* took (connection.c:97, 170).
ConnsAccounted ==
  /\ structs \ FreeStructs = {clientData[fd] : fd \in events}
  /\ FreeStructs \subseteq structs
  /\ \A i, j \in 1 .. Len(freeconns) : freeconns[i] = freeconns[j] => i = j
  /\ Len(freeconns) <= freetotal
  /\ curr_conns = Cardinality(events)

\* current_time is the second in which the loop last looked at its timers or the
\* one before, however the clock was set back and forth (ae.c:369); it is still
\* 0 until clock_handler has run for the first time, a second after the start.
CurrentTimeFresh ==
  \/ current_time \in {(lastTime - Started) % RelTimeMod, (lastTime - 1 - Started) % RelTimeMod}
  \/ current_time = 0 /\ lastTime \in {Started + 1, Started + 2}

\* The loop never sleeps for two seconds: neither a clock set back nor an
\* overdue timer keeps the timers from running (ae.c:370, 477).
WaitBounded == fn = "epoll_wait" => left < Period + Second

Handling(k) == fn = "drive_machine" /\ socket[sfd[c]] = k

\* A client that has sent something is served in the end, or its connection is
\* refused: it is accepted, its descriptor registered and never passed over for
\* ever, in whatever order epoll lists the events, and whatever is accepted, closed
\* and opened again in between (ae.c:484-509), as long as handlers return.  One
\* that does not takes the thread: the accept loop without descriptors or with
\* ever new clients (memcached.c:1058-1070), or a client that never stops sending
\* (memcached.c:1086-1092).
ReadyIsHandled ==
  []<>(fn # "drive_machine") =>
    \A k \in Clients : peer[k] = "input" ~> (Handling(k) \/ peer[k] = "away")

=============================================================================
