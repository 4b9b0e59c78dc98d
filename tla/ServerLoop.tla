----------------------------- MODULE ServerLoop -----------------------------
(***************************************************************************)
(* aeMain around the handlers of ItemStore.  Each turn of the loop takes   *)
(* the descriptors that are ready, calls the handler of one after the      *)
(* other, and then the time events that are due.  A handler gives the      *)
(* thread back when it has nothing more to do for its descriptor, and      *)
(* nothing makes it do so earlier: neither the other connections nor the   *)
(* timers have their turn before.                                          *)
(***************************************************************************)
EXTENDS ItemStore

CONSTANT LISTEN   \* the listening connection

ASSUME ServerLoopAssumption == LISTEN \notin Conns \cup {NULL}

VARIABLES
  phase,      \* how far aeProcessEvents has come
  fired,      \* connections whose event is not handled yet
  due,        \* time events that this turn still has to run
  handling    \* the connection of the event_handler running

loopVars == <<phase, fired, due, handling>>
serverVars == <<vars, loopVars>>

Timers == {"clock_handler", "timer_delete_handler"}
Open == {c \in Conns : state[c] # "closed"}

ServerInit ==
  /\ Init
  /\ phase = "epoll_wait" /\ fired = {} /\ due = {} /\ handling = NULL

-----------------------------------------------------------------------------
(* The loop *)

\* Some descriptors are ready, or the nearest timer is.
epoll_return ==
  /\ phase = "epoll_wait"
  /\ fired' \in SUBSET ({LISTEN} \cup Open)
  /\ phase' = "file_events"
  /\ UNCHANGED <<vars, due, handling>>

file_event(f) ==
  /\ phase = "file_events" /\ handling = NULL /\ f \in fired
  /\ fired' = fired \ {f}
  /\ handling' = f
  /\ UNCHANGED <<vars, phase, due>>

\* Which timers have come due is the subject of EventLoop.
events_done ==
  /\ phase = "file_events" /\ handling = NULL /\ fired = {}
  /\ due' \in SUBSET Timers
  /\ phase' = "time_events"
  /\ UNCHANGED <<vars, fired, handling>>

\* timer_delete_handler was created last and is at the head of the list.
delete_timer ==
  /\ phase = "time_events" /\ "timer_delete_handler" \in due
  /\ timer_delete_handler
  /\ due' = due \ {"timer_delete_handler"}
  /\ UNCHANGED <<phase, fired, handling>>

delete_timer_runs ==
  /\ phase = "time_events"
  /\ timer_delete_step \/ timer_delete_end
  /\ UNCHANGED loopVars

clock_timer ==
  /\ phase = "time_events" /\ due = {"clock_handler"}
  /\ clock_handler
  /\ due' = {}
  /\ UNCHANGED <<phase, fired, handling>>

time_events_done ==
  /\ phase = "time_events" /\ fn = "ae_loop" /\ due = {}
  /\ phase' = "epoll_wait"
  /\ UNCHANGED <<vars, fired, due, handling>>

Loop ==
  \/ epoll_return
  \/ \E f \in {LISTEN} \cup Conns : file_event(f)
  \/ events_done
  \/ delete_timer
  \/ delete_timer_runs
  \/ clock_timer
  \/ time_events_done

-----------------------------------------------------------------------------
(* The handlers *)

\* accept, as often as clients wait.
accept ==
  /\ handling = LISTEN
  /\ \E c \in Conns : conn_new(c)
  /\ UNCHANGED loopVars

\* drive_machine goes from one command of its client to the next.
drive_machine(c) ==
  /\ handling = c
  /\ \/ Command(c)
     \/ \E k \in Keys : command_get_key(k)
     \/ command_get_end
     \/ \E v \in Vals, good \in BOOLEAN : complete_nread(c, v, good)
     \/ transmit_complete(c)
     \/ conn_close(c)
     \/ release_item
     \/ release_end
  /\ UNCHANGED loopVars

\* There is no more to read, or the response blocks.
handler_return ==
  /\ handling # NULL /\ fn = "ae_loop"
  /\ handling' = NULL
  /\ UNCHANGED <<vars, phase, fired, due>>

ServerNext ==
  \/ Loop
  \/ accept
  \/ \E c \in Conns : drive_machine(c)
  \/ handler_return

ServerSpec == ServerInit /\ [][ServerNext]_serverVars

-----------------------------------------------------------------------------
(* Liveness *)

\* The loop goes on whenever it has the thread; each timer comes due again
\* and again (WaitBounded and CurrentTimeFresh of EventLoop), and time passes.
\* Nothing is said of the handlers: no line of the code ends a handler whose
\* client keeps sending, or that of accept without a free descriptor.
Fairness ==
  /\ WF_serverVars(Loop)
  /\ \A t \in Timers : SF_serverVars(events_done /\ t \in due')
  /\ SF_serverVars(clock_timer /\ current_time' > current_time)

FairSpec == ServerSpec /\ Fairness

\* An entry of the delete queue is taken out once its lock is over, although
\* the timer compacts the queue while new deletes keep being appended between
\* its runs (memcached.c:1453-1472): unless one handler keeps the thread for
\* ever, because the timers run only after all those of a turn have returned
\* (ae.c:493-515).
DeletedItemsGo ==
  []<>(handling = NULL) =>
    \A i \in Chunks :
      (QueueHolds(i) # {} /\ store.item[i].exptime <= MaxTime) ~> QueueHolds(i) = {}

=============================================================================
