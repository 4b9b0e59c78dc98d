----------------------------- MODULE Connection -----------------------------
(***************************************************************************)
(* memcached.c and connection.c: one TCP connection, from conn_new through *)
(* the state machine drive_machine to conn_close, and the reuse of its     *)
(* structure for the next client.                                          *)
(*                                                                         *)
(* Bytes are abstracted to units.  A unit knows the number of the command  *)
(* it belongs to, and whether it ends in a newline, which is all that      *)
(* try_read_command looks at.  A command line is two units, the data of a  *)
(* set, add or replace DataUnits, and a response one or, for a get,        *)
(* GetUnits.  The client runs concurrently with the server, in steps of    *)
(* one unit; each iteration of a loop of the server is one step.           *)
(***************************************************************************)
EXTENDS Integers, SequencesExt, FiniteSets

CONSTANTS
  NULL,
  DATA_BUFFER_SIZE,     \* initial size of rbuf, in units
  READ_BUFFER_HIGHWAT,  \* conn_shrink shrinks an rbuf larger than this
  ReallocMayFail,       \* whether realloc may return NULL
  Managed,              \* settings.managed: a set may be refused at once
  DataUnits, GetUnits,
  OutCap,               \* units the network takes before the client reads
  MaxCmds, MaxConns     \* bounds: commands and connections in all

ASSUME ConnectionAssumption ==
  /\ NULL \notin Nat
  /\ DATA_BUFFER_SIZE \in Nat \ {0} /\ READ_BUFFER_HIGHWAT \in Nat
  /\ ReallocMayFail \in BOOLEAN /\ Managed \in BOOLEAN
  /\ DataUnits \in Nat \ {0} /\ GetUnits \in Nat \ {0} /\ OutCap \in Nat \ {0}
  /\ MaxCmds \in Nat /\ MaxConns \in Nat

VARIABLES
  \* the client and the network
  kinds,     \* kinds[k]: what command number k is
  first,     \* number of the first command of this client
  todo,      \* units of the last command not sent yet
  chan,      \* units the server has not read yet
  peer,      \* "open", "shut" (end of stream), "reset", or "broken": reset, and
             \* a read has reported it
  sock,      \* number of units sent to the client and not read by it
  written,   \* history: the command number of every unit sent to this client
  conns,     \* number of connections accepted
  \* struct conn
  state, write_and_go, ev_flags,
  rbuf,      \* the rbytes unparsed units from rcurr on
  rcurr,     \* rcurr - c->rbuf; NULL when it points into a buffer that was freed
  rsize, rlbytes, sbytes,
  iovused,   \* c->iovused > 0
  msgused,   \* c->msgused > 0
  wleft,     \* units of the response in iov and msglist not sent yet
  cmd,       \* the command being answered; 0 for an error of the connection
  \* the event loop
  mask,      \* events registered for the descriptor
  fn,        \* the function running: drive_machine, try_read_network, ...
  gotdata    \* the local variable of try_read_network

clientVars == <<kinds, first, todo, peer>>
readVars == <<rbuf, rcurr, rsize>>
countVars == <<rlbytes, sbytes>>
writeVars == <<iovused, msgused, wleft, cmd, sock, written>>
loopVars == <<ev_flags, mask, fn, gotdata>>
vars == <<clientVars, chan, conns, state, write_and_go, readVars, countVars,
          writeVars, loopVars>>

Kinds == {"get", "set", "other", "silent", "quit"}
\* A unit of what the client sends: the command it belongs to, its place in
\* it, and whether it ends in a newline.
Unit == [of : 1 .. MaxCmds, at : 1 .. DataUnits + 2, nl : BOOLEAN]
States == {"conn_read", "conn_nread", "conn_swallow", "conn_write", "conn_mwrite",
           "conn_closing", "closed"}

TypeOK ==
  /\ kinds \in Seq(Kinds) /\ first \in 1 .. MaxCmds + 1
  /\ todo \in Seq(Unit) /\ chan \in Seq(Unit) /\ rbuf \in Seq(Unit)
  /\ peer \in {"open", "shut", "reset", "broken"}
  /\ sock \in 0 .. OutCap /\ written \in Seq(0 .. MaxCmds) /\ conns \in 0 .. MaxConns
  /\ state \in States /\ write_and_go \in {"conn_read", "conn_swallow", "conn_closing"}
  /\ ev_flags \in {"AE_READABLE", "AE_WRITABLE"}
  /\ mask \subseteq {"AE_READABLE", "AE_WRITABLE"}
  /\ rcurr \in Nat \cup {NULL} /\ rsize \in Nat
  /\ rlbytes \in 0 .. DataUnits /\ sbytes \in 0 .. DataUnits
  /\ iovused \in BOOLEAN /\ msgused \in BOOLEAN /\ wleft \in Nat /\ cmd \in 0 .. MaxCmds
  /\ fn \in {"ae_loop", "drive_machine", "try_read_network"} /\ gotdata \in BOOLEAN

Init ==
  /\ kinds = <<>> /\ first = 1 /\ todo = <<>> /\ chan = <<>> /\ peer = "shut"
  /\ sock = 0 /\ written = <<>> /\ conns = 0
  /\ state = "closed" /\ write_and_go = "conn_read" /\ ev_flags = "AE_READABLE"
  /\ rbuf = <<>> /\ rcurr = 0 /\ rsize = DATA_BUFFER_SIZE
  /\ rlbytes = 0 /\ sbytes = 0
  /\ iovused = FALSE /\ msgused = FALSE /\ wleft = 0 /\ cmd = 0
  /\ mask = {} /\ fn = "ae_loop" /\ gotdata = FALSE

-----------------------------------------------------------------------------
(* The client and the network *)

unit(k, n) == [of |-> k, at |-> n, nl |-> n \in {2, DataUnits + 2}]
Size(kind) == IF kind = "set" THEN DataUnits + 2 ELSE 2
Units(k, kind) == [n \in 1 .. Size(kind) |-> unit(k, n)]

client_begin(kind) ==
  /\ state # "closed" /\ peer = "open" /\ todo = <<>> /\ Len(kinds) < MaxCmds
  /\ kinds' = Append(kinds, kind)
  /\ todo' = Units(Len(kinds) + 1, kind)
  /\ UNCHANGED <<first, peer, chan, conns, state, write_and_go, readVars, countVars,
                 writeVars, loopVars>>

client_send ==
  /\ state # "closed" /\ peer = "open" /\ todo # <<>>
  /\ chan' = Append(chan, Head(todo))
  /\ todo' = Tail(todo)
  /\ UNCHANGED <<kinds, first, peer, conns, state, write_and_go, readVars, countVars,
                 writeVars, loopVars>>

Broken == peer \in {"reset", "broken"}

client_read ==
  /\ sock > 0 /\ ~ Broken
  /\ sock' = sock - 1
  /\ UNCHANGED <<clientVars, chan, conns, state, write_and_go, readVars, countVars,
                 iovused, msgused, wleft, cmd, written, loopVars>>

\* The client ends its stream, or the connection breaks and what the server
\* has not read is lost.
client_close(how) ==
  /\ state # "closed" /\ peer = "open"
  /\ peer' = how
  /\ chan' = IF how = "reset" THEN <<>> ELSE chan
  /\ UNCHANGED <<kinds, first, todo, conns, state, write_and_go, readVars, countVars,
                 writeVars, loopVars>>

-----------------------------------------------------------------------------
(* Opening, events, closing *)

\* A fresh structure, or the last one of freeconns.
conn_new ==
  /\ fn = "ae_loop" /\ state = "closed" /\ conns < MaxConns
  /\ conns' = conns + 1
  /\ first' = Len(kinds) + 1 /\ todo' = <<>> /\ chan' = <<>> /\ peer' = "open"
  /\ sock' = 0 /\ written' = <<>>
  /\ state' = "conn_read" /\ write_and_go' = "conn_read"
  /\ rbuf' = <<>> /\ rcurr' = 0 /\ rlbytes' = 0
  /\ iovused' = FALSE /\ msgused' = FALSE /\ wleft' = 0 /\ cmd' = 0
  /\ ev_flags' = "AE_READABLE" /\ mask' = {"AE_READABLE"}
  /\ UNCHANGED <<kinds, rsize, sbytes, fn, gotdata>>

Readable == chan # <<>> \/ peer # "open"
Writable == sock < OutCap \/ Broken

\* epoll is level triggered.
event_handler ==
  /\ fn = "ae_loop"
  /\ \/ "AE_READABLE" \in mask /\ Readable
     \/ "AE_WRITABLE" \in mask /\ Writable
  /\ fn' = "drive_machine"
  /\ UNCHANGED <<clientVars, chan, conns, state, write_and_go, readVars, countVars,
                 writeVars, ev_flags, mask, gotdata>>

Running(s) == fn = "drive_machine" /\ state = s

\* A structure with a large rbuf is freed, and the next one is malloc'ed.
conn_close ==
  /\ Running("conn_closing")
  /\ mask' = {}
  /\ rsize' = IF rsize > READ_BUFFER_HIGHWAT THEN DATA_BUFFER_SIZE ELSE rsize
  /\ state' = "closed"
  /\ fn' = "ae_loop"
  /\ UNCHANGED <<clientVars, chan, conns, write_and_go, rbuf, rcurr, countVars,
                 writeVars, ev_flags, gotdata>>

\* Wait for an event: update_event is called with new_flags, but what it
\* registers is AE_READABLE.  aeCreateFileEvent may fail.
wait_for(new_flags) ==
  \/ /\ ev_flags' = new_flags
     /\ mask' = IF ev_flags = new_flags THEN mask ELSE mask \cup {"AE_READABLE"}
     /\ fn' = "ae_loop"
     /\ UNCHANGED state
  \/ /\ ev_flags # new_flags
     /\ ev_flags' = new_flags
     /\ state' = "conn_closing" /\ fn' = "drive_machine"
     /\ UNCHANGED mask

\* realloc of rbuf to DATA_BUFFER_SIZE may fail, stay in place, or move;
\* rcurr is left where it was.
conn_shrink ==
  IF rsize > READ_BUFFER_HIGHWAT /\ Len(rbuf) < DATA_BUFFER_SIZE
  THEN \/ rsize' = DATA_BUFFER_SIZE /\ rcurr' \in {rcurr, NULL}
       \/ ReallocMayFail /\ UNCHANGED <<rsize, rcurr>>
  ELSE UNCHANGED <<rsize, rcurr>>

conn_set_state(s) ==
  /\ state' = s
  /\ IF s = "conn_read" /\ state # "conn_read" THEN conn_shrink
                                               ELSE UNCHANGED <<rsize, rcurr>>

Min2(a, b) == IF a <= b THEN a ELSE b

\* rcurr moves over the first n units of rbuf.
Consume(n) ==
  /\ rbuf' = SubSeq(rbuf, n + 1, Len(rbuf))
  /\ rcurr' = IF rcurr = NULL THEN NULL ELSE rcurr + n

-----------------------------------------------------------------------------
(* conn_read *)

\* The reply is in wbuf; conn_write sends it.
out_string(k, go) ==
  /\ conn_set_state("conn_write")
  /\ write_and_go' = go
  /\ cmd' = k

\* What the handlers do to the connection.  A set either reads its data into
\* an item, or gets no item and swallows them; in managed mode it may be
\* refused before that.
process_command(k, kind) ==
  \/ /\ kind = "get"
     /\ state' = "conn_mwrite" /\ wleft' = GetUnits /\ iovused' = TRUE /\ cmd' = k
     /\ UNCHANGED <<write_and_go, countVars>>
  \/ /\ kind = "other"
     /\ state' = "conn_write" /\ write_and_go' = "conn_read" /\ cmd' = k
     /\ wleft' = 0 /\ iovused' = FALSE
     /\ UNCHANGED countVars
  \/ /\ kind = "set"
     /\ state' = "conn_nread" /\ rlbytes' = DataUnits /\ cmd' = k
     /\ wleft' = 0 /\ iovused' = FALSE
     /\ UNCHANGED <<write_and_go, sbytes>>
  \/ /\ kind = "set"
     /\ \E go \in {"conn_swallow"} \cup (IF Managed THEN {"conn_read"} ELSE {}) :
          /\ write_and_go' = go
          /\ sbytes' = IF go = "conn_swallow" THEN DataUnits ELSE sbytes
     /\ state' = "conn_write" /\ cmd' = k
     /\ wleft' = 0 /\ iovused' = FALSE
     /\ UNCHANGED rlbytes
  \/ /\ kind \in {"silent", "quit"}
     /\ state' = IF kind = "quit" THEN "conn_closing" ELSE state
     /\ wleft' = 0 /\ iovused' = FALSE /\ cmd' = k
     /\ UNCHANGED <<write_and_go, countVars>>

LineEnds == {n \in DOMAIN rbuf : rbuf[n].nl}

\* A line that is not the line of a command gets the answer ERROR.
CommandOf(line) ==
  LET k == line[1].of
  IN  IF line = << unit(k, 1), unit(k, 2) >> THEN kinds[k] ELSE "other"

try_read_command ==
  /\ Running("conn_read")
  /\ \E n \in LineEnds :
       /\ \A m \in LineEnds : n <= m
       /\ process_command(rbuf[n].of, CommandOf(SubSeq(rbuf, 1, n)))
       /\ Consume(n)
  /\ msgused' = TRUE
  /\ UNCHANGED <<clientVars, chan, conns, rsize, sock, written, loopVars>>

\* Mutant: rcurr is not moved to the beginning of rbuf.
try_read_network_bug ==
  /\ Running("conn_read") /\ LineEnds = {}
  /\ gotdata' = FALSE
  /\ fn' = "try_read_network"
  /\ UNCHANGED <<clientVars, chan, conns, state, write_and_go, readVars, countVars,
                 writeVars, ev_flags, mask>>

try_read_network ==
  /\ Running("conn_read") /\ LineEnds = {}
  /\ rcurr' = 0
  /\ gotdata' = FALSE
  /\ fn' = "try_read_network"
  /\ UNCHANGED <<clientVars, chan, conns, state, write_and_go, rbuf, rsize, countVars,
                 writeVars, ev_flags, mask>>

\* The buffer is full and realloc fails: what was read is ignored and the
\* connection closes after an error.  conn_write only builds that message when
\* iovused is 0, and transmit only sends it when a command has been
\* processed before.
grow_fails ==
  /\ fn = "try_read_network" /\ Len(rbuf) >= rsize /\ ReallocMayFail
  /\ rbuf' = <<>>
  /\ out_string(0, "conn_closing")
  /\ fn' = "drive_machine"
  /\ UNCHANGED <<clientVars, chan, conns, countVars, iovused, msgused, wleft,
                 sock, written, ev_flags, mask, gotdata>>

grow ==
  /\ fn = "try_read_network" /\ Len(rbuf) >= rsize
  /\ rsize' = rsize * 2
  /\ rcurr' = 0
  /\ UNCHANGED <<clientVars, chan, conns, state, write_and_go, rbuf, countVars,
                 writeVars, loopVars>>

Reading == fn = "try_read_network" /\ Len(rbuf) < rsize

read_more ==
  /\ Reading /\ chan # <<>>
  /\ LET res == Min2(Len(chan), rsize - Len(rbuf))
     IN  /\ rbuf' = rbuf \o SubSeq(chan, 1, res)
         /\ chan' = SubSeq(chan, res + 1, Len(chan))
  /\ gotdata' = TRUE
  /\ UNCHANGED <<clientVars, conns, state, write_and_go, rcurr, rsize, countVars,
                 writeVars, ev_flags, mask, fn>>

\* End of stream: even complete commands in rbuf are not looked at.
read_eof ==
  /\ Reading /\ chan = <<>> /\ peer \in {"shut", "broken"}
  /\ state' = "conn_closing"
  /\ fn' = "drive_machine"
  /\ UNCHANGED <<clientVars, chan, conns, write_and_go, readVars, countVars,
                 writeVars, ev_flags, mask, gotdata>>

\* Mutant: the event loop is waited for as soon as the socket is empty.
read_end_bug ==
  /\ Reading /\ chan = <<>> /\ peer = "open"
  /\ wait_for("AE_READABLE")
  /\ UNCHANGED <<clientVars, chan, conns, write_and_go, readVars, countVars,
                 writeVars, gotdata>>

\* EAGAIN.  With new data the commands are looked at again, without new data
\* the event loop is waited for.
read_end ==
  /\ Reading /\ chan = <<>> /\ peer = "open"
  /\ IF gotdata THEN fn' = "drive_machine" /\ UNCHANGED <<state, ev_flags, mask>>
                ELSE wait_for("AE_READABLE")
  /\ UNCHANGED <<clientVars, chan, conns, write_and_go, readVars, countVars,
                 writeVars, gotdata>>

\* Another error, reported once: 0 is returned whatever was read before, and
\* the next read finds the end of the stream.
read_error ==
  /\ Reading /\ peer = "reset"
  /\ peer' = "broken"
  /\ wait_for("AE_READABLE")
  /\ UNCHANGED <<kinds, first, todo, chan, conns, write_and_go, readVars, countVars,
                 writeVars, gotdata>>

-----------------------------------------------------------------------------
(* conn_nread and conn_swallow *)

complete_nread ==
  /\ Running("conn_nread") /\ rlbytes = 0
  /\ out_string(cmd, "conn_read")
  /\ UNCHANGED <<clientVars, chan, conns, rbuf, countVars, iovused, msgused, wleft,
                 sock, written, loopVars>>

swallow_end ==
  /\ Running("conn_swallow") /\ sbytes = 0
  /\ conn_set_state("conn_read")
  /\ UNCHANGED <<clientVars, chan, conns, write_and_go, rbuf, countVars, writeVars,
                 loopVars>>

\* Mutant: everything in rbuf is taken for data.
nread_leftover_bug ==
  /\ Running("conn_nread") /\ rlbytes > 0 /\ rbuf # <<>>
  /\ rlbytes' = rlbytes - Min2(Len(rbuf), rlbytes)
  /\ Consume(Len(rbuf))
  /\ UNCHANGED <<clientVars, chan, conns, state, write_and_go, rsize, sbytes,
                 writeVars, loopVars>>

nread_leftover ==
  /\ Running("conn_nread") /\ rlbytes > 0 /\ rbuf # <<>>
  /\ LET tocopy == Min2(Len(rbuf), rlbytes)
     IN  rlbytes' = rlbytes - tocopy /\ Consume(tocopy)
  /\ UNCHANGED <<clientVars, chan, conns, state, write_and_go, rsize, sbytes,
                 writeVars, loopVars>>

\* Mutant: everything in rbuf is counted as swallowed.
swallow_leftover_bug ==
  /\ Running("conn_swallow") /\ sbytes > 0 /\ rbuf # <<>>
  /\ sbytes' = sbytes - Len(rbuf) /\ Consume(Len(rbuf))
  /\ UNCHANGED <<clientVars, chan, conns, state, write_and_go, rsize, rlbytes,
                 writeVars, loopVars>>

swallow_leftover ==
  /\ Running("conn_swallow") /\ sbytes > 0 /\ rbuf # <<>>
  /\ LET tocopy == Min2(Len(rbuf), sbytes)
     IN  sbytes' = sbytes - tocopy /\ Consume(tocopy)
  /\ UNCHANGED <<clientVars, chan, conns, state, write_and_go, rsize, rlbytes,
                 writeVars, loopVars>>

\* What is left comes straight from the socket, into the item or over rbuf.
nread_socket ==
  /\ Running("conn_nread") /\ rlbytes > 0 /\ rbuf = <<>> /\ chan # <<>>
  /\ LET res == Min2(Len(chan), rlbytes)
     IN  rlbytes' = rlbytes - res /\ chan' = SubSeq(chan, res + 1, Len(chan))
  /\ UNCHANGED <<clientVars, conns, state, write_and_go, readVars, sbytes,
                 writeVars, loopVars>>

swallow_socket ==
  /\ Running("conn_swallow") /\ sbytes > 0 /\ rbuf = <<>> /\ chan # <<>>
  /\ LET res == Min2(Len(chan), Min2(rsize, sbytes))
     IN  sbytes' = sbytes - res /\ chan' = SubSeq(chan, res + 1, Len(chan))
  /\ UNCHANGED <<clientVars, conns, state, write_and_go, readVars, rlbytes,
                 writeVars, loopVars>>

\* The socket is empty, at its end or broken.
data_missing ==
  /\ \/ Running("conn_nread") /\ rlbytes > 0
     \/ Running("conn_swallow") /\ sbytes > 0
  /\ rbuf = <<>> /\ chan = <<>>
  /\ IF peer = "open" THEN wait_for("AE_READABLE")
     ELSE state' = "conn_closing" /\ UNCHANGED <<ev_flags, mask, fn>>
  /\ UNCHANGED <<clientVars, chan, conns, write_and_go, readVars, countVars,
                 writeVars, gotdata>>

-----------------------------------------------------------------------------
(* conn_write and conn_mwrite *)

Writing == Running("conn_write") \/ Running("conn_mwrite")

\* What is left to send when transmit is called: conn_write first puts the
\* reply of one unit into iov, if iov is empty.  Without a message header
\* (msgused = 0, no command processed yet) add_iov writes before msglist, and
\* transmit finds nothing to send.
ToSend == IF iovused THEN wleft
          ELSE IF msgused THEN 1
          ELSE 0

transmit_some ==
  /\ Writing /\ ToSend > 0 /\ ~ Broken /\ sock < OutCap
  /\ LET res == Min2(ToSend, OutCap - sock)
     IN  /\ wleft' = ToSend - res
         /\ sock' = sock + res
         /\ written' = written \o [n \in 1 .. res |-> cmd]
  /\ iovused' = TRUE
  /\ UNCHANGED <<clientVars, chan, conns, state, write_and_go, readVars, countVars,
                 msgused, cmd, loopVars>>

\* EAGAIN, or an error.
transmit_blocked ==
  /\ Writing /\ ToSend > 0
  /\ \/ /\ ~ Broken /\ sock = OutCap
        /\ wait_for("AE_WRITABLE")
     \/ /\ Broken
        /\ state' = "conn_closing" /\ UNCHANGED <<ev_flags, mask, fn>>
  /\ wleft' = ToSend /\ iovused' = TRUE
  /\ UNCHANGED <<clientVars, chan, conns, write_and_go, readVars, countVars,
                 msgused, cmd, sock, written, gotdata>>

\* Mutant: a part of the response counts as all of it.
transmit_complete_bug ==
  /\ Writing
  /\ iovused' = TRUE /\ wleft' = 0
  /\ conn_set_state(IF state = "conn_mwrite" THEN "conn_read" ELSE write_and_go)
  /\ UNCHANGED <<clientVars, chan, conns, write_and_go, rbuf, countVars,
                 msgused, cmd, sock, written, loopVars>>

transmit_complete ==
  /\ Writing /\ ToSend = 0
  /\ iovused' = TRUE /\ wleft' = 0
  /\ conn_set_state(IF state = "conn_mwrite" THEN "conn_read" ELSE write_and_go)
  /\ UNCHANGED <<clientVars, chan, conns, write_and_go, rbuf, countVars,
                 msgused, cmd, sock, written, loopVars>>

-----------------------------------------------------------------------------

Client ==
  \/ \E kind \in Kinds : client_begin(kind)
  \/ client_send
  \/ client_read
  \/ \E how \in {"shut", "reset"} : client_close(how)

drive_machine ==
  \/ try_read_command \/ try_read_network
  \/ grow \/ grow_fails \/ read_more \/ read_eof \/ read_end \/ read_error
  \/ complete_nread \/ nread_leftover \/ nread_socket
  \/ swallow_end \/ swallow_leftover \/ swallow_socket
  \/ data_missing
  \/ transmit_some \/ transmit_blocked \/ transmit_complete
  \/ conn_close

Next == Client \/ conn_new \/ event_handler \/ drive_machine

Spec == Init /\ [][Next]_vars

\* An assumption about the rest of the server: the event loop comes back to this
\* connection when its descriptor is readable, and gives its handler the thread.
\* Another client whose handler never returns breaks it.  This client keeps
\* reading what it is sent.
Fairness == WF_vars(event_handler) /\ WF_vars(drive_machine) /\ WF_vars(client_read)

FairSpec == Spec /\ Fairness

-----------------------------------------------------------------------------
(* Properties *)

\* Data units the next bytes of the stream must be, before the next command.
Owed == IF state = "conn_nread" THEN rlbytes
        ELSE IF \/ state = "conn_swallow"
                \/ state = "conn_write" /\ write_and_go = "conn_swallow" THEN sbytes
        ELSE 0

GivingUp == \/ state \in {"conn_closing", "closed"}
            \/ state = "conn_write" /\ write_and_go = "conn_closing"

\* The command that begins at place i of s is there to its end, and the next
\* one follows unless it is the last.
WholeCommand(s, i) ==
  LET k == s[i].of
      end == i + Size(kinds[k])
  IN  /\ k <= Len(kinds) /\ end <= Len(s) + 1
      /\ \A j \in 1 .. Size(kinds[k]) : s[i + j - 1] = unit(k, j)
      /\ IF end > Len(s) THEN k = Len(kinds) ELSE s[end] = unit(k + 1, 1)

\* From place o + 1 on, s is the commands n, n + 1 up to the last one.
WholeCommands(s, o, n) ==
  /\ IF Len(s) = o THEN n = Len(kinds) + 1 ELSE s[o + 1] = unit(n, 1)
  /\ \A i \in o + 1 .. Len(s) : s[i].at = 1 => WholeCommand(s, i)

\* The command after those that have been parsed.
NextCommand == IF cmd = 0 THEN first ELSE cmd + 1

\* The connection never loses its place in the stream: what the server has
\* not consumed is the rest of the data it is reading or swallowing, then
\* the commands that follow; across short reads, data split between rbuf and
\* socket, growth of rbuf and pipelined commands (memcached.c:862-976,
\* 1102-1184).
InStep ==
  GivingUp \/ Broken \/
  LET s == rbuf \o chan \o todo
  IN  /\ Owed > 0 => cmd # 0
      /\ Owed <= Len(s)
      /\ \A i \in 1 .. Owed : s[i] = unit(cmd, DataUnits + 2 - Owed + i)
      /\ WholeCommands(s, Owed, NextCommand)

\* The units of the answer to command k, and how many of them were sent.
ReplySize(k) ==
  IF k \notin first .. Len(kinds) \/ (\E j \in first .. k : kinds[j] = "quit") THEN 0
  ELSE IF kinds[k] = "silent" THEN 0
  ELSE IF kinds[k] = "get" THEN GetUnits
  ELSE 1
Sent(k) == Cardinality({i \in DOMAIN written : written[i] = k})

\* The client gets the whole answers to its commands in their order, one for
\* each, and nothing of the connection that used the structure before it; an
\* error of the connection may only come last (memcached.c:997-1047,
\* 1189-1236).
RepliesInOrder ==
  /\ \A i, j \in DOMAIN written :
       i < j => written[i] # 0 /\ (written[j] = 0 \/ written[i] <= written[j])
  /\ \A k \in 1 .. MaxCmds : Sent(k) <= ReplySize(k)
  /\ \A i \in DOMAIN written, k \in 1 .. MaxCmds :
       k < written[i] => Sent(k) = ReplySize(k)

\* The unparsed bytes lie inside rbuf: "rcurr: but if we parsed some already,
\* this is where we stopped" (connection.h:31-34).
RcurrInsideRbuf ==
  rbuf # <<>> /\ state # "closed" => rcurr # NULL /\ rcurr + Len(rbuf) <= rsize

Received(k) == k \in first .. Len(kinds) /\ (k < Len(kinds) \/ todo = <<>>)
Answered(k) ==
  /\ k <= Len(kinds)
  /\ \A n \in DOMAIN rbuf : rbuf[n].of # k
  /\ \A n \in DOMAIN chan : chan[n].of # k
  /\ Sent(k) = ReplySize(k)

\* A command sent completely is answered unless its connection ends or blocks
\* in a response (BlockedResponseResumes is about those): no complete command
\* is left in rbuf or in the socket when the handler returns to the event loop
\* ("do as much I/O as possible until we block", memcached.c:1267).  The subject is
\* what this connection leaves behind; that other clients let the loop come back
\* to it is assumed (Fairness).
CommandsAnswered ==
  \A k \in 1 .. MaxCmds :
    Received(k) ~> (\/ Answered(k)
                     \/ state = "closed" \/ peer # "open"
                     \/ ev_flags = "AE_WRITABLE")

\* A response that could not be sent at once is sent when the client has read
\* what came before it: "Can't write any more right now" (memcached.c:994) and
\* "wait for next event" (memcached.c:1270).
BlockedResponseResumes ==
  (wleft > 0) ~> (wleft = 0 \/ state = "closed" \/ peer # "open")

=============================================================================
