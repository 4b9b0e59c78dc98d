--------------------------- MODULE ConnectionProofs ---------------------------
(***************************************************************************)
(* Theorems about Connection: its types, that rcurr stays inside rbuf as   *)
(* long as conn_shrink leaves rbuf alone, that the server never loses its  *)
(* place in the stream, and that the answers come in order.                *)
(***************************************************************************)
EXTENDS Connection, SequenceTheorems, FiniteSetTheorems, TLAPS

USE DEF Kinds, States

-----------------------------------------------------------------------------
(* Lemmas on the operators *)

\* What is sent for a command is a sequence of units.
LEMMA UnitsType ==
  ASSUME NEW k \in 1 .. MaxCmds, NEW kind
  PROVE  /\ Units(k, kind) \in Seq(Unit) /\ Size(kind) \in 2 .. DataUnits + 2
         /\ Len(Units(k, kind)) = Size(kind)
<1>1. DataUnits \in Nat \ {0} /\ Size(kind) \in 2 .. DataUnits + 2
  BY ConnectionAssumption DEF Size
<1>2. \A n \in 1 .. Size(kind) : unit(k, n) \in Unit
  BY <1>1 DEF Unit, unit
<1> QED BY <1>1, <1>2 DEF Units

\* The rest of a sequence.
LEMMA RestType ==
  ASSUME NEW S, NEW s \in Seq(S), NEW n \in 0 .. Len(s)
  PROVE  /\ SubSeq(s, n + 1, Len(s)) \in Seq(S)
         /\ Len(SubSeq(s, n + 1, Len(s))) = Len(s) - n
         /\ SubSeq(s, 1, n) \in Seq(S) /\ Len(SubSeq(s, 1, n)) = n
  OBVIOUS

\* The smaller of two numbers.
LEMMA MinType ==
  ASSUME NEW a \in Nat, NEW b \in Nat
  PROVE  Min2(a, b) \in Nat /\ Min2(a, b) <= a /\ Min2(a, b) <= b
  BY DEF Min2
LEMMA MinIn ==
  ASSUME NEW a \in Nat, NEW b \in Nat
  PROVE  Min2(a, b) \in Nat /\ Min2(a, b) \in 0 .. a /\ Min2(a, b) \in 0 .. b
  BY DEF Min2

\* What waiting for an event leaves behind.
LEMMA WaitType ==
  ASSUME TypeOK, NEW flags \in {"AE_READABLE", "AE_WRITABLE"}, wait_for(flags)
  PROVE  /\ ev_flags' \in {"AE_READABLE", "AE_WRITABLE"} /\ state' \in States
         /\ mask' \subseteq {"AE_READABLE", "AE_WRITABLE"}
         /\ fn' \in {"ae_loop", "drive_machine"}
  BY DEF TypeOK, wait_for

\* A new state leaves rbuf alone unless it has to be shrunk.
LEMMA SetStateType ==
  ASSUME TypeOK, NEW s \in States, conn_set_state(s)
  PROVE  /\ state' = s /\ rsize' \in Nat /\ rcurr' \in Nat \cup {NULL}
         /\ rsize <= READ_BUFFER_HIGHWAT => rsize' = rsize /\ rcurr' = rcurr
  BY ConnectionAssumption DEF TypeOK, conn_set_state, conn_shrink

\* Taking units off rbuf does not move their end.
LEMMA ConsumeType ==
  ASSUME TypeOK, NEW n \in 0 .. Len(rbuf), Consume(n)
  PROVE  /\ rbuf' \in Seq(Unit) /\ rcurr' \in Nat \cup {NULL} /\ Len(rbuf') = Len(rbuf) - n
         /\ rcurr # NULL => rcurr' # NULL /\ rcurr' + Len(rbuf') = rcurr + Len(rbuf)
<1>1. rbuf \in Seq(Unit) /\ rcurr \in Nat \cup {NULL} /\ NULL \notin Nat
  BY ConnectionAssumption DEF TypeOK
<1>2. rbuf' \in Seq(Unit) /\ Len(rbuf') = Len(rbuf) - n
  BY <1>1, RestType DEF Consume
<1>3. Len(rbuf) \in Nat /\ n \in Nat /\ rcurr' = IF rcurr = NULL THEN NULL ELSE rcurr + n
  BY <1>1 DEF Consume
<1>4. CASE rcurr = NULL
  BY <1>2, <1>3, <1>4
<1>5. CASE rcurr # NULL
  <2>1. rcurr \in Nat /\ rcurr' = rcurr + n
    BY <1>1, <1>3, <1>5
  <2>2. rcurr' \in Nat
    BY <1>3, <2>1
  <2>3. rcurr' + Len(rbuf') = rcurr + Len(rbuf)
    BY <1>2, <1>3, <2>1
  <2> QED BY <1>1, <1>2, <2>2, <2>3
<1> QED BY <1>4, <1>5

-----------------------------------------------------------------------------
(* Types *)

\* No client sends more than MaxCmds commands, and try_read_network starts with
\* the unparsed bytes at the beginning of rbuf.
TInv ==
  /\ TypeOK /\ Len(kinds) <= MaxCmds
  /\ fn = "try_read_network" => rcurr = 0

\* As long as conn_shrink has nothing to shrink.
Stays == RcurrInsideRbuf /\ rsize <= READ_BUFFER_HIGHWAT => RcurrInsideRbuf'

\* What the client does, the server only sees in its socket.
LEMMA ClientStep ==
  ASSUME TInv, Client
  PROVE  TInv' /\ Stays
<1>0. TypeOK /\ Len(kinds) <= MaxCmds /\ MaxCmds \in Nat /\ kinds \in Seq(Kinds)
  BY ConnectionAssumption DEF TInv, TypeOK
<1> USE DEF clientVars, readVars, countVars, writeVars, loopVars
<1>1. UNCHANGED <<first, conns, state, write_and_go, readVars, countVars,
                  iovused, msgused, wleft, cmd, written, loopVars>>
  BY DEF Client, client_begin, client_send, client_read, client_close
<1>2. CASE \E kind \in Kinds : client_begin(kind)
  <2>1. PICK kind \in Kinds : client_begin(kind)
    BY <1>2
  <2>2. kinds' \in Seq(Kinds) /\ Len(kinds') = Len(kinds) + 1 /\ Len(kinds) + 1 <= MaxCmds
    BY <1>0, <2>1 DEF client_begin
  <2>3. todo' \in Seq(Unit)
    BY <1>0, <2>1, <2>2, UnitsType DEF client_begin
  <2> QED BY <1>0, <1>1, <2>1, <2>2, <2>3 DEF TInv, TypeOK, client_begin, Stays, RcurrInsideRbuf
<1>3. CASE client_send
  <2>1. todo \in Seq(Unit) /\ todo # <<>> /\ chan \in Seq(Unit)
    BY <1>0, <1>3 DEF TypeOK, client_send
  <2>2. todo' \in Seq(Unit) /\ chan' \in Seq(Unit)
    BY <1>3, <2>1 DEF client_send
  <2> QED BY <1>0, <1>1, <1>3, <2>2 DEF TInv, TypeOK, client_send, Stays, RcurrInsideRbuf
<1>4. CASE client_read
  BY <1>0, <1>1, <1>4, ConnectionAssumption DEF TInv, TypeOK, client_read, Stays, RcurrInsideRbuf
<1>5. CASE \E how \in {"shut", "reset"} : client_close(how)
  BY <1>0, <1>1, <1>5 DEF TInv, TypeOK, client_close, Stays, RcurrInsideRbuf
<1> QED BY <1>2, <1>3, <1>4, <1>5 DEF Client

\* A new connection, an event, and the end of a connection.
LEMMA LoopStep ==
  ASSUME TInv, conn_new \/ event_handler \/ conn_close
  PROVE  TInv' /\ Stays
<1>0. /\ TypeOK /\ Len(kinds) <= MaxCmds /\ kinds \in Seq(Kinds)
      /\ {MaxCmds, MaxConns, DATA_BUFFER_SIZE} \subseteq Nat
  BY ConnectionAssumption DEF TInv, TypeOK
<1> USE DEF clientVars, readVars, countVars, writeVars, loopVars
<1>1. CASE conn_new
  <2>1. conns' \in 0 .. MaxConns /\ first' \in 1 .. MaxCmds + 1 /\ sock' \in 0 .. OutCap
    BY <1>0, <1>1, ConnectionAssumption DEF TypeOK, conn_new
  <2>2. TypeOK'
    <3>1. /\ kinds' \in Seq(Kinds) /\ todo' \in Seq(Unit) /\ chan' \in Seq(Unit)
          /\ rbuf' \in Seq(Unit) /\ written' \in Seq(0 .. MaxCmds)
      BY <1>0, <1>1 DEF conn_new
    <3>2. /\ peer' \in {"open", "shut", "reset", "broken"} /\ state' \in States
          /\ write_and_go' \in {"conn_read", "conn_swallow", "conn_closing"}
          /\ ev_flags' \in {"AE_READABLE", "AE_WRITABLE"}
          /\ mask' \subseteq {"AE_READABLE", "AE_WRITABLE"}
          /\ fn' \in {"ae_loop", "drive_machine", "try_read_network"} /\ gotdata' \in BOOLEAN
      BY <1>0, <1>1 DEF TypeOK, conn_new
    <3>3. /\ rcurr' \in Nat \cup {NULL} /\ rsize' \in Nat /\ rlbytes' \in 0 .. DataUnits
          /\ sbytes' \in 0 .. DataUnits /\ iovused' \in BOOLEAN /\ msgused' \in BOOLEAN
          /\ wleft' \in Nat /\ cmd' \in 0 .. MaxCmds
      <4>1. /\ DataUnits \in Nat /\ MaxCmds \in Nat
            /\ rsize \in Nat /\ sbytes \in 0 .. DataUnits
        BY <1>0, ConnectionAssumption DEF TypeOK
      <4>2. /\ rcurr' = 0 /\ rlbytes' = 0 /\ iovused' = FALSE /\ msgused' = FALSE
            /\ wleft' = 0 /\ cmd' = 0 /\ rsize' = rsize /\ sbytes' = sbytes
        BY <1>1 DEF conn_new
      <4>3. rcurr' \in Nat \cup {NULL} /\ rsize' \in Nat /\ wleft' \in Nat
        BY <4>1, <4>2
      <4>4. rlbytes' \in 0 .. DataUnits /\ sbytes' \in 0 .. DataUnits /\ cmd' \in 0 .. MaxCmds
        BY <4>1, <4>2
      <4>5. iovused' \in BOOLEAN /\ msgused' \in BOOLEAN
        BY <4>2
      <4> QED BY <4>3, <4>4, <4>5
    <3> QED BY <2>1, <3>1, <3>2, <3>3 DEF TypeOK
  <2>3. (Len(kinds) <= MaxCmds)' /\ rbuf' = <<>> /\ fn' = "ae_loop"
    BY <1>0, <1>1 DEF conn_new
  <2> QED BY <2>2, <2>3 DEF TInv, Stays, RcurrInsideRbuf
<1>2. CASE event_handler
  BY <1>0, <1>2 DEF TInv, TypeOK, event_handler, Stays, RcurrInsideRbuf
<1>3. CASE conn_close
  BY <1>0, <1>3 DEF TInv, TypeOK, conn_close, Running, Stays, RcurrInsideRbuf
<1> QED BY <1>1, <1>2, <1>3

\* What a command leaves for the machine to do.
LEMMA ProcessType ==
  ASSUME TypeOK, NEW k \in 1 .. MaxCmds, NEW kind, process_command(k, kind)
  PROVE  /\ state' \in States /\ write_and_go' \in {"conn_read", "conn_swallow", "conn_closing"}
         /\ rlbytes' \in 0 .. DataUnits /\ sbytes' \in 0 .. DataUnits
         /\ iovused' \in BOOLEAN /\ wleft' \in Nat /\ cmd' \in 0 .. MaxCmds
<1>1. /\ DataUnits \in Nat /\ GetUnits \in Nat /\ MaxCmds \in Nat
      /\ DataUnits \in 0 .. DataUnits /\ k \in 0 .. MaxCmds
  BY ConnectionAssumption
<1>2. /\ state \in States /\ write_and_go \in {"conn_read", "conn_swallow", "conn_closing"}
      /\ rlbytes \in 0 .. DataUnits /\ sbytes \in 0 .. DataUnits
  BY DEF TypeOK
<1>3. cmd' = k /\ wleft' \in {0, GetUnits} /\ iovused' \in BOOLEAN
  BY DEF process_command
<1>4. state' \in States /\ write_and_go' \in {"conn_read", "conn_swallow", "conn_closing"}
  BY <1>2 DEF process_command
<1>5. rlbytes' \in {rlbytes, DataUnits} /\ sbytes' \in {sbytes, DataUnits}
  BY DEF process_command, countVars
<1> QED BY <1>1, <1>2, <1>3, <1>4, <1>5

\* A line is taken off rbuf.
LEMMA CommandStep ==
  ASSUME TInv, try_read_command
  PROVE  TInv' /\ Stays
<1>0. TypeOK /\ fn = "drive_machine" /\ rbuf \in Seq(Unit)
  BY DEF TInv, TypeOK, try_read_command, Running
<1>1. PICK n \in LineEnds : process_command(rbuf[n].of, CommandOf(SubSeq(rbuf, 1, n))) /\ Consume(n)
  BY DEF try_read_command
<1>2. n \in 1 .. Len(rbuf) /\ rbuf[n].of \in 1 .. MaxCmds
  <2>1. n \in 1 .. Len(rbuf)
    BY <1>0, <1>1 DEF LineEnds
  <2>2. rbuf[n] \in Unit
    BY <1>0, <2>1
  <2> QED BY <2>1, <2>2 DEF Unit
<1>3. /\ rbuf' \in Seq(Unit) /\ rcurr' \in Nat \cup {NULL} /\ Len(rbuf') = Len(rbuf) - n
      /\ rcurr # NULL => rcurr' # NULL /\ rcurr' + Len(rbuf') = rcurr + Len(rbuf)
  BY <1>0, <1>1, <1>2, ConsumeType
<1>4. /\ state' \in States /\ write_and_go' \in {"conn_read", "conn_swallow", "conn_closing"}
      /\ rlbytes' \in 0 .. DataUnits /\ sbytes' \in 0 .. DataUnits
      /\ iovused' \in BOOLEAN /\ wleft' \in Nat /\ cmd' \in 0 .. MaxCmds
  BY <1>0, <1>1, <1>2, ProcessType
<1>5. /\ UNCHANGED <<clientVars, chan, conns, rsize, sock, written, loopVars>> /\ msgused' = TRUE
  BY DEF try_read_command
<1>6. TInv'
  BY <1>0, <1>3, <1>4, <1>5 DEF TInv, TypeOK, clientVars, loopVars
<1>7. Stays
  BY <1>0, <1>1, <1>2, <1>3, <1>5, ConnectionAssumption
     DEF Stays, RcurrInsideRbuf, TypeOK, try_read_command, Running
<1> QED BY <1>6, <1>7

\* Only here do bytes come into rbuf, from its beginning on.
LEMMA ReadStep ==
  ASSUME TInv,
         \/ try_read_network \/ grow \/ grow_fails \/ read_more
         \/ read_eof \/ read_end \/ read_error
  PROVE  TInv' /\ Stays
<1>0. /\ TypeOK /\ Len(kinds) <= MaxCmds /\ (fn = "try_read_network" => rcurr = 0)
      /\ rbuf \in Seq(Unit) /\ chan \in Seq(Unit) /\ rsize \in Nat
      /\ NULL \notin Nat /\ MaxCmds \in Nat
  BY ConnectionAssumption DEF TInv, TypeOK
<1> USE DEF clientVars, readVars, countVars, writeVars, loopVars
<1>1. CASE try_read_network
  <2>1. TypeOK'
    BY <1>0, <1>1 DEF TypeOK, try_read_network, Running
  <2>2. (Len(kinds) <= MaxCmds)' /\ (fn = "try_read_network" => rcurr = 0)'
    BY <1>0, <1>1 DEF try_read_network, Running
  <2>3. Stays
    BY <1>0, <1>1 DEF TypeOK, try_read_network, Running, Reading, Stays, RcurrInsideRbuf
  <2> QED BY <2>1, <2>2, <2>3 DEF TInv
<1>2. CASE grow
  <2>1. rsize' \in Nat /\ rsize <= rsize'
    BY <1>0, <1>2 DEF grow
  <2> QED BY <1>0, <1>2, <2>1 DEF TInv, TypeOK, grow, Stays, RcurrInsideRbuf
<1>3. CASE grow_fails
  <2>1. /\ state' = "conn_write" /\ rsize' \in Nat /\ rcurr' \in Nat \cup {NULL}
        /\ write_and_go' = "conn_closing" /\ cmd' = 0
    BY <1>0, <1>3, SetStateType DEF grow_fails, out_string
  <2> QED BY <1>0, <1>3, <2>1 DEF TInv, TypeOK, grow_fails, Stays, RcurrInsideRbuf
<1>4. CASE read_more
  <2> DEFINE res == Min2(Len(chan), rsize - Len(rbuf))
  <2>1. Len(rbuf) < rsize /\ rcurr = 0
    BY <1>0, <1>4 DEF read_more, Reading
  <2>2. res \in 0 .. Len(chan) /\ res <= rsize - Len(rbuf)
    <3>1. Len(chan) \in Nat /\ rsize - Len(rbuf) \in Nat
      BY <1>0, <2>1
    <3> QED BY <3>1, MinType
  <2>3. rbuf' = rbuf \o SubSeq(chan, 1, res) /\ chan' = SubSeq(chan, res + 1, Len(chan))
    BY <1>4 DEF read_more
  <2> HIDE DEF res
  <2>4. rbuf' \in Seq(Unit) /\ chan' \in Seq(Unit) /\ Len(rbuf') = Len(rbuf) + res
    BY <1>0, <2>2, <2>3, RestType
  <2>5. UNCHANGED <<clientVars, conns, state, write_and_go, rcurr, rsize, countVars,
                    writeVars, ev_flags, mask, fn>> /\ gotdata' = TRUE
    BY <1>4 DEF read_more
  <2>6. TInv'
    BY <1>0, <2>4, <2>5 DEF TInv, TypeOK
  <2>7. Stays
    <3>1. rcurr' + Len(rbuf') <= rsize'
      BY <1>0, <2>1, <2>2, <2>4, <2>5
    <3>2. rcurr' = 0 /\ 0 # NULL
      BY <1>0, <2>1, <2>5
    <3> QED BY <3>1, <3>2 DEF Stays, RcurrInsideRbuf
  <2> QED BY <2>6, <2>7
<1>5. CASE read_eof
  <2>1. TypeOK'
    BY <1>0, <1>5 DEF TypeOK, read_eof
  <2>2. (Len(kinds) <= MaxCmds)' /\ (fn = "try_read_network" => rcurr = 0)'
    BY <1>0, <1>5 DEF read_eof
  <2>3. Stays
    BY <1>0, <1>5 DEF TypeOK, read_eof, Reading, Stays, RcurrInsideRbuf
  <2> QED BY <2>1, <2>2, <2>3 DEF TInv
<1>6. CASE read_end \/ read_error
  <2>1. /\ ev_flags' \in {"AE_READABLE", "AE_WRITABLE"} /\ state' \in States
        /\ mask' \subseteq {"AE_READABLE", "AE_WRITABLE"}
        /\ fn' \in {"ae_loop", "drive_machine"}
    <3>1. CASE wait_for("AE_READABLE")
      BY <1>0, <3>1, WaitType
    <3>2. CASE ~ wait_for("AE_READABLE")
      BY <1>0, <1>6, <3>2 DEF read_end, read_error, TypeOK
    <3> QED BY <3>1, <3>2
  <2>2. /\ UNCHANGED <<kinds, first, todo, chan, conns, write_and_go, readVars, countVars,
                       writeVars, gotdata>>
        /\ peer' \in {"open", "shut", "reset", "broken"}
    BY <1>0, <1>6 DEF read_end, read_error, TypeOK
  <2>3. state # "closed" \/ rcurr = 0
    BY <1>0, <1>6 DEF read_end, read_error, Reading
  <2>4. TInv'
    BY <1>0, <2>1, <2>2 DEF TInv, TypeOK
  <2>5. Stays
    BY <1>0, <1>6, <2>2 DEF Stays, RcurrInsideRbuf, read_end, read_error, Reading
  <2> QED BY <2>4, <2>5
<1> QED BY <1>1, <1>2, <1>3, <1>4, <1>5, <1>6

\* The end of a piece of data, in rbuf or in the socket.
LEMMA DataStep ==
  ASSUME TInv,
         \/ complete_nread \/ nread_leftover \/ nread_socket
         \/ swallow_end \/ swallow_leftover \/ swallow_socket \/ data_missing
  PROVE  TInv' /\ Stays
<1>0. /\ TypeOK /\ Len(kinds) <= MaxCmds
      /\ rbuf \in Seq(Unit) /\ chan \in Seq(Unit) /\ rsize \in Nat
      /\ rlbytes \in 0 .. DataUnits /\ sbytes \in 0 .. DataUnits
      /\ NULL \notin Nat /\ DataUnits \in Nat
  BY ConnectionAssumption DEF TInv, TypeOK
<1>a. {Len(rbuf), Len(chan), rsize, rlbytes, sbytes} \subseteq Nat
  BY <1>0
<1> USE DEF clientVars, readVars, countVars, writeVars, loopVars
<1>1. fn = "drive_machine" /\ state # "closed"
  BY DEF complete_nread, nread_leftover, nread_socket, swallow_end, swallow_leftover,
         swallow_socket, data_missing, Running
<1>2. CASE complete_nread
  <2>1. /\ state' = "conn_write" /\ rsize' \in Nat /\ rcurr' \in Nat \cup {NULL}
        /\ write_and_go' = "conn_read" /\ cmd' = cmd
        /\ rsize <= READ_BUFFER_HIGHWAT => rsize' = rsize /\ rcurr' = rcurr
    BY <1>0, <1>2, SetStateType DEF complete_nread, out_string
  <2>2. UNCHANGED <<clientVars, chan, conns, rbuf, countVars, iovused, msgused, wleft,
                    sock, written, loopVars>>
    BY <1>2 DEF complete_nread
  <2> QED BY <1>0, <1>1, <2>1, <2>2 DEF TInv, TypeOK, Stays, RcurrInsideRbuf
<1>3. CASE swallow_end
  <2>1. /\ state' = "conn_read" /\ rsize' \in Nat /\ rcurr' \in Nat \cup {NULL}
        /\ rsize <= READ_BUFFER_HIGHWAT => rsize' = rsize /\ rcurr' = rcurr
    BY <1>0, <1>3, SetStateType DEF swallow_end
  <2>2. UNCHANGED <<clientVars, chan, conns, write_and_go, rbuf, countVars, writeVars, loopVars>>
    BY <1>3 DEF swallow_end
  <2> QED BY <1>0, <1>1, <2>1, <2>2 DEF TInv, TypeOK, Stays, RcurrInsideRbuf
\* n units of rbuf are data.
<1>4. ASSUME NEW n \in 0 .. Len(rbuf), Consume(n),
             rlbytes' \in 0 .. DataUnits, sbytes' \in 0 .. DataUnits,
             UNCHANGED <<clientVars, chan, conns, state, write_and_go, rsize, writeVars, loopVars>>
      PROVE  TInv' /\ Stays
  <2>1. /\ rbuf' \in Seq(Unit) /\ rcurr' \in Nat \cup {NULL} /\ Len(rbuf') = Len(rbuf) - n
        /\ rcurr # NULL => rcurr' # NULL /\ rcurr' + Len(rbuf') = rcurr + Len(rbuf)
    BY <1>0, <1>4, ConsumeType
  <2>2. TypeOK'
    BY <1>0, <1>4, <2>1 DEF TypeOK
  <2>3. (Len(kinds) <= MaxCmds)' /\ (fn = "try_read_network" => rcurr = 0)'
    BY <1>0, <1>1, <1>4
  <2>4. Stays
    <3> SUFFICES ASSUME RcurrInsideRbuf, rbuf' # <<>>
                 PROVE  rcurr' # NULL /\ rcurr' + Len(rbuf') <= rsize'
      BY DEF Stays, RcurrInsideRbuf
    <3>1. rbuf # <<>>
      BY <1>0, <1>4, <2>1
    <3> QED BY <1>1, <1>4, <2>1, <3>1 DEF RcurrInsideRbuf
  <2> QED BY <2>2, <2>3, <2>4 DEF TInv
<1>5. CASE nread_leftover
  <2> DEFINE n == Min2(Len(rbuf), rlbytes)
  <2>1. n \in Nat /\ n <= Len(rbuf) /\ n <= rlbytes
    BY <1>a, MinType
  <2>2. rlbytes' = rlbytes - n /\ sbytes' = sbytes /\ Consume(n)
    BY <1>5 DEF nread_leftover
  <2>3. UNCHANGED <<clientVars, chan, conns, state, write_and_go, rsize, writeVars, loopVars>>
    BY <1>5 DEF nread_leftover
  <2> HIDE DEF n
  <2>4. n \in 0 .. Len(rbuf) /\ rlbytes' \in 0 .. DataUnits
    BY <1>0, <2>1, <2>2
  <2> QED BY <1>0, <1>4, <2>2, <2>3, <2>4
<1>6. CASE swallow_leftover
  <2> DEFINE n == Min2(Len(rbuf), sbytes)
  <2>1. n \in Nat /\ n <= Len(rbuf) /\ n <= sbytes
    BY <1>a, MinType
  <2>2. sbytes' = sbytes - n /\ rlbytes' = rlbytes /\ Consume(n)
    BY <1>6 DEF swallow_leftover
  <2>3. UNCHANGED <<clientVars, chan, conns, state, write_and_go, rsize, writeVars, loopVars>>
    BY <1>6 DEF swallow_leftover
  <2> HIDE DEF n
  <2>4. n \in 0 .. Len(rbuf) /\ sbytes' \in 0 .. DataUnits
    BY <1>0, <2>1, <2>2
  <2> QED BY <1>0, <1>4, <2>2, <2>3, <2>4
\* n units in the socket are data.
<1>7. ASSUME NEW n \in 0 .. Len(chan), chan' = SubSeq(chan, n + 1, Len(chan)),
             rlbytes' \in 0 .. DataUnits, sbytes' \in 0 .. DataUnits,
             UNCHANGED <<clientVars, conns, state, write_and_go, readVars, writeVars, loopVars>>
      PROVE  TInv' /\ Stays
  <2>1. chan' \in Seq(Unit)
    BY <1>0, <1>7, RestType
  <2> QED BY <1>0, <1>1, <1>7, <2>1 DEF TInv, TypeOK, Stays, RcurrInsideRbuf
<1>8. CASE nread_socket
  <2> DEFINE n == Min2(Len(chan), rlbytes)
  <2>1. n \in Nat /\ n <= Len(chan) /\ n <= rlbytes
    BY <1>a, MinType
  <2>2. rlbytes' = rlbytes - n /\ sbytes' = sbytes /\ chan' = SubSeq(chan, n + 1, Len(chan))
    BY <1>8 DEF nread_socket
  <2>3. UNCHANGED <<clientVars, conns, state, write_and_go, readVars, writeVars, loopVars>>
    BY <1>8 DEF nread_socket
  <2> HIDE DEF n
  <2>4. n \in 0 .. Len(chan) /\ rlbytes' \in 0 .. DataUnits
    BY <1>0, <2>1, <2>2
  <2> QED BY <1>0, <1>7, <2>2, <2>3, <2>4
<1>9. CASE swallow_socket
  <2> DEFINE room == Min2(rsize, sbytes)
             n == Min2(Len(chan), room)
  <2>1. room \in Nat /\ room <= sbytes
    BY <1>a, MinType
  <2> HIDE DEF room
  <2>2. n \in Nat /\ n <= Len(chan) /\ n <= sbytes
    <3>1. Len(chan) \in Nat
      BY <1>0
    <3>2. n \in Nat /\ n <= Len(chan) /\ n <= room
      BY <2>1, <3>1, MinType
    <3> HIDE DEF n
    <3> QED BY <1>0, <2>1, <3>1, <3>2
  <2>3. sbytes' = sbytes - n /\ rlbytes' = rlbytes /\ chan' = SubSeq(chan, n + 1, Len(chan))
    BY <1>9 DEF swallow_socket, room
  <2>4. UNCHANGED <<clientVars, conns, state, write_and_go, readVars, writeVars, loopVars>>
    BY <1>9 DEF swallow_socket
  <2> HIDE DEF n
  <2>5. n \in 0 .. Len(chan) /\ sbytes' \in 0 .. DataUnits
    BY <1>0, <2>2, <2>3
  <2> QED BY <1>0, <1>7, <2>3, <2>4, <2>5
<1>10. CASE data_missing
  <2>1. /\ ev_flags' \in {"AE_READABLE", "AE_WRITABLE"} /\ state' \in States
        /\ mask' \subseteq {"AE_READABLE", "AE_WRITABLE"}
        /\ fn' \in {"ae_loop", "drive_machine"}
    <3>1. CASE wait_for("AE_READABLE")
      BY <1>0, <3>1, WaitType
    <3>2. CASE ~ wait_for("AE_READABLE")
      BY <1>0, <1>1, <1>10, <3>2 DEF data_missing, TypeOK
    <3> QED BY <3>1, <3>2
  <2>2. UNCHANGED <<clientVars, chan, conns, write_and_go, readVars, countVars, writeVars, gotdata>>
    BY <1>10 DEF data_missing
  <2> QED BY <1>0, <1>1, <2>1, <2>2 DEF TInv, TypeOK, Stays, RcurrInsideRbuf
<1> QED BY <1>2, <1>3, <1>5, <1>6, <1>8, <1>9, <1>10

\* What transmit does.
LEMMA WriteStep ==
  ASSUME TInv, transmit_some \/ transmit_blocked \/ transmit_complete
  PROVE  TInv' /\ Stays
<1>0. /\ TypeOK /\ Len(kinds) <= MaxCmds /\ NULL \notin Nat
      /\ OutCap \in Nat /\ sock \in 0 .. OutCap /\ cmd \in 0 .. MaxCmds
      /\ written \in Seq(0 .. MaxCmds)
  BY ConnectionAssumption DEF TInv, TypeOK
<1>1. fn = "drive_machine" /\ state # "closed" /\ ToSend \in Nat
  BY <1>0 DEF transmit_some, transmit_blocked, transmit_complete, Writing, Running, ToSend, TypeOK
<1> USE DEF clientVars, readVars, countVars, loopVars
<1>2. CASE transmit_some
  <2> DEFINE res == Min2(ToSend, OutCap - sock)
  <2>1. OutCap - sock \in Nat
    BY <1>0
  <2>2. res \in Nat /\ res <= ToSend /\ res <= OutCap - sock
    BY <1>1, <2>1, MinType
  <2>3. /\ wleft' = ToSend - res /\ sock' = sock + res
        /\ written' = written \o [n \in 1 .. res |-> cmd]
    BY <1>2 DEF transmit_some
  <2> HIDE DEF res
  <2>4. wleft' \in Nat /\ sock' \in 0 .. OutCap
    BY <1>0, <1>1, <2>2, <2>3
  <2>5. written' \in Seq(0 .. MaxCmds)
    <3>1. [n \in 1 .. res |-> cmd] \in Seq(0 .. MaxCmds)
      BY <1>0, <2>2
    <3> QED BY <1>0, <2>3, <3>1
  <2>6. UNCHANGED <<clientVars, chan, conns, state, write_and_go, readVars, countVars,
                    msgused, cmd, loopVars>> /\ iovused' = TRUE
    BY <1>2 DEF transmit_some
  <2> QED BY <1>0, <1>1, <2>4, <2>5, <2>6 DEF TInv, TypeOK, Stays, RcurrInsideRbuf
<1>3. CASE transmit_blocked
  <2>1. /\ ev_flags' \in {"AE_READABLE", "AE_WRITABLE"} /\ state' \in States
        /\ mask' \subseteq {"AE_READABLE", "AE_WRITABLE"}
        /\ fn' \in {"ae_loop", "drive_machine"}
    <3>1. CASE wait_for("AE_WRITABLE")
      BY <1>0, <3>1, WaitType
    <3>2. CASE ~ wait_for("AE_WRITABLE")
      BY <1>0, <1>1, <1>3, <3>2 DEF transmit_blocked, TypeOK
    <3> QED BY <3>1, <3>2
  <2>2. /\ wleft' = ToSend /\ iovused' = TRUE
        /\ UNCHANGED <<clientVars, chan, conns, write_and_go, readVars, countVars,
                       msgused, cmd, sock, written, gotdata>>
    BY <1>3 DEF transmit_blocked
  <2> QED BY <1>0, <1>1, <2>1, <2>2 DEF TInv, TypeOK, Stays, RcurrInsideRbuf
<1>4. CASE transmit_complete
  <2> DEFINE s == IF state = "conn_mwrite" THEN "conn_read" ELSE write_and_go
  <2>1. s \in States /\ conn_set_state(s)
    BY <1>0, <1>4 DEF TypeOK, transmit_complete
  <2> HIDE DEF s
  <2>2. /\ state' \in States /\ rsize' \in Nat /\ rcurr' \in Nat \cup {NULL}
        /\ rsize <= READ_BUFFER_HIGHWAT => rsize' = rsize /\ rcurr' = rcurr
    BY <1>0, <2>1, SetStateType
  <2>3. /\ iovused' = TRUE /\ wleft' = 0
        /\ UNCHANGED <<clientVars, chan, conns, write_and_go, rbuf, countVars,
                       msgused, cmd, sock, written, loopVars>>
    BY <1>4 DEF transmit_complete
  <2> QED BY <1>0, <1>1, <2>2, <2>3 DEF TInv, TypeOK, Stays, RcurrInsideRbuf
<1> QED BY <1>2, <1>3, <1>4

\* Every step.
LEMMA ConnectionStep ==
  ASSUME TInv, [Next]_vars
  PROVE  TInv' /\ Stays
<1>1. CASE UNCHANGED vars
  BY <1>1 DEF TInv, TypeOK, Stays, RcurrInsideRbuf, vars, clientVars, readVars, countVars,
              writeVars, loopVars
<1>2. CASE Next
  BY <1>2, ClientStep, LoopStep, CommandStep, ReadStep, DataStep, WriteStep
     DEF Next, drive_machine
<1> QED BY <1>1, <1>2

\* So TInv is an invariant.
LEMMA ConnectionInvariant == Spec => []TInv
<1>1. Init => TInv
  <2> SUFFICES ASSUME Init PROVE TInv
    OBVIOUS
  <2>1. {0, DATA_BUFFER_SIZE, DataUnits, MaxCmds, MaxConns, OutCap} \subseteq Nat
    BY ConnectionAssumption
  <2>2. /\ kinds \in Seq(Kinds) /\ Len(kinds) = 0 /\ todo \in Seq(Unit) /\ chan \in Seq(Unit)
        /\ rbuf \in Seq(Unit) /\ written \in Seq(0 .. MaxCmds)
    BY DEF Init
  <2>3. /\ first \in 1 .. MaxCmds + 1 /\ sock \in 0 .. OutCap /\ conns \in 0 .. MaxConns
        /\ rcurr \in Nat \cup {NULL} /\ rsize \in Nat /\ rlbytes \in 0 .. DataUnits
        /\ sbytes \in 0 .. DataUnits /\ wleft \in Nat /\ cmd \in 0 .. MaxCmds
    BY <2>1 DEF Init
  <2>4. /\ peer \in {"open", "shut", "reset", "broken"} /\ state \in States
        /\ write_and_go \in {"conn_read", "conn_swallow", "conn_closing"}
        /\ ev_flags \in {"AE_READABLE", "AE_WRITABLE"}
        /\ mask \subseteq {"AE_READABLE", "AE_WRITABLE"}
        /\ iovused \in BOOLEAN /\ msgused \in BOOLEAN
        /\ fn = "ae_loop" /\ gotdata \in BOOLEAN
    BY DEF Init
  <2> QED BY <2>1, <2>2, <2>3, <2>4 DEF TInv, TypeOK
<1>2. TInv /\ [Next]_vars => TInv'
  BY ConnectionStep
<1> QED BY <1>1, <1>2, PTL DEF Spec

-----------------------------------------------------------------------------

\* The fields of a struct conn keep their types: no more data is taken from
\* rbuf or from the socket than a command still needs, so that rlbytes and
\* sbytes never go below zero (memcached.c:1108, 1145, 1160).
THEOREM TypeCorrect == Spec => []TypeOK
<1>1. TInv => TypeOK
  BY DEF TInv
<1> QED BY <1>1, ConnectionInvariant, PTL

\* Nothing but the shrinking of an rbuf above READ_BUFFER_HIGHWAT can take rcurr
\* out of rbuf: not a short read, a growth that moves rbuf, leftover data, or a
\* realloc that fails (memcached.c:927-976, connection.c:217).
THEOREM OnlyShrinkLosesRcurr ==
  Spec => [][RcurrInsideRbuf /\ rsize <= READ_BUFFER_HIGHWAT => RcurrInsideRbuf']_vars
<1>1. TInv /\ [Next]_vars
        => [RcurrInsideRbuf /\ rsize <= READ_BUFFER_HIGHWAT => RcurrInsideRbuf']_vars
  BY ConnectionStep DEF Stays
<1> QED BY <1>1, ConnectionInvariant, PTL DEF Spec

-----------------------------------------------------------------------------
(* The place in the stream *)

\* A command is at least two units, the first one does not end in a newline and
\* the second one does.
LEMMA UnitIs ==
  /\ DataUnits \in Nat \ {0}
  /\ \A k, n : unit(k, n).of = k /\ unit(k, n).at = n /\ (unit(k, n).nl <=> n \in {2, DataUnits + 2})
  /\ \A k, n, l, m : unit(k, n) = unit(l, m) => k = l /\ n = m
  /\ \A kind : Size(kind) \in 2 .. DataUnits + 2
<1>1. DataUnits \in Nat \ {0}
  BY ConnectionAssumption
<1>2. \A k, n : unit(k, n).of = k /\ unit(k, n).at = n /\ (unit(k, n).nl <=> n \in {2, DataUnits + 2})
  BY DEF unit
<1>3. \A k, n, l, m : unit(k, n) = unit(l, m) => k = l /\ n = m
  BY <1>2
<1>4. \A kind : Size(kind) \in 2 .. DataUnits + 2
  BY <1>1 DEF Size
<1> QED BY <1>1, <1>2, <1>3, <1>4

\* The elements of three sequences in a row.
UnitAt(a, b, c, i) ==
  IF i <= Len(a) THEN a[i] ELSE IF i <= Len(a) + Len(b) THEN b[i - Len(a)]
  ELSE c[i - Len(a) - Len(b)]
Cat(a, b, c) == a \o b \o c
LEMMA ThreeSeqs ==
  ASSUME NEW S, NEW a \in Seq(S), NEW b \in Seq(S), NEW c \in Seq(S)
  PROVE  /\ Cat(a, b, c) \in Seq(S) /\ Len(Cat(a, b, c)) = Len(a) + Len(b) + Len(c)
         /\ \A i \in 1 .. Len(a) + Len(b) + Len(c) : Cat(a, b, c)[i] = UnitAt(a, b, c, i)
<1>1. a \o b \in Seq(S) /\ Len(a \o b) = Len(a) + Len(b)
  OBVIOUS
<1>2. \A i \in 1 .. Len(a) + Len(b) : (a \o b)[i] = IF i <= Len(a) THEN a[i] ELSE b[i - Len(a)]
  OBVIOUS
<1>3. /\ (a \o b) \o c \in Seq(S) /\ Len((a \o b) \o c) = Len(a \o b) + Len(c)
      /\ \A i \in 1 .. Len(a \o b) + Len(c) :
           ((a \o b) \o c)[i] = IF i <= Len(a \o b) THEN (a \o b)[i] ELSE c[i - Len(a \o b)]
  BY <1>1
<1>4. ASSUME NEW i \in 1 .. Len(a) + Len(b) + Len(c) PROVE ((a \o b) \o c)[i] = UnitAt(a, b, c, i)
  BY <1>1, <1>2, <1>3 DEF UnitAt
<1> QED BY <1>1, <1>3, <1>4 DEF Cat

\* What is sent and not consumed.
Stream == Cat(rbuf, chan, todo)

\* The units of the stream are units.
LEMMA StreamType ==
  ASSUME TypeOK
  PROVE  /\ rbuf \in Seq(Unit) /\ chan \in Seq(Unit) /\ todo \in Seq(Unit)
         /\ Stream \in Seq(Unit) /\ Len(Stream) = Len(rbuf) + Len(chan) + Len(todo)
  BY ThreeSeqs DEF TypeOK, Stream

\* Two streams of the same length and the same units are the same.
LEMMA SameSeq ==
  ASSUME NEW S, NEW s \in Seq(S), NEW t \in Seq(S), Len(s) = Len(t),
         \A i \in 1 .. Len(s) : s[i] = t[i]
  PROVE  s = t
  OBVIOUS

\* The block of a command that begins at place i of s, when ks are the commands.
Block(s, i, ks) ==
  /\ s[i].of <= Len(ks) /\ i + Size(ks[s[i].of]) <= Len(s) + 1
  /\ \A j \in 1 .. Size(ks[s[i].of]) : s[i + j - 1] = unit(s[i].of, j)
  /\ IF i + Size(ks[s[i].of]) > Len(s) THEN s[i].of = Len(ks)
     ELSE s[i + Size(ks[s[i].of])] = unit(s[i].of + 1, 1)
Whole(s, o, n, ks) ==
  /\ IF Len(s) = o THEN n = Len(ks) + 1 ELSE s[o + 1] = unit(n, 1)
  /\ \A i \in o + 1 .. Len(s) : s[i].at = 1 => Block(s, i, ks)

LEMMA WholeIs ==
  ASSUME NEW s, NEW o, NEW n
  PROVE  WholeCommands(s, o, n) <=> Whole(s, o, n, kinds)
<1>1. \A i : WholeCommand(s, i) <=> Block(s, i, kinds)
  BY Zenon DEF WholeCommand, Block
<1> QED BY <1>1, Zenon DEF WholeCommands, Whole

\* What InStep says of a connection that is not given up.
At(s, o, c, n, ks) ==
  /\ o > 0 => c # 0
  /\ o <= Len(s)
  /\ \A i \in 1 .. o : s[i] = unit(c, DataUnits + 2 - o + i)
  /\ Whole(s, o, n, ks)
InPlace == At(Stream, Owed, cmd, NextCommand, kinds)

LEMMA InStepIs == InStep <=> (GivingUp \/ Broken \/ InPlace)
<1>1. WholeCommands(Stream, Owed, NextCommand) <=> Whole(Stream, Owed, NextCommand, kinds)
  BY WholeIs
<1> QED BY <1>1 DEF InStep, InPlace, At, Stream, Cat

LEMMA InStepNext == InStep' <=> (GivingUp' \/ Broken' \/ InPlace')
  BY InStepIs, PTL

\* Less of the data before the commands.
LEMMA WholeShift ==
  ASSUME NEW s \in Seq(Unit), NEW o \in 0 .. Len(s), NEW d \in 0 .. o, NEW n, NEW ks,
         Whole(s, o, n, ks)
  PROVE  Whole(SubSeq(s, d + 1, Len(s)), o - d, n, ks)
<1> DEFINE t == SubSeq(s, d + 1, Len(s))
<1>0. /\ Len(t) = Len(s) - d /\ Len(s) \in Nat /\ o \in Int /\ d \in Int
      /\ \A i \in 1 .. Len(t) : t[i] = s[i + d]
  BY RestType
<1> HIDE DEF t
<1>1. IF Len(t) = o - d THEN n = Len(ks) + 1 ELSE t[o - d + 1] = unit(n, 1)
  <2>1. CASE Len(s) = o
    BY <1>0, <2>1 DEF Whole
  <2>2. CASE Len(s) # o
    <3>1. (o - d) + 1 \in 1 .. Len(t) /\ (o - d) + 1 + d = o + 1 /\ Len(t) # o - d
      BY <1>0, <2>2
    <3> QED BY <1>0, <2>2, <3>1 DEF Whole
  <2> QED BY <2>1, <2>2
<1>2. ASSUME NEW i \in o - d + 1 .. Len(t), t[i].at = 1 PROVE Block(t, i, ks)
  <2> DEFINE k == s[i + d].of
             z == Size(ks[k])
  <2>1. i + d \in o + 1 .. Len(s) /\ i \in 1 .. Len(t) /\ t[i] = s[i + d] /\ i \in Int
    BY <1>0
  <2>2. Block(s, i + d, ks)
    BY <1>2, <2>1 DEF Whole
  <2>3. z \in 2 .. DataUnits + 2 /\ DataUnits \in Nat
    BY UnitIs
  <2>4. /\ k <= Len(ks) /\ i + d + z <= Len(s) + 1
        /\ \A j \in 1 .. z : s[i + d + j - 1] = unit(k, j)
        /\ IF i + d + z > Len(s) THEN k = Len(ks) ELSE s[i + d + z] = unit(k + 1, 1)
    BY <2>2 DEF Block
  <2> HIDE DEF k, z
  <2>5. i + z <= Len(t) + 1 /\ (i + z > Len(t) <=> i + d + z > Len(s))
    <3>1. /\ i + d + z <= Len(s) + 1 /\ Len(t) = Len(s) - d
          /\ Len(s) \in Int /\ i \in Int /\ d \in Int /\ z \in Int
      BY <1>0, <2>1, <2>3, <2>4
    <3> QED BY <3>1
  <2>6. \A j \in 1 .. z : t[i + j - 1] = unit(k, j)
    <3> SUFFICES ASSUME NEW j \in 1 .. z PROVE t[i + j - 1] = unit(k, j)
      OBVIOUS
    <3>1. i + j - 1 \in 1 .. Len(t) /\ (i + j - 1) + d = i + d + j - 1
      BY <1>0, <2>1, <2>3, <2>5
    <3> QED BY <1>0, <2>4, <3>1
  <2>7. IF i + z > Len(t) THEN k = Len(ks) ELSE t[i + z] = unit(k + 1, 1)
    <3>1. CASE i + z > Len(t)
      BY <2>4, <2>5, <3>1
    <3>2. CASE ~ i + z > Len(t)
      <4>1. i \in Nat \ {0} /\ z \in Nat /\ d \in Int /\ Len(t) \in Nat /\ i + z <= Len(t)
        <5>1. i \in 1 .. Len(t) /\ Len(t) \in Int /\ z \in Nat /\ d \in Int
          BY <1>0, <2>1, <2>3
        <5> QED BY <3>2, <5>1
      <4>2. i + z \in 1 .. Len(t) /\ (i + z) + d = i + d + z
        BY <4>1
      <4> QED BY <1>0, <2>4, <2>5, <3>2, <4>2
    <3> QED BY <3>1, <3>2
  <2> QED BY <2>1, <2>4, <2>5, <2>6, <2>7 DEF Block, k, z
<1> QED BY <1>1, <1>2 DEF Whole, t

\* The first command counts as consumed.
LEMMA WholeNext ==
  ASSUME NEW s \in Seq(Unit), NEW n \in Nat, NEW ks, Len(ks) \in Nat, s # <<>>, Whole(s, 0, n, ks)
  PROVE  /\ n <= Len(ks) /\ Size(ks[n]) <= Len(s)
         /\ \A j \in 1 .. Size(ks[n]) : s[j] = unit(n, j)
         /\ Whole(s, Size(ks[n]), n + 1, ks)
<1> DEFINE z == Size(ks[n])
<1>0. z \in 2 .. DataUnits + 2 /\ DataUnits \in Nat /\ Len(s) \in Nat \ {0}
  BY UnitIs
<1>1. s[1] = unit(n, 1) /\ s[1].of = n /\ s[1].at = 1
  BY <1>0, UnitIs DEF Whole
<1>2. Block(s, 1, ks)
  BY <1>0, <1>1 DEF Whole
<1>3. /\ n <= Len(ks) /\ 1 + z <= Len(s) + 1
      /\ \A j \in 1 .. z : s[1 + j - 1] = unit(n, j)
      /\ IF 1 + z > Len(s) THEN n = Len(ks) ELSE s[1 + z] = unit(n + 1, 1)
  BY <1>1, <1>2 DEF Block
<1> HIDE DEF z
<1>4. n <= Len(ks) /\ z <= Len(s) /\ \A j \in 1 .. z : s[j] = unit(n, j)
  BY <1>0, <1>3
<1>5. IF Len(s) = z THEN n + 1 = Len(ks) + 1 ELSE s[z + 1] = unit(n + 1, 1)
  BY <1>0, <1>3
<1>6. ASSUME NEW i \in z + 1 .. Len(s), s[i].at = 1 PROVE Block(s, i, ks)
  BY <1>0, <1>6 DEF Whole
<1> QED BY <1>4, <1>5, <1>6 DEF Whole, z

\* One more command is sent.
LEMMA WholeMore ==
  ASSUME NEW s \in Seq(Unit), NEW o \in 0 .. Len(s), NEW n, NEW ks \in Seq(Kinds), NEW kind \in Kinds,
         Len(ks) < MaxCmds, Whole(s, o, n, ks)
  PROVE  Whole(s \o Units(Len(ks) + 1, kind), o, n, Append(ks, kind))
<1> DEFINE l == Len(ks) + 1
           u == Units(l, kind)
           t == s \o u
           ls == Append(ks, kind)
           z == Size(kind)
<1>0. /\ u \in Seq(Unit) /\ Len(u) = z /\ z \in 2 .. DataUnits + 2 /\ DataUnits \in Nat
      /\ MaxCmds \in Nat /\ l \in 1 .. MaxCmds /\ Len(s) \in Nat
  BY UnitsType, UnitIs, ConnectionAssumption
<1>1. /\ t \in Seq(Unit) /\ Len(t) = Len(s) + z
      /\ \A i \in 1 .. Len(s) : t[i] = s[i]
      /\ \A j \in 1 .. z : t[Len(s) + j] = u[j]
  <2>1. s \in Seq(Unit) /\ u \in Seq(Unit) /\ Len(u) = z /\ Len(s) \in Nat /\ z \in Nat
    BY <1>0
  <2> HIDE DEF u, z
  <2>2. t \in Seq(Unit) /\ Len(t) = Len(s) + z
    BY ONLY <2>1, ConcatProperties DEF t
  <2>3. \A i \in 1 .. Len(s) + z : t[i] = IF i <= Len(s) THEN s[i] ELSE u[i - Len(s)]
    BY ONLY <2>1, ConcatProperties DEF t
  <2>4. \A i \in 1 .. Len(s) : t[i] = s[i]
    <3> HIDE DEF t
    <3> QED BY <2>1, <2>3
  <2>5. ASSUME NEW j \in 1 .. z PROVE t[Len(s) + j] = u[j]
    <3>1. Len(s) + j \in 1 .. Len(s) + z /\ ~ Len(s) + j <= Len(s) /\ (Len(s) + j) - Len(s) = j
      BY ONLY <2>1
    <3> HIDE DEF t
    <3> QED BY <2>3, <3>1
  <2> QED BY <2>2, <2>4, <2>5
<1>2. \A j \in 1 .. z : u[j] = unit(l, j)
  BY DEF Units
<1>3. Len(ls) = l /\ ls[l] = kind /\ \A k \in 1 .. Len(ks) : ls[k] = ks[k]
  OBVIOUS
<1> HIDE DEF u, t, ls, z
<1>4. t[Len(s) + 1] = unit(l, 1)
  BY <1>0, <1>1, <1>2
<1>5. IF Len(t) = o THEN n = Len(ls) + 1 ELSE t[o + 1] = unit(n, 1)
  <2>1. CASE Len(s) = o
    BY <1>0, <1>1, <1>4, <2>1 DEF Whole
  <2>2. CASE Len(s) # o
    <3>1. o + 1 \in 1 .. Len(s) /\ Len(t) # o
      BY <1>0, <1>1, <2>2
    <3> QED BY <1>1, <2>2, <3>1 DEF Whole
  <2> QED BY <2>1, <2>2
<1>6. ASSUME NEW i \in o + 1 .. Len(t), t[i].at = 1 PROVE Block(t, i, ls)
  <2>1. CASE i <= Len(s)
    <3> DEFINE k == s[i].of
               y == Size(ks[k])
    <3>1. i \in 1 .. Len(s) /\ i \in o + 1 .. Len(s) /\ t[i] = s[i] /\ i \in Int
      BY <1>0, <1>1, <2>1
    <3>2. Block(s, i, ks)
      BY <1>6, <3>1 DEF Whole
    <3>3. s[i] \in Unit
      BY <3>1
    <3>4. k \in 1 .. Len(ks) /\ ls[k] = ks[k] /\ y \in 2 .. DataUnits + 2
      <4>1. k \in 1 .. MaxCmds /\ k <= Len(ks) /\ y \in 2 .. DataUnits + 2
        BY <3>2, <3>3, UnitIs DEF Block, Unit
      <4> HIDE DEF k, y
      <4>2. k \in 1 .. Len(ks)
        BY <1>0, <4>1
      <4> QED BY <1>3, <4>1, <4>2
    <3>5. /\ i + y <= Len(s) + 1
          /\ \A j \in 1 .. y : s[i + j - 1] = unit(k, j)
          /\ IF i + y > Len(s) THEN k = Len(ks) ELSE s[i + y] = unit(k + 1, 1)
      BY <3>2 DEF Block
    <3> HIDE DEF k, y
    <3>6. \A j \in 1 .. y : t[i + j - 1] = unit(k, j)
      <4> SUFFICES ASSUME NEW j \in 1 .. y PROVE t[i + j - 1] = unit(k, j)
        OBVIOUS
      <4>1. i + j - 1 \in 1 .. Len(s)
        BY <1>0, <3>1, <3>4, <3>5
      <4> QED BY <1>1, <3>5, <4>1
    <3>7. i + y <= Len(t) /\ t[i + y] = unit(k + 1, 1)
      <4>1. CASE i + y > Len(s)
        <5>1. i + y = Len(s) + 1 /\ i + y <= Len(t)
          <6>1. /\ i + y <= Len(s) + 1 /\ Len(t) = Len(s) + z /\ z >= 2
                /\ i \in Int /\ y \in Int /\ z \in Int /\ Len(s) \in Int
            BY <1>0, <1>1, <3>1, <3>4, <3>5
          <6> QED BY <4>1, <6>1
        <5>2. k = Len(ks)
          BY <3>5, <4>1
        <5> QED BY <1>4, <5>1, <5>2
      <4>2. CASE ~ i + y > Len(s)
        <5>1. i + y \in 1 .. Len(s) /\ i + y <= Len(t)
          BY <1>0, <1>1, <3>1, <3>4, <4>2
        <5> QED BY <1>1, <3>5, <4>2, <5>1
      <4> QED BY <4>1, <4>2
    <3>8. t[i].of = k /\ Size(ls[k]) = y /\ k <= Len(ls) /\ i + y <= Len(t) + 1 /\ ~ i + y > Len(t)
      <4>1. t[i].of = k /\ Size(ls[k]) = y
        BY <3>1, <3>4 DEF k, y
      <4>2. k <= Len(ls)
        BY <1>3, <3>4
      <4>3. i + y <= Len(t) + 1 /\ ~ i + y > Len(t)
        <5>1. i \in Int /\ y \in Int /\ Len(t) \in Int /\ i + y <= Len(t)
          BY <1>1, <3>1, <3>4, <3>7
        <5> QED BY <5>1
      <4> QED BY <4>1, <4>2, <4>3
    <3> QED BY <3>6, <3>7, <3>8 DEF Block
  <2>2. CASE i > Len(s)
    <3>1. i - Len(s) \in 1 .. z /\ Len(s) + (i - Len(s)) = i /\ i \in Int
      BY <1>0, <1>1, <2>2
    <3>2. t[i] = unit(l, i - Len(s))
      BY <1>1, <1>2, <3>1
    <3>3. i = Len(s) + 1 /\ t[i].of = l
      <4>1. t[i].of = l /\ i - Len(s) = 1
        BY <1>6, <3>2, UnitIs
      <4> QED BY <1>0, <3>1, <4>1
    <3>4. \A j \in 1 .. z : t[i + j - 1] = unit(l, j)
      <4> SUFFICES ASSUME NEW j \in 1 .. z PROVE t[i + j - 1] = unit(l, j)
        OBVIOUS
      <4>1. i + j - 1 = Len(s) + j
        BY <1>0, <3>3
      <4> QED BY <1>1, <1>2, <4>1
    <3>5. Size(ls[l]) = z /\ l <= Len(ls) /\ i + z <= Len(t) + 1 /\ i + z > Len(t) /\ l = Len(ls)
      <4>1. Size(ls[l]) = z /\ l = Len(ls)
        BY <1>3 DEF z
      <4>2. i + z <= Len(t) + 1 /\ i + z > Len(t)
        BY <1>0, <1>1, <3>3
      <4> QED BY <1>0, <4>1, <4>2
    <3> QED BY <3>3, <3>4, <3>5 DEF Block
  <2> QED BY <1>0, <1>1, <2>1, <2>2
<1>7. Whole(t, o, n, ls)
  BY <1>5, <1>6 DEF Whole
<1> QED BY <1>7 DEF t, u, ls

\* Taking units off the first of three sequences.
LEMMA TakeFirst ==
  ASSUME NEW S, NEW a \in Seq(S), NEW b \in Seq(S), NEW c \in Seq(S)
  PROVE  \A n \in 0 .. Len(a) : Cat(SubSeq(a, n + 1, Len(a)), b, c) = SubSeq(Cat(a, b, c), n + 1, Len(Cat(a, b, c)))
<1> DEFINE s == Cat(a, b, c)
<1>0. /\ s \in Seq(S) /\ Len(s) = Len(a) + Len(b) + Len(c)
      /\ \A i \in 1 .. Len(s) : s[i] = UnitAt(a, b, c, i)
      /\ Len(a) \in Nat /\ Len(b) \in Nat /\ Len(c) \in Nat
  <2>1. Len(a) \in Nat /\ Len(b) \in Nat /\ Len(c) \in Nat
    OBVIOUS
  <2>2. s \in Seq(S) /\ Len(s) = Len(a) + Len(b) + Len(c)
        /\ \A i \in 1 .. Len(a) + Len(b) + Len(c) : s[i] = UnitAt(a, b, c, i)
    BY ThreeSeqs
  <2> QED BY <2>1, <2>2
<1> HIDE DEF s
<1>1. ASSUME NEW n \in 0 .. Len(a) PROVE Cat(SubSeq(a, n + 1, Len(a)), b, c) = SubSeq(s, n + 1, Len(s))
  <2> DEFINE x == SubSeq(a, n + 1, Len(a))
             t == Cat(x, b, c)
             r == SubSeq(s, n + 1, Len(s))
  <2>1. x \in Seq(S) /\ Len(x) = Len(a) - n /\ \A i \in 1 .. Len(a) - n : x[i] = a[i + n]
    BY <1>0, RestType
  <2>2. r \in Seq(S) /\ Len(r) = Len(s) - n /\ \A i \in 1 .. Len(s) - n : r[i] = s[i + n]
    BY <1>0, RestType
  <2> HIDE DEF x, r
  <2>3. /\ t \in Seq(S) /\ Len(t) = Len(x) + Len(b) + Len(c)
        /\ \A i \in 1 .. Len(x) + Len(b) + Len(c) :
             t[i] = UnitAt(x, b, c, i)
    <3>1. x \in Seq(S)
      BY <2>1
    <3> QED BY <3>1, ThreeSeqs
  <2> HIDE DEF t
  <2>4. Len(t) = Len(r)
    BY <1>0, <2>1, <2>2, <2>3
  <2>5. ASSUME NEW i \in 1 .. Len(t) PROVE t[i] = r[i]
    <3>1. i \in 1 .. Len(s) - n /\ i + n \in 1 .. Len(s) /\ Len(x) = Len(a) - n /\ i \in Int
      BY <1>0, <2>1, <2>3
    <3>0. {i, n, Len(a), Len(b)} \subseteq Int
      BY <1>0, <3>1
    <3>2. r[i] = s[i + n]
      BY <2>2, <3>1
    <3>3. CASE i <= Len(a) - n
      <4>1. t[i] = x[i] /\ i \in 1 .. Len(a) - n /\ i + n <= Len(a)
        BY <1>0, <2>1, <2>3, <3>1, <3>3 DEF UnitAt
      <4>2. s[i + n] = a[i + n]
        BY <1>0, <3>1, <4>1 DEF UnitAt
      <4> QED BY <2>1, <3>2, <4>1, <4>2
    <3>4. CASE i > Len(a) - n /\ i <= Len(a) - n + Len(b)
      <4>1. t[i] = b[i - (Len(a) - n)]
        <5>1. t[i] = UnitAt(x, b, c, i) /\ Len(x) = Len(a) - n
          BY <2>3, <3>1
        <5>2. ~ i <= Len(x) /\ i <= Len(x) + Len(b)
          BY <3>0, <3>4, <5>1
        <5> QED BY <5>1, <5>2 DEF UnitAt
      <4>2. s[i + n] = b[(i + n) - Len(a)]
        <5>1. ~ i + n <= Len(a) /\ i + n <= Len(a) + Len(b)
          BY <3>0, <3>4
        <5>2. s[i + n] = UnitAt(a, b, c, i + n)
          BY <1>0, <3>1
        <5> QED BY <5>1, <5>2 DEF UnitAt
      <4>3. i - (Len(a) - n) = (i + n) - Len(a)
        BY <3>0
      <4> QED BY <3>2, <4>1, <4>2, <4>3
    <3>5. CASE i > Len(a) - n + Len(b)
      <4>1. t[i] = c[i - (Len(a) - n) - Len(b)]
        <5>1. t[i] = UnitAt(x, b, c, i) /\ Len(x) = Len(a) - n
          BY <2>3, <3>1
        <5>2. ~ i <= Len(x) /\ ~ i <= Len(x) + Len(b)
          BY <1>0, <3>0, <3>5, <5>1
        <5> QED BY <5>1, <5>2 DEF UnitAt
      <4>2. s[i + n] = c[(i + n) - Len(a) - Len(b)]
        <5>1. i + n > Len(a) + Len(b) /\ Len(b) \in Nat
          BY <1>0, <3>0, <3>5
        <5>2. ~ i + n <= Len(a) /\ ~ i + n <= Len(a) + Len(b)
          BY <3>0, <5>1
        <5>3. s[i + n] = UnitAt(a, b, c, i + n)
          BY <1>0, <3>1
        <5> QED BY <5>2, <5>3 DEF UnitAt
      <4>3. i - (Len(a) - n) - Len(b) = (i + n) - Len(a) - Len(b)
        BY <3>0
      <4> QED BY <3>2, <4>1, <4>2, <4>3
    <3> QED BY <1>0, <3>1, <3>3, <3>4, <3>5
  <2>6. t = r
    BY <2>2, <2>3, <2>4, <2>5, SameSeq
  <2> QED BY <2>6 DEF t, r, x
<1> QED BY <1>1 DEF s

\* Taking units off the second when the first is empty.
LEMMA TakeSecond ==
  ASSUME NEW S, NEW a \in Seq(S), NEW b \in Seq(S), NEW c \in Seq(S)
  PROVE  \A n \in 0 .. Len(b) : a = <<>> =>
           Cat(a, SubSeq(b, n + 1, Len(b)), c) = SubSeq(Cat(a, b, c), n + 1, Len(Cat(a, b, c)))
<1> DEFINE s == Cat(a, b, c)
<1>0. /\ s \in Seq(S) /\ Len(s) = Len(a) + Len(b) + Len(c)
      /\ \A i \in 1 .. Len(s) : s[i] = UnitAt(a, b, c, i)
      /\ Len(a) \in Nat /\ Len(b) \in Nat /\ Len(c) \in Nat
  <2>1. Len(a) \in Nat /\ Len(b) \in Nat /\ Len(c) \in Nat
    OBVIOUS
  <2>2. s \in Seq(S) /\ Len(s) = Len(a) + Len(b) + Len(c)
        /\ \A i \in 1 .. Len(a) + Len(b) + Len(c) : s[i] = UnitAt(a, b, c, i)
    BY ThreeSeqs
  <2> QED BY <2>1, <2>2
<1> HIDE DEF s
<1>1. ASSUME NEW n \in 0 .. Len(b), a = <<>>
      PROVE  Cat(a, SubSeq(b, n + 1, Len(b)), c) = SubSeq(s, n + 1, Len(s))
  <2> DEFINE x == SubSeq(b, n + 1, Len(b))
             t == Cat(a, x, c)
             r == SubSeq(s, n + 1, Len(s))
  <2>0. Len(a) = 0
    BY <1>1
  <2>1. x \in Seq(S) /\ Len(x) = Len(b) - n /\ \A i \in 1 .. Len(b) - n : x[i] = b[i + n]
    BY <1>0, RestType
  <2>2. r \in Seq(S) /\ Len(r) = Len(s) - n /\ \A i \in 1 .. Len(s) - n : r[i] = s[i + n]
    BY <1>0, <2>0, RestType
  <2> HIDE DEF x, r
  <2>3. /\ t \in Seq(S) /\ Len(t) = Len(a) + Len(x) + Len(c)
        /\ \A i \in 1 .. Len(a) + Len(x) + Len(c) :
             t[i] = UnitAt(a, x, c, i)
    <3>1. x \in Seq(S)
      BY <2>1
    <3> QED BY <3>1, ThreeSeqs
  <2> HIDE DEF t
  <2>4. Len(t) = Len(r)
    BY <1>0, <2>0, <2>1, <2>2, <2>3
  <2>5. ASSUME NEW i \in 1 .. Len(t) PROVE t[i] = r[i]
    <3>1. i \in 1 .. Len(s) - n /\ i + n \in 1 .. Len(s) /\ Len(x) = Len(b) - n /\ i \in Int
      BY <1>0, <2>0, <2>1, <2>3
    <3>2. r[i] = s[i + n]
      BY <2>2, <3>1
    <3>3. {i, n, Len(b), Len(x)} \subseteq Int /\ Len(a) = 0 /\ Len(x) = Len(b) - n /\ i >= 1
      BY <1>0, <2>0, <2>1, <3>1
    <3>4. t[i] = IF i <= Len(x) THEN x[i] ELSE c[i - Len(x)]
      <4>1. t[i] = UnitAt(a, x, c, i) /\ ~ i <= Len(a)
        BY <2>3, <3>3
      <4> QED BY <3>3, <4>1 DEF UnitAt
    <3>5. s[i + n] = IF i + n <= Len(b) THEN b[i + n] ELSE c[i + n - Len(b)]
      <4>1. s[i + n] = UnitAt(a, b, c, i + n) /\ ~ i + n <= Len(a)
        BY <1>0, <3>1, <3>3
      <4> QED BY <3>3, <4>1 DEF UnitAt
    <3>6. (i <= Len(x) <=> i + n <= Len(b)) /\ i - Len(x) = i + n - Len(b)
      BY <3>3
    <3>7. i <= Len(x) => x[i] = b[i + n]
      BY <2>1, <3>3
    <3> QED BY <3>2, <3>4, <3>5, <3>6, <3>7
  <2>6. t = r
    BY <2>2, <2>3, <2>4, <2>5, SameSeq
  <2> QED BY <2>6 DEF t, r, x
<1> QED BY <1>1 DEF s

\* Moving units from the second to the first.
LEMMA MoveUnits ==
  ASSUME NEW S, NEW a \in Seq(S), NEW b \in Seq(S), NEW c \in Seq(S), NEW n \in 0 .. Len(b)
  PROVE  Cat(a \o SubSeq(b, 1, n), SubSeq(b, n + 1, Len(b)), c) = Cat(a, b, c)
<1> DEFINE x == SubSeq(b, 1, n)
           y == SubSeq(b, n + 1, Len(b))
<1>1. /\ x \in Seq(S) /\ Len(x) = n /\ \A i \in 1 .. n : x[i] = b[i]
      /\ y \in Seq(S) /\ Len(y) = Len(b) - n /\ \A i \in 1 .. Len(b) - n : y[i] = b[i + n]
  BY RestType
<1> HIDE DEF x, y
<1>2. x \o y = b
  <2>1. x \o y \in Seq(S) /\ Len(x \o y) = Len(b)
    BY <1>1
  <2>2. ASSUME NEW i \in 1 .. Len(b) PROVE (x \o y)[i] = b[i]
    <3>1. CASE i <= n
      <4>1. (x \o y)[i] = x[i] /\ i \in 1 .. n
        BY <1>1, <3>1
      <4> QED BY <1>1, <4>1
    <3>2. CASE i > n
      <4>1. i - n \in 1 .. Len(b) - n /\ (i - n) + n = i
        <5>1. i \in Int /\ n \in Int /\ Len(b) \in Int /\ i <= Len(b)
          <6>1. Len(b) \in Nat
            OBVIOUS
          <6> QED BY <6>1
        <5> QED BY <3>2, <5>1
      <4>2. (x \o y)[i] = y[i - n]
        <5>1. x \in Seq(S) /\ y \in Seq(S) /\ i \in 1 .. Len(x) + Len(y) /\ Len(x) = n
          BY <1>1
        <5>2. ~ i <= Len(x)
          BY <3>2, <5>1
        <5> QED BY <5>1, <5>2, ConcatProperties
      <4> QED BY <1>1, <4>1, <4>2
    <3>3. i \in Int /\ n \in Int
      OBVIOUS
    <3>4. i <= n \/ i > n
      BY <3>3
    <3> QED BY <3>1, <3>2, <3>4, Zenon
  <2> QED BY <2>1, <2>2, SameSeq
<1>3. (a \o x) \o y = a \o (x \o y)
  <2>1. x \in Seq(S) /\ y \in Seq(S)
    BY <1>1
  <2> QED BY <2>1
<1> QED BY <1>2, <1>3 DEF x, y, Cat

\* Moving one unit from the third to the second.
LEMMA MoveOne ==
  ASSUME NEW S, NEW a \in Seq(S), NEW b \in Seq(S), NEW c \in Seq(S), c # <<>>
  PROVE  Cat(a, Append(b, Head(c)), Tail(c)) = Cat(a, b, c)
<1> DEFINE x == Append(b, Head(c))
           y == Tail(c)
           s == Cat(a, b, c)
           t == Cat(a, x, y)
<1>1. /\ x \in Seq(S) /\ Len(x) = Len(b) + 1 /\ x[Len(b) + 1] = c[1]
      /\ \A i \in 1 .. Len(b) : x[i] = b[i]
      /\ y \in Seq(S) /\ Len(y) = Len(c) - 1 /\ \A i \in 1 .. Len(c) - 1 : y[i] = c[i + 1]
  OBVIOUS
<1>2. Len(a) \in Nat /\ Len(b) \in Nat /\ Len(c) \in Nat
  OBVIOUS
<1> HIDE DEF x, y
<1>3. /\ s \in Seq(S) /\ Len(s) = Len(a) + Len(b) + Len(c)
      /\ \A i \in 1 .. Len(a) + Len(b) + Len(c) : s[i] = UnitAt(a, b, c, i)
  BY ThreeSeqs
<1>4. /\ t \in Seq(S) /\ Len(t) = Len(a) + Len(x) + Len(y)
      /\ \A i \in 1 .. Len(a) + Len(x) + Len(y) : t[i] = UnitAt(a, x, y, i)
  <2>1. x \in Seq(S) /\ y \in Seq(S)
    BY <1>1
  <2> QED BY <2>1, ThreeSeqs
<1> HIDE DEF s, t
<1>5. Len(s) = Len(t)
  BY <1>1, <1>2, <1>3, <1>4
<1>6. ASSUME NEW i \in 1 .. Len(s) PROVE s[i] = t[i]
  <2>1. s[i] = UnitAt(a, b, c, i) /\ t[i] = UnitAt(a, x, y, i)
    BY <1>3, <1>4, <1>5
  <2>2. i \in Nat \ {0} /\ i <= Len(a) + Len(b) + Len(c)
    BY <1>2, <1>3
  <2>3. CASE i <= Len(a)
    BY <2>1, <2>3 DEF UnitAt
  <2>4. CASE i > Len(a) /\ i <= Len(a) + Len(b)
    <3>1. /\ ~ i <= Len(a) /\ i <= Len(a) + Len(b) /\ i <= Len(a) + Len(x)
          /\ i - Len(a) \in 1 .. Len(b)
      BY <1>1, <1>2, <2>2, <2>4
    <3> QED BY <1>1, <2>1, <3>1 DEF UnitAt
  <2>5. CASE i = Len(a) + Len(b) + 1
    <3>1. /\ ~ i <= Len(a) /\ ~ i <= Len(a) + Len(b) /\ i <= Len(a) + Len(x)
          /\ i - Len(a) = Len(b) + 1 /\ i - Len(a) - Len(b) = 1
      BY <1>1, <1>2, <2>5
    <3> QED BY <1>1, <2>1, <3>1 DEF UnitAt
  <2>6. CASE i > Len(a) + Len(b) + 1
    <3> DEFINE j == i - Len(a) - Len(x)
    <3>1. /\ ~ i <= Len(a) /\ ~ i <= Len(a) + Len(b) /\ ~ i <= Len(a) + Len(x)
          /\ j \in 1 .. Len(c) - 1 /\ i - Len(a) - Len(b) = j + 1
      BY <1>1, <1>2, <2>2, <2>6
    <3>2. t[i] = y[j] /\ s[i] = c[j + 1]
      BY <2>1, <3>1 DEF UnitAt
    <3> QED BY <1>1, <3>1, <3>2
  <2> QED BY <1>2, <2>2, <2>3, <2>4, <2>5, <2>6
<1>7. s = t
  BY <1>3, <1>4, <1>5, <1>6, SameSeq
<1> QED BY <1>7 DEF s, t, x, y

\* Adding units when the third is empty.
LEMMA AddUnits ==
  ASSUME NEW S, NEW a \in Seq(S), NEW b \in Seq(S), NEW u \in Seq(S)
  PROVE  Cat(a, b, u) = Cat(a, b, <<>>) \o u
<1>1. a \o b \in Seq(S) /\ (a \o b) \o <<>> = a \o b
  OBVIOUS
<1> QED BY <1>1 DEF Cat

\* InPlace in the next state.
LEMMA NowInPlace ==
  ASSUME NEW s, NEW o, NEW c, NEW n, NEW ks, At(s, o, c, n, ks), Stream' = s, Owed' = o,
         cmd' = c, NextCommand' = n, kinds' = ks
  PROVE  InPlace'
  BY DEF InPlace, At, Whole, Block

\* A step that takes units off rbuf, or off the socket when rbuf is empty.
LEMMA TakenFromRbuf ==
  ASSUME TypeOK, NEW n \in 0 .. Len(rbuf), rbuf' = SubSeq(rbuf, n + 1, Len(rbuf)),
         UNCHANGED <<chan, todo>>
  PROVE  Stream' = SubSeq(Stream, n + 1, Len(Stream))
<1>1. Cat(SubSeq(rbuf, n + 1, Len(rbuf)), chan, todo)
        = SubSeq(Cat(rbuf, chan, todo), n + 1, Len(Cat(rbuf, chan, todo)))
  <2>1. rbuf \in Seq(Unit) /\ chan \in Seq(Unit) /\ todo \in Seq(Unit)
    BY StreamType
  <2> QED BY <2>1, TakeFirst
<1> QED BY <1>1 DEF Stream

LEMMA TakenFromSocket ==
  ASSUME TypeOK, NEW n \in 0 .. Len(chan), chan' = SubSeq(chan, n + 1, Len(chan)),
         rbuf = <<>>, UNCHANGED <<rbuf, todo>>
  PROVE  Stream' = SubSeq(Stream, n + 1, Len(Stream))
<1>1. Cat(rbuf, SubSeq(chan, n + 1, Len(chan)), todo)
        = SubSeq(Cat(rbuf, chan, todo), n + 1, Len(Cat(rbuf, chan, todo)))
  <2>1. rbuf \in Seq(Unit) /\ chan \in Seq(Unit) /\ todo \in Seq(Unit)
    BY StreamType
  <2> QED BY <2>1, TakeSecond
<1> QED BY <1>1 DEF Stream

\* A step that leaves the stream and what is owed alone.
LEMMA StillInPlace ==
  ASSUME InPlace, Stream' = Stream, Owed' = Owed, UNCHANGED <<kinds, first, cmd>>
  PROVE  InPlace'
  BY DEF InPlace, Whole, Block, NextCommand

\* A step that takes data that are owed off the stream.
LEMMA DataTaken ==
  ASSUME TypeOK, InPlace, UNCHANGED <<kinds, first, cmd>>, Owed \in Nat,
         NEW n \in 0 .. Owed, Owed' = Owed - n, Stream' = SubSeq(Stream, n + 1, Len(Stream))
  PROVE  InPlace'
<1> DEFINE s == Stream
           t == SubSeq(s, n + 1, Len(s))
<1>0. /\ s \in Seq(Unit) /\ Len(s) \in Nat /\ Owed <= Len(s) /\ Len(t) = Len(s) - n
      /\ \A i \in 1 .. Len(t) : t[i] = s[i + n]
  <2>1. s \in Seq(Unit) /\ Len(s) \in Nat
    BY StreamType
  <2>2. Owed <= Len(s)
    BY DEF InPlace, At
  <2> HIDE DEF s
  <2> QED BY <2>1, <2>2, RestType
<1>1. \A i \in 1 .. Owed - n : t[i] = unit(cmd, DataUnits + 2 - (Owed - n) + i)
  <2> SUFFICES ASSUME NEW i \in 1 .. Owed - n PROVE t[i] = unit(cmd, DataUnits + 2 - (Owed - n) + i)
    OBVIOUS
  <2> HIDE DEF t, s
  <2>1. i + n \in 1 .. Owed /\ i \in 1 .. Len(t) /\ DataUnits + 2 - Owed + (i + n) = DataUnits + 2 - (Owed - n) + i
    BY <1>0, UnitIs
  <2>2. s[i + n] = unit(cmd, DataUnits + 2 - Owed + (i + n))
    BY <2>1 DEF InPlace, At, s
  <2> QED BY <1>0, <2>1, <2>2
<1>2. Whole(t, Owed - n, NextCommand, kinds)
  <2>1. Whole(s, Owed, NextCommand, kinds)
    BY DEF InPlace, At
  <2> HIDE DEF s
  <2>2. Owed \in 0 .. Len(s)
    BY <1>0
  <2> QED BY <1>0, <2>1, <2>2, WholeShift
<1>3. Owed - n > 0 => cmd # 0
  BY DEF InPlace, At
<1>4. Owed - n <= Len(t)
  BY <1>0
<1>5. Stream' = t /\ NextCommand' = NextCommand
  BY DEF NextCommand
<1>6. At(t, Owed - n, cmd, NextCommand, kinds)
  BY <1>1, <1>2, <1>3, <1>4 DEF At
<1> HIDE DEF t
<1> QED BY <1>5, <1>6, NowInPlace

\* A step that sends the beginning of a command.
LEMMA CommandBegun ==
  ASSUME TypeOK, InPlace, NEW kind \in Kinds, Len(kinds) < MaxCmds,
         kinds' = Append(kinds, kind), Stream' = Stream \o Units(Len(kinds) + 1, kind),
         Owed \in Nat, Owed' = Owed, UNCHANGED <<first, cmd>>
  PROVE  InPlace'
<1> DEFINE s == Stream
           u == Units(Len(kinds) + 1, kind)
           t == s \o u
           ls == Append(kinds, kind)
<1>0. s \in Seq(Unit) /\ Len(s) \in Nat /\ Owed <= Len(s) /\ kinds \in Seq(Kinds)
  <2>1. s \in Seq(Unit) /\ kinds \in Seq(Kinds)
    BY StreamType DEF TypeOK
  <2>2. Owed <= Len(s)
    BY DEF InPlace, At
  <2> QED BY <2>1, <2>2
<1>1. u \in Seq(Unit)
  BY <1>0, UnitsType, ConnectionAssumption
<1> HIDE DEF u
<1>2. Len(t) >= Len(s) /\ \A i \in 1 .. Len(s) : t[i] = s[i]
  <2> HIDE DEF s
  <2> QED BY <1>0, <1>1
<1>3. Whole(t, Owed, NextCommand, ls)
  <2>1. Whole(s, Owed, NextCommand, kinds)
    BY DEF InPlace, At
  <2>2. Owed \in 0 .. Len(s)
    BY <1>0
  <2> HIDE DEF s
  <2> QED BY <1>0, <2>1, <2>2, WholeMore DEF u
<1> HIDE DEF t
<1>4. \A i \in 1 .. Owed : t[i] = unit(cmd, DataUnits + 2 - Owed + i)
  <2>1. \A i \in 1 .. Owed : s[i] = unit(cmd, DataUnits + 2 - Owed + i)
    BY DEF InPlace, At
  <2> HIDE DEF s
  <2> QED BY <1>0, <1>2, <2>1
<1>5. Owed <= Len(t)
  <2> HIDE DEF s
  <2> QED BY <1>0, <1>1, <1>2 DEF t
<1>6. Stream' = t /\ kinds' = ls /\ NextCommand' = NextCommand
  BY DEF NextCommand, t, u
<1>7. Owed > 0 => cmd # 0
  BY DEF InPlace, At
<1>8. At(t, Owed, cmd, NextCommand, ls)
  BY <1>3, <1>4, <1>5, <1>7 DEF At
<1> HIDE DEF ls
<1> QED BY <1>6, <1>8, NowInPlace

\* Where no data is owed, the first line in rbuf is the line of the next command.
LEMMA NextLine ==
  ASSUME TypeOK, InPlace, Owed = 0, NEW n \in LineEnds, \A m \in LineEnds : n <= m
  PROVE  /\ n = 2 /\ NextCommand \in 1 .. Len(kinds) /\ rbuf[n].of = NextCommand
         /\ CommandOf(SubSeq(rbuf, 1, n)) = kinds[NextCommand]
         /\ At(SubSeq(Stream, n + 1, Len(Stream)), Size(kinds[NextCommand]) - 2, NextCommand,
               NextCommand + 1, kinds)
<1> DEFINE s == Stream
           k == NextCommand
           z == Size(kinds[k])
           t == SubSeq(s, n + 1, Len(s))
<1>0. /\ rbuf \in Seq(Unit) /\ s \in Seq(Unit) /\ Len(s) >= Len(rbuf) /\ Len(s) \in Nat /\ Len(rbuf) \in Nat
      /\ \A i \in 1 .. Len(rbuf) : s[i] = rbuf[i]
  <2>1. /\ rbuf \in Seq(Unit) /\ chan \in Seq(Unit) /\ todo \in Seq(Unit) /\ s \in Seq(Unit)
        /\ Len(s) = Len(rbuf) + Len(chan) + Len(todo)
    BY StreamType
  <2>2. \A i \in 1 .. Len(rbuf) + Len(chan) + Len(todo) : s[i] = UnitAt(rbuf, chan, todo, i)
    BY <2>1, ThreeSeqs DEF Stream
  <2> HIDE DEF s
  <2> QED BY <2>1, <2>2 DEF UnitAt
<1>1. n \in 1 .. Len(rbuf) /\ rbuf[n].nl
  BY <1>0 DEF LineEnds
<1>2. k \in Nat /\ (k # 0 => TRUE) /\ Len(kinds) \in Nat /\ kinds \in Seq(Kinds)
  BY ConnectionAssumption DEF TypeOK, NextCommand
<1>3. Whole(s, 0, k, kinds) /\ s # <<>>
  <2>1. s # <<>>
    <3> HIDE DEF s
    <3> QED BY <1>0, <1>1
  <2> QED BY <2>1 DEF InPlace, At
<1>4. /\ k <= Len(kinds) /\ z <= Len(s) /\ \A j \in 1 .. z : s[j] = unit(k, j)
      /\ Whole(s, z, k + 1, kinds)
  <2> HIDE DEF s, k
  <2> QED BY <1>0, <1>2, <1>3, WholeNext DEF z
<1>5. z \in 2 .. DataUnits + 2 /\ DataUnits \in Nat \ {0}
  BY UnitIs
<1> HIDE DEF s, k, z, t
<1>6. s[1] = unit(k, 1) /\ s[2] = unit(k, 2) /\ s[1] \in Unit
  BY <1>0, <1>3, <1>4, <1>5
<1>7. k \in 1 .. Len(kinds)
  <2>1. k = s[1].of
    BY <1>6, UnitIs
  <2>2. k \in 1 .. MaxCmds
    BY <1>6, <2>1 DEF Unit
  <2> QED BY <1>2, <1>4, <2>2
<1>8. n # 1
  BY <1>0, <1>1, <1>5, <1>6, UnitIs
<1>9. 2 \in LineEnds
  <2>1. rbuf[2] = unit(k, 2) /\ 2 \in 1 .. Len(rbuf)
    BY <1>0, <1>1, <1>6, <1>8
  <2>2. rbuf[2].nl
    BY <2>1, UnitIs
  <2> QED BY <1>0, <2>1, <2>2 DEF LineEnds
<1>10. n = 2
  BY <1>1, <1>8, <1>9
<1>11. rbuf[1] = unit(k, 1) /\ rbuf[2] = unit(k, 2) /\ rbuf[n].of = k
  <2>1. rbuf[1] = unit(k, 1) /\ rbuf[2] = unit(k, 2)
    BY <1>0, <1>1, <1>6, <1>10
  <2> QED BY <1>10, <2>1, UnitIs
<1>12. CommandOf(SubSeq(rbuf, 1, n)) = kinds[k]
  <2> DEFINE l == SubSeq(rbuf, 1, 2)
  <2>1. l \in Seq(Unit) /\ Len(l) = 2 /\ l[1] = rbuf[1] /\ l[2] = rbuf[2]
    BY <1>0, <1>1, <1>10
  <2>2. l = << unit(k, 1), unit(k, 2) >> /\ l[1].of = k
    <3>1. l = << l[1], l[2] >>
      <4> HIDE DEF l
      <4> QED BY <2>1
    <3> QED BY <1>11, <2>1, <3>1, UnitIs
  <2> HIDE DEF l
  <2>3. CommandOf(l) = kinds[k]
    BY <2>2 DEF CommandOf
  <2> QED BY <1>10, <2>3 DEF l
<1>13. At(t, z - 2, k, k + 1, kinds)
  <2>1. Whole(t, z - 2, k + 1, kinds)
    <3>1. z \in 0 .. Len(s) /\ n \in 0 .. z
      BY <1>0, <1>4, <1>5, <1>10
    <3>2. Whole(t, z - n, k + 1, kinds)
      BY <1>0, <1>4, <3>1, WholeShift DEF t
    <3> QED BY <1>10, <3>2
  <2>2. Len(t) = Len(s) - 2 /\ \A i \in 1 .. Len(t) : t[i] = s[i + 2]
    <3>1. 2 <= Len(s) /\ Len(s) \in Nat /\ s \in Seq(Unit)
      BY <1>0, <1>4, <1>5
    <3>2. n \in 0 .. Len(s)
      BY <1>10, <3>1
    <3>3. Len(t) = Len(s) - n /\ \A i \in 1 .. Len(s) - n : t[i] = s[i + n]
      BY <3>1, <3>2, RestType DEF t
    <3> QED BY <1>10, <3>3
  <2>3. z > 2 => z = DataUnits + 2
    BY <1>5 DEF z, Size
  <2>4. \A i \in 1 .. z - 2 : t[i] = unit(k, DataUnits + 2 - (z - 2) + i)
    <3> SUFFICES ASSUME NEW i \in 1 .. z - 2 PROVE t[i] = unit(k, DataUnits + 2 - (z - 2) + i)
      OBVIOUS
    <3>1. /\ i \in 1 .. Len(t) /\ i + 2 \in 1 .. z
          /\ DataUnits + 2 - (z - 2) + i = i + 2
      BY <1>0, <1>4, <1>5, <2>2, <2>3
    <3> QED BY <1>4, <2>2, <3>1
  <2> QED BY <1>0, <1>4, <1>5, <1>7, <2>1, <2>2, <2>4 DEF At
<1> QED BY <1>7, <1>10, <1>11, <1>12, <1>13 DEF s, k, z, t

\* The place is kept when a command has been parsed, and data follow a set.
LEMMA CommandInStep ==
  ASSUME TInv, InStep, ~ Managed, try_read_command
  PROVE  InStep'
<1>0. TypeOK /\ state = "conn_read" /\ Owed = 0
  BY DEF TInv, try_read_command, Running, Owed
<1>1. CASE Broken
  BY <1>1 DEF try_read_command, clientVars, Broken, InStep
<1>2. CASE ~ Broken
  <2>1. InPlace
    BY <1>0, <1>2, InStepIs DEF GivingUp
  <2>2. PICK n \in LineEnds :
          /\ \A m \in LineEnds : n <= m
          /\ process_command(rbuf[n].of, CommandOf(SubSeq(rbuf, 1, n)))
          /\ Consume(n)
    BY DEF try_read_command
  <2> DEFINE k == NextCommand
             kind == kinds[k]
             t == SubSeq(Stream, n + 1, Len(Stream))
  <2>3. /\ n = 2 /\ k \in 1 .. Len(kinds) /\ rbuf[n].of = k
        /\ CommandOf(SubSeq(rbuf, 1, n)) = kind /\ n \in 0 .. Len(rbuf)
        /\ At(t, Size(kind) - 2, k, k + 1, kinds)
    <3>1. n \in 0 .. Len(rbuf)
      BY <1>0 DEF LineEnds, TypeOK
    <3> QED BY <1>0, <2>1, <2>2, <3>1, NextLine
  <2>4. process_command(k, kind) /\ Consume(2)
    BY <2>2, <2>3
  <2>5. Stream' = t
    <3>1. UNCHANGED <<chan, todo>> /\ rbuf' = SubSeq(rbuf, n + 1, Len(rbuf))
      BY <2>2 DEF try_read_command, clientVars, Consume
    <3>2. Stream' = SubSeq(Stream, n + 1, Len(Stream))
      BY <1>0, <2>3, <3>1, TakenFromRbuf
    <3> QED BY <2>3, <3>2
  <2>6. UNCHANGED <<kinds, first>>
    BY DEF try_read_command, clientVars
  <2>7. k # 0 /\ DataUnits \in Nat
    BY <2>3, UnitIs
  <2> HIDE DEF k, kind, t
  <2>8. cmd' = k /\ NextCommand' = k + 1
    <3>1. cmd' = k
      BY <2>4 DEF process_command
    <3> QED BY <2>7, <3>1 DEF NextCommand
  <2>9. GivingUp' \/ Owed' = Size(kind) - 2
    <3>1. Size(kind) - 2 = IF kind = "set" THEN DataUnits ELSE 0
      BY <2>7 DEF Size
    <3> QED BY <1>0, <2>4, <2>7, <3>1 DEF process_command, Owed, GivingUp
  <2>10. CASE GivingUp'
    BY <2>10 DEF InStep
  <2>11. CASE Owed' = Size(kind) - 2
    <3>1. InPlace'
      BY <2>3, <2>5, <2>6, <2>8, <2>11, NowInPlace
    <3> QED BY <3>1, InStepNext
  <2> QED BY <2>9, <2>10, <2>11
<1> QED BY <1>1, <1>2

\* What a step that keeps the states and the counters keeps.
LEMMA SameNeeds ==
  ASSUME UNCHANGED <<state, write_and_go, rlbytes, sbytes>>
  PROVE  Owed' = Owed /\ (GivingUp' <=> GivingUp)
  BY DEF Owed, GivingUp

\* The data a connection waits for are a number of units.
LEMMA OwedType ==
  ASSUME TypeOK
  PROVE  Owed \in 0 .. DataUnits /\ Owed \in Nat
  BY UnitIs DEF TypeOK, Owed

\* A step that only moves units towards rbuf, or none.
LEMMA StreamKept ==
  ASSUME InStep, Stream' = Stream, Owed' = Owed, UNCHANGED <<kinds, first, cmd>>,
         GivingUp => GivingUp', Broken => Broken'
  PROVE  InStep'
<1>1. CASE GivingUp \/ Broken
  BY <1>1, InStepNext
<1>2. CASE InPlace
  BY <1>2, StillInPlace, InStepNext
<1> QED BY <1>1, <1>2, InStepIs

LEMMA ClientInStep ==
  ASSUME TInv, InStep, Client
  PROVE  InStep'
<1>0. TypeOK /\ rbuf \in Seq(Unit) /\ chan \in Seq(Unit) /\ todo \in Seq(Unit)
  BY StreamType DEF TInv
<1>1. UNCHANGED <<first, rbuf, state, write_and_go, rlbytes, sbytes, cmd>>
  BY DEF Client, client_begin, client_send, client_read, client_close, clientVars, readVars,
         countVars, writeVars
<1>2. Owed' = Owed /\ (GivingUp' <=> GivingUp)
  BY <1>1, SameNeeds
<1>3. CASE \E kind \in Kinds : client_begin(kind)
  <2>1. PICK kind \in Kinds : client_begin(kind)
    BY <1>3
  <2>2. /\ todo = <<>> /\ Len(kinds) < MaxCmds /\ kinds' = Append(kinds, kind)
        /\ todo' = Units(Len(kinds) + 1, kind) /\ UNCHANGED <<peer, chan>>
    BY <2>1 DEF client_begin
  <2>3. Units(Len(kinds) + 1, kind) \in Seq(Unit)
    <3>1. Len(kinds) + 1 \in 1 .. MaxCmds
      BY <1>0, <2>2, ConnectionAssumption DEF TypeOK
    <3> QED BY <3>1, UnitsType
  <2>4. Stream' = Stream \o Units(Len(kinds) + 1, kind)
    <3>1. Cat(rbuf, chan, Units(Len(kinds) + 1, kind)) = Cat(rbuf, chan, todo) \o Units(Len(kinds) + 1, kind)
      <4>1. Cat(rbuf, chan, Units(Len(kinds) + 1, kind)) = Cat(rbuf, chan, <<>>) \o Units(Len(kinds) + 1, kind)
        BY <1>0, <2>3, AddUnits
      <4> QED BY <2>2, <4>1
    <3> QED BY <1>1, <2>2, <3>1 DEF Stream
  <2>5. CASE GivingUp \/ Broken
    BY <1>2, <2>2, <2>5, InStepNext DEF Broken
  <2>6. CASE InPlace
    BY <1>0, <1>1, <1>2, <2>2, <2>4, <2>6, CommandBegun, OwedType, InStepNext
  <2> QED BY <2>5, <2>6, InStepIs
<1>4. CASE client_send
  <2>1. Stream' = Stream
    <3>1. todo # <<>> /\ chan' = Append(chan, Head(todo)) /\ todo' = Tail(todo)
      BY <1>4 DEF client_send
    <3>2. Cat(rbuf, Append(chan, Head(todo)), Tail(todo)) = Cat(rbuf, chan, todo)
      BY <1>0, <3>1, MoveOne
    <3> QED BY <1>1, <3>1, <3>2 DEF Stream
  <2>2. UNCHANGED <<kinds, peer>>
    BY <1>4 DEF client_send
  <2> QED BY <1>1, <1>2, <2>1, <2>2, StreamKept DEF Broken
<1>5. CASE client_read
  <2>1. UNCHANGED <<kinds, peer, chan, todo>>
    BY <1>5 DEF client_read, clientVars
  <2> QED BY <1>1, <1>2, <2>1, StreamKept DEF Broken, Stream
<1>6. CASE \E how \in {"shut", "reset"} : client_close(how)
  <2>1. PICK how \in {"shut", "reset"} : client_close(how)
    BY <1>6
  <2>2. CASE how = "reset"
    BY <2>1, <2>2, InStepNext DEF client_close, Broken
  <2>3. CASE how = "shut"
    <3>1. UNCHANGED <<kinds, chan, todo>> /\ ~ Broken
      BY <2>1, <2>3 DEF client_close, Broken
    <3> QED BY <1>1, <1>2, <3>1, StreamKept DEF Stream
  <2> QED BY <2>2, <2>3
<1> QED BY <1>3, <1>4, <1>5, <1>6 DEF Client

LEMMA LoopInStep ==
  ASSUME TInv, InStep, conn_new \/ event_handler \/ conn_close
  PROVE  InStep'
<1>1. CASE conn_new
  <2>1. /\ rbuf' = <<>> /\ chan' = <<>> /\ todo' = <<>> /\ cmd' = 0 /\ first' = Len(kinds) + 1
        /\ state' = "conn_read" /\ UNCHANGED kinds
    BY <1>1 DEF conn_new
  <2>2. Stream' = <<>>
    <3>1. Cat(<<>>, <<>>, <<>>) = <<>>
      BY DEF Cat
    <3> QED BY <2>1, <3>1 DEF Stream
  <2>3. Owed' = 0 /\ NextCommand' = Len(kinds) + 1
    BY <2>1 DEF Owed, NextCommand
  <2>4. At(<<>>, 0, 0, Len(kinds) + 1, kinds)
    <3>1. Len(<<>>) = 0
      OBVIOUS
    <3> QED BY <3>1 DEF At, Whole
  <2> QED BY <2>1, <2>2, <2>3, <2>4, NowInPlace, InStepNext
<1>2. CASE event_handler
  <2>1. /\ UNCHANGED <<kinds, first, todo, peer, chan, rbuf, state, write_and_go, rlbytes, sbytes, cmd>>
    BY <1>2 DEF event_handler, clientVars, readVars, countVars, writeVars
  <2> QED BY <2>1, SameNeeds, StreamKept DEF Broken, Stream
<1>3. CASE conn_close
  BY <1>3, InStepNext DEF conn_close, GivingUp
<1> QED BY <1>1, <1>2, <1>3

LEMMA ReadInStep ==
  ASSUME TInv, InStep, fn = "try_read_network" => state = "conn_read",
         \/ try_read_network \/ grow \/ grow_fails \/ read_more
         \/ read_eof \/ read_end \/ read_error
  PROVE  InStep'
<1>0. TypeOK /\ rbuf \in Seq(Unit) /\ chan \in Seq(Unit) /\ todo \in Seq(Unit)
  BY StreamType DEF TInv
<1> USE DEF clientVars, readVars, countVars, writeVars, loopVars
<1>1. CASE try_read_network \/ grow
  <2>1. /\ UNCHANGED <<kinds, first, todo, peer, chan, rbuf, state, write_and_go, rlbytes, sbytes, cmd>>
    BY <1>1 DEF try_read_network, grow
  <2> QED BY <2>1, SameNeeds, StreamKept DEF Broken, Stream
<1>2. CASE grow_fails
  BY <1>2, InStepNext DEF grow_fails, out_string, conn_set_state, GivingUp
<1>3. CASE read_more
  <2>1. UNCHANGED <<kinds, first, todo, peer, state, write_and_go, rlbytes, sbytes, cmd>>
    BY <1>3 DEF read_more
  <2>2. Stream' = Stream
    <3>1. PICK n \in 0 .. Len(chan) :
            rbuf' = rbuf \o SubSeq(chan, 1, n) /\ chan' = SubSeq(chan, n + 1, Len(chan))
      <4>1. Min2(Len(chan), rsize - Len(rbuf)) \in 0 .. Len(chan)
        <5>1. Len(chan) \in Nat /\ rsize - Len(rbuf) \in Nat
          <6>1. Len(rbuf) \in Nat /\ Len(chan) \in Nat /\ rsize \in Nat /\ Len(rbuf) < rsize
            <7>1. Len(rbuf) < rsize
              BY <1>3 DEF read_more, Reading
            <7>2. rsize \in Nat
              BY <1>0 DEF TypeOK
            <7>3. Len(rbuf) \in Nat /\ Len(chan) \in Nat
              BY <1>0
            <7> QED BY <7>1, <7>2, <7>3
          <6> QED BY <6>1
        <5> QED BY <5>1, MinIn
      <4> QED BY <1>3, <4>1 DEF read_more
    <3>2. Cat(rbuf \o SubSeq(chan, 1, n), SubSeq(chan, n + 1, Len(chan)), todo) = Cat(rbuf, chan, todo)
      BY <1>0, MoveUnits
    <3> QED BY <2>1, <3>1, <3>2 DEF Stream
  <2> QED BY <2>1, <2>2, SameNeeds, StreamKept DEF Broken
<1>4. CASE read_eof
  BY <1>4, InStepNext DEF read_eof, GivingUp
<1>5. CASE read_error
  BY <1>5, InStepNext DEF read_error, Broken
<1>6. CASE read_end
  <2>1. UNCHANGED <<kinds, first, todo, peer, chan, rbuf, write_and_go, rlbytes, sbytes, cmd>>
    BY <1>6 DEF read_end
  <2>2. state' = state \/ state' = "conn_closing"
    BY <1>6 DEF read_end, wait_for
  <2>3. CASE state' = state
    BY <2>1, <2>3, SameNeeds, StreamKept DEF Broken, Stream
  <2>4. CASE state' = "conn_closing"
    BY <2>4, InStepNext DEF GivingUp
  <2> QED BY <2>2, <2>3, <2>4
<1> QED BY <1>1, <1>2, <1>3, <1>4, <1>5, <1>6

LEMMA DataInStep ==
  ASSUME TInv, InStep,
         \/ complete_nread \/ nread_leftover \/ nread_socket
         \/ swallow_end \/ swallow_leftover \/ swallow_socket \/ data_missing
  PROVE  InStep'
<1>0. TypeOK /\ rbuf \in Seq(Unit) /\ chan \in Seq(Unit) /\ todo \in Seq(Unit)
  BY StreamType DEF TInv
<1> USE DEF clientVars, readVars, countVars, writeVars, loopVars
<1>1. CASE complete_nread \/ swallow_end
  <2>1. UNCHANGED <<kinds, first, todo, peer, chan, rbuf, cmd>>
    BY <1>1 DEF complete_nread, swallow_end, out_string
  <2>2. Owed = 0 /\ Owed' = 0 /\ ~ GivingUp
    BY <1>1 DEF complete_nread, swallow_end, out_string, conn_set_state, Running, Owed, GivingUp
  <2> QED BY <2>1, <2>2, StreamKept DEF Broken, Stream
<1>2. CASE nread_leftover \/ nread_socket \/ swallow_leftover \/ swallow_socket
  <2>1. UNCHANGED <<kinds, first, todo, peer, cmd>> /\ ~ GivingUp
    BY <1>2 DEF nread_leftover, nread_socket, swallow_leftover, swallow_socket, Running, GivingUp
  <2>2. CASE Broken
    BY <2>1, <2>2, InStepNext DEF Broken
  <2>3. CASE ~ Broken
    <3>1. InPlace
      BY <2>1, <2>3, InStepIs
    <3>2. \E n \in 0 .. Owed : Owed' = Owed - n /\ Stream' = SubSeq(Stream, n + 1, Len(Stream))
      <4>0. Owed \in Nat /\ Len(rbuf) \in Nat /\ Len(chan) \in Nat /\ rsize \in Nat
        BY <1>0, OwedType DEF TypeOK
      <4>1. CASE nread_leftover \/ swallow_leftover
        <5> DEFINE n == Min2(Len(rbuf), Owed)
        <5>1. /\ rbuf' = SubSeq(rbuf, n + 1, Len(rbuf)) /\ Owed' = Owed - n /\ UNCHANGED chan
          BY <4>1 DEF nread_leftover, swallow_leftover, Running, Owed, Consume
        <5>2. n \in 0 .. Len(rbuf) /\ n \in 0 .. Owed
          BY <4>0, MinIn
        <5> HIDE DEF n
        <5> QED BY <1>0, <2>1, <5>1, <5>2, TakenFromRbuf
      <4>2. CASE nread_socket \/ swallow_socket
        <5>1. PICK n \in 0 .. Owed : /\ n \in 0 .. Len(chan) /\ Owed' = Owed - n
                                     /\ chan' = SubSeq(chan, n + 1, Len(chan))
          <6>1. Min2(Len(chan), Owed) \in 0 .. Owed /\ Min2(Len(chan), Owed) \in 0 .. Len(chan)
            BY <4>0, MinIn
          <6>2. /\ Min2(Len(chan), Min2(rsize, Owed)) \in 0 .. Owed
                /\ Min2(Len(chan), Min2(rsize, Owed)) \in 0 .. Len(chan)
            <7>1. Min2(rsize, Owed) \in 0 .. Owed
              BY <4>0, MinIn
            <7>2. Min2(rsize, Owed) \in Nat
              BY <4>0, MinIn
            <7>3. /\ Min2(Len(chan), Min2(rsize, Owed)) \in 0 .. Min2(rsize, Owed)
                  /\ Min2(Len(chan), Min2(rsize, Owed)) \in 0 .. Len(chan)
              BY <4>0, <7>2, MinIn
            <7> QED BY <4>0, <7>1, <7>3
          <6>3. CASE nread_socket
            <7>1. /\ Owed' = Owed - Min2(Len(chan), Owed)
                  /\ chan' = SubSeq(chan, Min2(Len(chan), Owed) + 1, Len(chan))
              BY <6>3 DEF nread_socket, Running, Owed
            <7> QED BY <6>1, <7>1
          <6>4. CASE swallow_socket
            <7>1. /\ Owed' = Owed - Min2(Len(chan), Min2(rsize, Owed))
                  /\ chan' = SubSeq(chan, Min2(Len(chan), Min2(rsize, Owed)) + 1, Len(chan))
              BY <6>4 DEF swallow_socket, Running, Owed
            <7> QED BY <6>2, <7>1
          <6> QED BY <4>2, <6>3, <6>4
        <5>2. rbuf = <<>> /\ rbuf' = rbuf
          BY <4>2 DEF nread_socket, swallow_socket
        <5> QED BY <1>0, <2>1, <5>1, <5>2, TakenFromSocket
      <4> QED BY <1>2, <4>1, <4>2
    <3>3. PICK n \in 0 .. Owed : Owed' = Owed - n /\ Stream' = SubSeq(Stream, n + 1, Len(Stream))
      BY <3>2
    <3> QED BY <1>0, <2>1, <3>1, <3>3, OwedType, DataTaken, InStepNext
  <2> QED BY <2>2, <2>3
<1>3. CASE data_missing
  <2>1. UNCHANGED <<kinds, first, todo, peer, chan, rbuf, write_and_go, rlbytes, sbytes, cmd>>
    BY <1>3 DEF data_missing
  <2>2. state' = state \/ state' = "conn_closing"
    BY <1>3 DEF data_missing, wait_for
  <2>3. CASE state' = state
    BY <2>1, <2>3, SameNeeds, StreamKept DEF Broken, Stream
  <2>4. CASE state' = "conn_closing"
    BY <2>4, InStepNext DEF GivingUp
  <2> QED BY <2>2, <2>3, <2>4
<1> QED BY <1>1, <1>2, <1>3

LEMMA WriteInStep ==
  ASSUME TInv, InStep, transmit_some \/ transmit_blocked \/ transmit_complete
  PROVE  InStep'
<1> USE DEF clientVars, readVars, countVars, writeVars, loopVars
<1>1. UNCHANGED <<kinds, first, todo, peer, chan, rbuf, write_and_go, rlbytes, sbytes, cmd>>
  BY DEF transmit_some, transmit_blocked, transmit_complete
<1>2. CASE transmit_some \/ transmit_blocked
  <2>1. state' = state \/ state' = "conn_closing"
    BY <1>2 DEF transmit_some, transmit_blocked, wait_for
  <2>2. CASE state' = state
    BY <1>1, <2>2, SameNeeds, StreamKept DEF Broken, Stream
  <2>3. CASE state' = "conn_closing"
    BY <2>3, InStepNext DEF GivingUp
  <2> QED BY <2>1, <2>2, <2>3
<1>3. CASE transmit_complete
  <2>1. /\ state = "conn_write" \/ state = "conn_mwrite"
        /\ state' = IF state = "conn_mwrite" THEN "conn_read" ELSE write_and_go
    BY <1>3 DEF transmit_complete, Writing, Running, conn_set_state
  <2>2. write_and_go \in {"conn_read", "conn_swallow", "conn_closing"}
    BY DEF TInv, TypeOK
  <2>3. Owed' = Owed /\ (GivingUp => GivingUp')
    BY <1>1, <2>1, <2>2 DEF Owed, GivingUp
  <2> QED BY <1>1, <2>3, StreamKept DEF Broken, Stream
<1> QED BY <1>2, <1>3

\* try_read_network runs in conn_read only.
ReadsInRead == fn = "try_read_network" => state = "conn_read"

LEMMA ReadsStep ==
  ASSUME ReadsInRead, [Next]_vars
  PROVE  ReadsInRead'
<1> USE DEF clientVars, readVars, countVars, writeVars, loopVars, ReadsInRead
<1>1. CASE Client \/ conn_new \/ event_handler \/ conn_close \/ UNCHANGED vars
  BY <1>1 DEF Client, client_begin, client_send, client_read, client_close, conn_new, event_handler,
              conn_close, vars
<1>2. CASE \/ try_read_command \/ try_read_network \/ grow \/ grow_fails \/ read_more
           \/ read_eof \/ read_end \/ read_error
  BY <1>2 DEF try_read_command, try_read_network, grow, grow_fails, read_more, read_eof, read_end,
              read_error, wait_for, Running
<1>3. CASE \/ complete_nread \/ nread_leftover \/ nread_socket
           \/ swallow_end \/ swallow_leftover \/ swallow_socket \/ data_missing
           \/ transmit_some \/ transmit_blocked \/ transmit_complete
  BY <1>3 DEF complete_nread, nread_leftover, nread_socket, swallow_end, swallow_leftover,
              swallow_socket, data_missing, transmit_some, transmit_blocked, transmit_complete,
              wait_for, Running, Writing
<1> QED BY <1>1, <1>2, <1>3 DEF Next, drive_machine

LEMMA StreamStep ==
  ASSUME TInv, InStep, ReadsInRead, ~ Managed, [Next]_vars
  PROVE  InStep'
<1>1. CASE UNCHANGED vars
  BY <1>1, SameNeeds, StreamKept DEF vars, clientVars, readVars, countVars, writeVars, Broken, Stream
<1>2. CASE Next
  BY <1>2, ClientInStep, LoopInStep, CommandInStep, ReadInStep, DataInStep, WriteInStep
     DEF Next, drive_machine, ReadsInRead
<1> QED BY <1>1, <1>2

\* Where settings.managed is 0, as it is unless -b is given, the server never
\* loses its place in the stream of commands and data: not where a line or the
\* data are split over reads and buffers, not where rbuf grows or many commands
\* come at once, and whatever the sizes of the buffers (memcached.c:862-976,
\* 1102-1184).  This is about the bytes the server has read; that rcurr still
\* points at them after a shrink is RcurrInsideRbuf.
THEOREM NeverLosesItsPlace == ~ Managed => (Spec => []InStep)
<1> SUFFICES ASSUME ~ Managed PROVE Spec => []InStep
  OBVIOUS
<1>1. Init => InStep /\ ReadsInRead
  BY DEF Init, InStep, GivingUp, ReadsInRead
<1>2. TInv /\ InStep /\ ReadsInRead /\ [Next]_vars => InStep' /\ ReadsInRead'
  BY StreamStep, ReadsStep
<1> QED BY <1>1, <1>2, ConnectionInvariant, PTL DEF Spec

-----------------------------------------------------------------------------
(* The answers *)

\* How often k is in w, and the answer to command k of ks, of a client whose
\* first command is f.
Count(w, k) == Cardinality({i \in DOMAIN w : w[i] = k})
Answer(k, f, ks) ==
  IF k \notin f .. Len(ks) \/ (\E j \in f .. k : ks[j] = "quit") THEN 0
  ELSE IF ks[k] = "silent" THEN 0
  ELSE IF ks[k] = "get" THEN GetUnits
  ELSE 1

InOrder(w, f, ks) ==
  /\ \A i, j \in DOMAIN w : i < j => w[i] # 0 /\ (w[j] = 0 \/ w[i] <= w[j])
  /\ \A k \in 1 .. MaxCmds : Count(w, k) <= Answer(k, f, ks)
  /\ \A i \in DOMAIN w, k \in 1 .. MaxCmds : k < w[i] => Count(w, k) = Answer(k, f, ks)

\* The answers to the commands before c are sent, the one to c but for left.
AnsweredTo(w, f, ks, c, left) ==
  /\ \A k \in f .. c : ks[k] # "quit" /\ (k # c => Count(w, k) = Answer(k, f, ks))
  /\ \A i \in DOMAIN w : w[i] \in f .. c
  /\ \A i, j \in DOMAIN w : i < j => w[i] <= w[j]
  /\ IF c = 0 THEN w = <<>> ELSE c \in f .. Len(ks) /\ Count(w, c) + left = Answer(c, f, ks)

LEMMA RepliesInOrderIs == RepliesInOrder <=> InOrder(written, first, kinds)
<1>1. \A k : Sent(k) = Count(written, k) /\ ReplySize(k) = Answer(k, first, kinds)
  BY DEF Sent, Count, ReplySize, Answer
<1> QED BY <1>1, Zenon DEF RepliesInOrder, InOrder
LEMMA RepliesInOrderNext == RepliesInOrder' <=> InOrder(written, first, kinds)'
  BY RepliesInOrderIs, PTL
LEMMA NowInOrder ==
  ASSUME NEW w, NEW f, NEW ks, InOrder(w, f, ks), written' = w, first' = f, kinds' = ks
  PROVE  RepliesInOrder'
<1>1. InOrder(written, first, kinds)'
  BY DEF InOrder, Count, Answer
<1> QED BY <1>1, RepliesInOrderNext

\* w with r more units of the answer to c.
More(w, c, r) == w \o [n \in 1 .. r |-> c]
MoreIs(w, c, r) ==
  LET v == More(w, c, r)
  IN  /\ v \in Seq(Nat) /\ Len(v) = Len(w) + r
      /\ \A i \in 1 .. Len(v) : v[i] = IF i <= Len(w) THEN w[i] ELSE c
      /\ \A k : Count(v, k) = Count(w, k) + (IF k = c THEN r ELSE 0)

\* Counting.
LEMMA CountType ==
  ASSUME NEW w \in Seq(Nat), NEW k
  PROVE  Count(w, k) \in Nat /\ (Count(w, k) = 0 <=> \A i \in DOMAIN w : w[i] # k)
<1> DEFINE A == {i \in DOMAIN w : w[i] = k}
<1>1. IsFiniteSet(A)
  <2>1. IsFiniteSet(1 .. Len(w)) /\ A \subseteq 1 .. Len(w)
    BY FS_Interval
  <2> QED BY <2>1, FS_Subset
<1>2. Cardinality(A) \in Nat /\ (Cardinality(A) = 0 <=> A = {})
  BY <1>1, FS_CardinalityType, FS_EmptySet
<1> QED BY <1>2 DEF Count

LEMMA CountMore ==
  ASSUME NEW w \in Seq(Nat), NEW c \in Nat, NEW r \in Nat
  PROVE  MoreIs(w, c, r)
<1> DEFINE u == [n \in 1 .. r |-> c]
           v == w \o u
<1>1. u \in Seq(Nat) /\ Len(u) = r /\ \A i \in 1 .. r : u[i] = c
  OBVIOUS
<1> HIDE DEF u
<1>2. /\ v \in Seq(Nat) /\ Len(v) = Len(w) + r
      /\ \A i \in 1 .. Len(v) : v[i] = IF i <= Len(w) THEN w[i] ELSE c
  <2>1. v \in Seq(Nat) /\ Len(v) = Len(w) + r
    BY <1>1, ConcatProperties
  <2>2. \A i \in 1 .. Len(w) + Len(u) : v[i] = IF i <= Len(w) THEN w[i] ELSE u[i - Len(w)]
    BY <1>1, ConcatProperties
  <2> HIDE DEF v
  <2>3. ASSUME NEW i \in 1 .. Len(v) PROVE v[i] = IF i <= Len(w) THEN w[i] ELSE c
    <3>1. i \in 1 .. Len(w) + Len(u) /\ (i > Len(w) => i - Len(w) \in 1 .. r)
      BY <1>1, <2>1
    <3>2. Len(w) \in Nat
      OBVIOUS
    <3> QED BY <1>1, <2>2, <3>1, <3>2
  <2> QED BY <2>1, <2>3
<1> HIDE DEF v
<1>3. ASSUME NEW k PROVE Count(v, k) = Count(w, k) + (IF k = c THEN r ELSE 0)
  <2> DEFINE A == {i \in DOMAIN w : w[i] = k}
             B == IF k = c THEN Len(w) + 1 .. Len(w) + r ELSE {}
             D == {i \in DOMAIN v : v[i] = k}
  <2>1. IsFiniteSet(A)
    <3>1. IsFiniteSet(1 .. Len(w)) /\ A \subseteq 1 .. Len(w)
      BY FS_Interval
    <3> QED BY <3>1, FS_Subset
  <2>2. IsFiniteSet(B) /\ Cardinality(B) = IF k = c THEN r ELSE 0
    <3>1. CASE k = c
      <4> DEFINE a == Len(w) + 1
                 b == Len(w) + r
      <4>1. a \in Int /\ b \in Int /\ b - a + 1 = r /\ (a > b <=> r = 0)
        OBVIOUS
      <4> HIDE DEF a, b
      <4>2. IsFiniteSet(a .. b) /\ Cardinality(a .. b) = IF a > b THEN 0 ELSE b - a + 1
        BY <4>1, FS_Interval
      <4>3. IsFiniteSet(a .. b) /\ Cardinality(a .. b) = r
        BY <4>1, <4>2
      <4> QED BY <3>1, <4>3 DEF a, b
    <3>2. CASE k # c
      BY <3>2, FS_EmptySet
    <3> QED BY <3>1, <3>2
  <2>3. D = A \cup B
    <3>1. DOMAIN w = 1 .. Len(w) /\ DOMAIN v = 1 .. Len(w) + r /\ Len(w) \in Nat
      BY <1>2
    <3>2. ASSUME NEW i \in D PROVE i \in A \cup B
      BY <1>2, <3>1
    <3>3. ASSUME NEW i \in A PROVE i \in D
      BY <1>2, <3>1
    <3>4. ASSUME NEW i \in B PROVE i \in D
      BY <1>2, <3>1
    <3> QED BY <3>2, <3>3, <3>4
  <2>4. A \cap B = {}
    OBVIOUS
  <2>5. Cardinality(A \cup B) = Cardinality(A) + Cardinality(B)
    <3> HIDE DEF A, B
    <3>1. Cardinality(A \cup B) = Cardinality(A) + Cardinality(B) - Cardinality(A \cap B)
      BY <2>1, <2>2, FS_Union
    <3>2. Cardinality(A \cap B) = 0
      BY <2>4, FS_EmptySet
    <3>3. Cardinality(A) \in Nat /\ Cardinality(B) \in Nat
      BY <2>1, <2>2, FS_CardinalityType
    <3> QED BY <3>1, <3>2, <3>3
  <2> HIDE DEF A, B, D
  <2>6. Count(v, k) = Cardinality(D) /\ Count(w, k) = Cardinality(A)
    BY DEF Count, A, D
  <2> QED BY <2>2, <2>3, <2>5, <2>6
<1> QED BY <1>2, <1>3 DEF v, u, More, MoreIs

\* An answer is a number of units; one more command changes none of those before.
LEMMA AnswerType ==
  ASSUME NEW k, NEW f, NEW ks
  PROVE  Answer(k, f, ks) \in Nat
  BY ConnectionAssumption DEF Answer

LEMMA AnswerKept ==
  ASSUME NEW f \in Nat \ {0}, NEW ks \in Seq(Kinds), NEW kind \in Kinds, NEW k \in Nat,
         k # Len(ks) + 1
  PROVE  Answer(k, f, Append(ks, kind)) = Answer(k, f, ks)
<1> DEFINE ls == Append(ks, kind)
<1>1. Len(ls) = Len(ks) + 1 /\ Len(ks) \in Nat /\ \A j \in 1 .. Len(ks) : ls[j] = ks[j]
  OBVIOUS
<1> HIDE DEF ls
<1>2. CASE k \in f .. Len(ks)
  <2>1. k \in f .. Len(ls) /\ \A j \in f .. k : ls[j] = ks[j]
    BY <1>1, <1>2
  <2>2. ls[k] = ks[k] /\ ((\E j \in f .. k : ls[j] = "quit") <=> (\E j \in f .. k : ks[j] = "quit"))
    BY <1>2, <2>1
  <2> QED BY <1>2, <2>1, <2>2 DEF Answer, ls
<1>3. CASE k \notin f .. Len(ks)
  <2>1. k \notin f .. Len(ls)
    BY <1>1, <1>3
  <2> QED BY <1>3, <2>1 DEF Answer, ls
<1> QED BY <1>2, <1>3

\* One more command does not change what is answered.
LEMMA InOrderMoreKinds ==
  ASSUME NEW w \in Seq(Nat), NEW f \in Nat \ {0}, NEW ks \in Seq(Kinds), NEW kind \in Kinds,
         Len(ks) < MaxCmds, \A i \in DOMAIN w : w[i] <= MaxCmds, InOrder(w, f, ks)
  PROVE  InOrder(w, f, Append(ks, kind))
<1> DEFINE ls == Append(ks, kind)
           l == Len(ks) + 1
<1>0. l \in 1 .. MaxCmds /\ MaxCmds \in Nat
  BY ConnectionAssumption
<1>1. \A k \in 1 .. MaxCmds : k # l => Answer(k, f, ls) = Answer(k, f, ks)
  BY <1>0, AnswerKept
<1>2. \A k \in 1 .. MaxCmds : k >= l => Count(w, k) = 0
  <2> SUFFICES ASSUME NEW k \in 1 .. MaxCmds, k >= l PROVE Count(w, k) = 0
    OBVIOUS
  <2>1. k \notin f .. Len(ks)
    OBVIOUS
  <2>2. Answer(k, f, ks) = 0
    BY <2>1 DEF Answer
  <2>3. Count(w, k) <= 0 /\ Count(w, k) \in Nat
    BY <2>2, CountType DEF InOrder
  <2> QED BY <2>3
<1>3. \A i \in DOMAIN w : w[i] < l
  <2> SUFFICES ASSUME NEW i \in DOMAIN w PROVE w[i] < l
    OBVIOUS
  <2>1. w[i] \in Nat /\ w[i] <= MaxCmds
    OBVIOUS
  <2>2. w[i] >= l => w[i] \in 1 .. MaxCmds
    BY <1>0, <2>1
  <2>3. w[i] >= l => Count(w, w[i]) = 0
    BY <1>2, <2>2
  <2>4. Count(w, w[i]) # 0
    BY <2>1, CountType
  <2> QED BY <1>0, <2>1, <2>3, <2>4
<1>4. Answer(l, f, ls) \in Nat
  BY AnswerType
<1> HIDE DEF ls, l
<1>5. \A k \in 1 .. MaxCmds : Count(w, k) <= Answer(k, f, ls)
  <2> SUFFICES ASSUME NEW k \in 1 .. MaxCmds PROVE Count(w, k) <= Answer(k, f, ls)
    OBVIOUS
  <2>1. CASE k = l
    BY <1>0, <1>2, <1>4, <2>1
  <2>2. CASE k # l
    BY <1>1, <2>2 DEF InOrder
  <2> QED BY <2>1, <2>2
<1>6. \A i \in DOMAIN w, k \in 1 .. MaxCmds : k < w[i] => Count(w, k) = Answer(k, f, ls)
  <2> SUFFICES ASSUME NEW i \in DOMAIN w, NEW k \in 1 .. MaxCmds, k < w[i]
               PROVE  Count(w, k) = Answer(k, f, ls)
    OBVIOUS
  <2>1. k # l
    <3>1. w[i] < l /\ w[i] \in Nat
      BY <1>3
    <3> QED BY <1>0, <3>1
  <2> QED BY <1>1, <2>1 DEF InOrder
<1> QED BY <1>5, <1>6 DEF InOrder, ls

\* What is answered in Answering is answered in order.
LEMMA AnsweredInOrder ==
  ASSUME NEW w \in Seq(Nat), NEW f \in Nat \ {0}, NEW ks, NEW c \in Nat, NEW left \in Nat,
         AnsweredTo(w, f, ks, c, left)
  PROVE  InOrder(w, f, ks) /\ \A i \in DOMAIN w : w[i] # 0
<1>1. \A i \in DOMAIN w : w[i] \in f .. c
  BY DEF AnsweredTo
<1>2. \A k : Count(w, k) \in Nat /\ Answer(k, f, ks) \in Nat
  BY CountType, AnswerType
<1>3. \A k : k \notin f .. c => Count(w, k) = 0
  BY <1>1, CountType
<1>4. \A k \in 1 .. MaxCmds : Count(w, k) <= Answer(k, f, ks)
  <2> SUFFICES ASSUME NEW k \in 1 .. MaxCmds PROVE Count(w, k) <= Answer(k, f, ks)
    OBVIOUS
  <2>1. CASE k \notin f .. c
    BY <1>2, <1>3, <2>1
  <2>2. CASE k \in f .. c /\ k # c
    <3>1. Count(w, k) = Answer(k, f, ks)
      BY <2>2 DEF AnsweredTo
    <3> QED BY <1>2, <3>1
  <2>3. CASE k = c
    <3>1. Count(w, c) + left = Answer(c, f, ks)
      BY <2>3 DEF AnsweredTo
    <3>2. Count(w, c) \in Nat /\ Answer(c, f, ks) \in Nat
      BY <1>2
    <3> QED BY <2>3, <3>1, <3>2
  <2> QED BY <2>1, <2>2, <2>3
<1>5. \A i \in DOMAIN w, k \in 1 .. MaxCmds : k < w[i] => Count(w, k) = Answer(k, f, ks)
  <2> SUFFICES ASSUME NEW i \in DOMAIN w, NEW k \in 1 .. MaxCmds, k < w[i]
               PROVE  Count(w, k) = Answer(k, f, ks)
    OBVIOUS
  <2>1. w[i] \in f .. c
    BY <1>1
  <2>2. k < c
    BY <2>1
  <2>3. CASE k \in f .. c
    BY <2>2, <2>3 DEF AnsweredTo
  <2>4. CASE k \notin f .. c
    <3>1. k \notin f .. Len(ks)
      BY <2>2, <2>4
    <3>2. Answer(k, f, ks) = 0
      BY <3>1 DEF Answer
    <3> QED BY <1>3, <2>4, <3>2
  <2> QED BY <2>3, <2>4
<1>6. \A i \in DOMAIN w : w[i] # 0
  BY <1>1
<1>7. \A i, j \in DOMAIN w : i < j => w[i] <= w[j]
  BY DEF AnsweredTo
<1> QED BY <1>4, <1>5, <1>6, <1>7 DEF InOrder

LEMMA AnsweredMoreKinds ==
  ASSUME NEW w \in Seq(Nat), NEW f \in Nat \ {0}, NEW ks \in Seq(Kinds), NEW kind \in Kinds,
         NEW c \in Nat, NEW left, c <= Len(ks), AnsweredTo(w, f, ks, c, left)
  PROVE  AnsweredTo(w, f, Append(ks, kind), c, left)
<1> DEFINE ls == Append(ks, kind)
<1>1. /\ Len(ls) = Len(ks) + 1 /\ Len(ks) \in Nat /\ \A j \in 1 .. Len(ks) : ls[j] = ks[j]
  OBVIOUS
<1>2. \A k \in f .. c : Answer(k, f, ls) = Answer(k, f, ks)
  <2> SUFFICES ASSUME NEW k \in f .. c PROVE Answer(k, f, ls) = Answer(k, f, ks)
    OBVIOUS
  <2>1. k \in Nat /\ k # Len(ks) + 1
    OBVIOUS
  <2> QED BY <2>1, AnswerKept
<1> HIDE DEF ls
<1>3. \A k \in f .. c : ls[k] # "quit" /\ (k # c => Count(w, k) = Answer(k, f, ls))
  <2> SUFFICES ASSUME NEW k \in f .. c
               PROVE  ls[k] # "quit" /\ (k # c => Count(w, k) = Answer(k, f, ls))
    OBVIOUS
  <2>1. ls[k] = ks[k]
    BY <1>1
  <2> QED BY <1>2, <2>1 DEF AnsweredTo
<1>4. IF c = 0 THEN w = <<>> ELSE c \in f .. Len(ls) /\ Count(w, c) + left = Answer(c, f, ls)
  <2>1. CASE c = 0
    BY <2>1 DEF AnsweredTo
  <2>2. CASE c # 0
    <3>1. c \in f .. Len(ks) /\ Count(w, c) + left = Answer(c, f, ks)
      BY <2>2 DEF AnsweredTo
    <3>2. c \in f .. Len(ls) /\ c \in f .. c
      BY <1>1, <3>1
    <3> QED BY <1>2, <2>2, <3>1, <3>2
  <2> QED BY <2>1, <2>2
<1>5. /\ \A i \in DOMAIN w : w[i] \in f .. c
      /\ \A i, j \in DOMAIN w : i < j => w[i] <= w[j]
  BY DEF AnsweredTo
<1> QED BY <1>3, <1>4, <1>5 DEF AnsweredTo, ls

\* A part of the answer to c is sent.
LEMMA AnsweredMore ==
  ASSUME NEW w \in Seq(Nat), NEW f \in Nat \ {0}, NEW ks, NEW c \in Nat \ {0}, NEW left \in Nat,
         NEW r \in 0 .. left, AnsweredTo(w, f, ks, c, left)
  PROVE  AnsweredTo(More(w, c, r), f, ks, c, left - r)
<1> DEFINE v == More(w, c, r)
<1>1. /\ v \in Seq(Nat) /\ Len(v) = Len(w) + r
      /\ \A i \in 1 .. Len(v) : v[i] = IF i <= Len(w) THEN w[i] ELSE c
      /\ \A k : Count(v, k) = Count(w, k) + (IF k = c THEN r ELSE 0)
  <2>1. r \in Nat /\ c \in Nat /\ w \in Seq(Nat)
    OBVIOUS
  <2>2. MoreIs(w, c, r)
    BY <2>1, CountMore
  <2> QED BY <2>2 DEF v, MoreIs
<1>2. \A k : Count(w, k) \in Nat
  BY CountType
<1>3. c \in f .. Len(ks) /\ Count(w, c) + left = Answer(c, f, ks) /\ Answer(c, f, ks) \in Nat
  BY AnswerType DEF AnsweredTo
<1>4. DOMAIN v = 1 .. Len(v) /\ DOMAIN w = 1 .. Len(w) /\ Len(w) \in Nat
  BY <1>1
<1> HIDE DEF v
<1>5. \A k \in f .. c : k # c => Count(v, k) = Answer(k, f, ks)
  <2> SUFFICES ASSUME NEW k \in f .. c, k # c PROVE Count(v, k) = Answer(k, f, ks)
    OBVIOUS
  <2>1. Count(w, k) = Answer(k, f, ks)
    BY DEF AnsweredTo
  <2>2. Count(v, k) = Count(w, k) + 0 /\ Count(w, k) \in Nat
    BY <1>1, <1>2
  <2> QED BY <2>1, <2>2
<1>6. \A i \in DOMAIN w : w[i] \in f .. c
  BY DEF AnsweredTo
<1>7. \A i \in DOMAIN v : v[i] \in f .. c
  <2> SUFFICES ASSUME NEW i \in DOMAIN v PROVE v[i] \in f .. c
    OBVIOUS
  <2>1. CASE i <= Len(w)
    BY <1>1, <1>4, <1>6, <2>1
  <2>2. CASE ~ i <= Len(w)
    BY <1>1, <1>3, <1>4, <2>2
  <2> QED BY <2>1, <2>2
<1>8. \A i, j \in DOMAIN v : i < j => v[i] <= v[j]
  <2> SUFFICES ASSUME NEW i \in DOMAIN v, NEW j \in DOMAIN v, i < j PROVE v[i] <= v[j]
    OBVIOUS
  <2>1. CASE j <= Len(w)
    <3>1. i \in DOMAIN w /\ j \in DOMAIN w
      BY <1>4, <2>1
    <3>2. v[i] = w[i] /\ v[j] = w[j]
      BY <1>1, <1>4, <2>1, <3>1
    <3> QED BY <3>1, <3>2 DEF AnsweredTo
  <2>2. CASE ~ j <= Len(w)
    <3>1. v[j] = c /\ v[i] \in f .. c
      BY <1>1, <1>4, <1>7, <2>2
    <3> QED BY <3>1
  <2> QED BY <2>1, <2>2
<1>9. Count(v, c) + (left - r) = Answer(c, f, ks)
  <2>1. Count(v, c) = Count(w, c) + r /\ Count(w, c) \in Nat
    BY <1>1, <1>2
  <2> QED BY <1>3, <2>1
<1>10. \A k \in f .. c : ks[k] # "quit"
  BY DEF AnsweredTo
<1> QED BY <1>3, <1>5, <1>7, <1>8, <1>9, <1>10 DEF AnsweredTo, v

\* After a complete answer, the next command.
LEMMA AnsweredNext ==
  ASSUME NEW w \in Seq(Nat), NEW f \in Nat \ {0}, NEW ks \in Seq(Kinds), NEW c \in Nat, NEW n \in 1 .. Len(ks),
         n = IF c = 0 THEN f ELSE c + 1, AnsweredTo(w, f, ks, c, 0), ks[n] # "quit"
  PROVE  /\ Answer(n, f, ks) = IF ks[n] = "silent" THEN 0 ELSE IF ks[n] = "get" THEN GetUnits ELSE 1
         /\ AnsweredTo(w, f, ks, n, Answer(n, f, ks))
<1>1. \A k : Count(w, k) \in Nat /\ Answer(k, f, ks) \in Nat
  BY CountType, AnswerType
<1>2. CASE c = 0
  <2>1. w = <<>> /\ n = f
    BY <1>2 DEF AnsweredTo
  <2>2. DOMAIN w = {}
    BY <2>1
  <2>3. Count(w, n) = 0
    BY <2>2, CountType
  <2>4. n \in f .. Len(ks) /\ \A j \in f .. n : j = n
    BY <2>1
  <2>5. Answer(n, f, ks) = IF ks[n] = "silent" THEN 0 ELSE IF ks[n] = "get" THEN GetUnits ELSE 1
    BY <2>4 DEF Answer
  <2>6. n # 0 /\ Count(w, n) + Answer(n, f, ks) = Answer(n, f, ks)
    BY <1>1, <2>3
  <2> QED BY <2>2, <2>4, <2>5, <2>6 DEF AnsweredTo
<1>3. CASE c # 0
  <2>1. c \in f .. Len(ks) /\ Count(w, c) + 0 = Answer(c, f, ks) /\ n = c + 1
    BY <1>3 DEF AnsweredTo
  <2>2. n \in f .. Len(ks) /\ n # 0 /\ n \notin f .. c
    BY <2>1
  <2>3. \A k \in f .. c : ks[k] # "quit" /\ Count(w, k) = Answer(k, f, ks)
    BY <1>1, <2>1 DEF AnsweredTo
  <2>4. \A k \in f .. n : k = n \/ k \in f .. c
    BY <2>1
  <2>5. \A i \in DOMAIN w : w[i] \in f .. c
    BY DEF AnsweredTo
  <2>6. \A i \in DOMAIN w : w[i] \in f .. n /\ w[i] # n
    BY <2>1, <2>5
  <2>7. Count(w, n) = 0
    BY <2>6, CountType
  <2>8. Answer(n, f, ks) = IF ks[n] = "silent" THEN 0 ELSE IF ks[n] = "get" THEN GetUnits ELSE 1
    BY <2>2, <2>3, <2>4 DEF Answer
  <2>9. Count(w, n) + Answer(n, f, ks) = Answer(n, f, ks)
    BY <1>1, <2>7
  <2>10. \A k \in f .. n : ks[k] # "quit" /\ (k # n => Count(w, k) = Answer(k, f, ks))
    BY <2>3, <2>4
  <2>11. \A i, j \in DOMAIN w : i < j => w[i] <= w[j]
    BY DEF AnsweredTo
  <2> QED BY <2>2, <2>6, <2>8, <2>9, <2>10, <2>11 DEF AnsweredTo
<1> QED BY <1>2, <1>3

\* An error of the connection after the answers.
LEMMA InOrderError ==
  ASSUME NEW w \in Seq(Nat), NEW f, NEW ks, InOrder(w, f, ks), \A i \in DOMAIN w : w[i] # 0,
         NEW r \in 0 .. 1
  PROVE  InOrder(More(w, 0, r), f, ks)
<1> DEFINE v == More(w, 0, r)
<1>1. /\ v \in Seq(Nat) /\ Len(v) = Len(w) + r
      /\ \A i \in 1 .. Len(v) : v[i] = IF i <= Len(w) THEN w[i] ELSE 0
      /\ \A k : Count(v, k) = Count(w, k) + (IF k = 0 THEN r ELSE 0)
  <2>1. r \in Nat /\ 0 \in Nat
    OBVIOUS
  <2>2. MoreIs(w, 0, r)
    BY <2>1, CountMore
  <2> QED BY <2>2 DEF v, MoreIs
<1>2. DOMAIN v = 1 .. Len(v) /\ DOMAIN w = 1 .. Len(w) /\ Len(w) \in Nat
  BY <1>1
<1> HIDE DEF v
<1>3. \A k \in 1 .. MaxCmds : Count(v, k) = Count(w, k)
  <2> SUFFICES ASSUME NEW k \in 1 .. MaxCmds PROVE Count(v, k) = Count(w, k)
    OBVIOUS
  <2>1. Count(v, k) = Count(w, k) + 0 /\ Count(w, k) \in Nat
    BY <1>1, CountType
  <2> QED BY <2>1
<1>4. \A i, j \in DOMAIN v : i < j => v[i] # 0 /\ (v[j] = 0 \/ v[i] <= v[j])
  <2> SUFFICES ASSUME NEW i \in DOMAIN v, NEW j \in DOMAIN v, i < j
               PROVE  v[i] # 0 /\ (v[j] = 0 \/ v[i] <= v[j])
    OBVIOUS
  <2>1. i \in DOMAIN w /\ v[i] = w[i]
    BY <1>1, <1>2
  <2>2. CASE j \in DOMAIN w
    <3>1. v[j] = w[j]
      BY <1>1, <1>2, <2>2
    <3> QED BY <2>1, <2>2, <3>1 DEF InOrder
  <2>3. CASE j \notin DOMAIN w
    <3>1. v[j] = 0
      BY <1>1, <1>2, <2>3
    <3> QED BY <2>1, <3>1
  <2> QED BY <2>2, <2>3
<1>5. \A i \in DOMAIN v, k \in 1 .. MaxCmds : k < v[i] => i \in DOMAIN w /\ v[i] = w[i]
  <2> SUFFICES ASSUME NEW i \in DOMAIN v, NEW k \in 1 .. MaxCmds, k < v[i]
               PROVE  i \in DOMAIN w /\ v[i] = w[i]
    OBVIOUS
  <2>1. v[i] # 0
    OBVIOUS
  <2>2. i \in 1 .. Len(v) /\ i <= Len(w)
    BY <1>1, <1>2, <2>1
  <2> QED BY <1>1, <1>2, <2>2
<1>6. \A i \in DOMAIN v, k \in 1 .. MaxCmds : k < v[i] => Count(v, k) = Answer(k, f, ks)
  BY <1>3, <1>5 DEF InOrder
<1>7. \A k \in 1 .. MaxCmds : Count(v, k) <= Answer(k, f, ks)
  BY <1>3 DEF InOrder
<1> QED BY <1>4, <1>6, <1>7 DEF InOrder, v

\* Units of the answer to cmd that are still to be sent.
Left == IF state = "conn_nread" THEN 1
        ELSE IF state \in {"conn_write", "conn_mwrite"} THEN ToSend
        ELSE 0

\* What the vectors hold: nothing before a command is executed, or while the
\* data of a set are read, and nothing unsent between two commands.
Vectors ==
  /\ cmd # 0 => msgused
  /\ cmd = 0 => state = "conn_read" /\ ~ iovused
  /\ state \in {"conn_read", "conn_swallow"} /\ iovused => wleft = 0
  /\ state = "conn_nread" => ~ iovused

Answering == AnsweredTo(written, first, kinds, cmd, Left) /\ Vectors

\* The connection ends, possibly with an error of its own.
Ending ==
  \/ state \in {"conn_closing", "closed"}
  \/ /\ state = "conn_write" /\ write_and_go = "conn_closing" /\ cmd = 0
     /\ ToSend \in 0 .. 1
     /\ ToSend = 0 \/ \A i \in DOMAIN written : written[i] # 0

RepliesInv == Answering \/ ((Broken \/ Ending) /\ RepliesInOrder)

LEMMA NowAnswering ==
  ASSUME NEW w, NEW f, NEW ks, NEW c, NEW l, AnsweredTo(w, f, ks, c, l), Vectors',
         written' = w, first' = f, kinds' = ks, cmd' = c, Left' = l
  PROVE  Answering'
  BY DEF Answering, AnsweredTo, Count, Answer

LEMMA AnswersType ==
  ASSUME TInv
  PROVE  /\ written \in Seq(Nat) /\ first \in Nat \ {0} /\ kinds \in Seq(Kinds) /\ cmd \in Nat
         /\ ToSend \in Nat /\ Left \in Nat /\ \A i \in DOMAIN written : written[i] <= MaxCmds
<1>1. MaxCmds \in Nat
  BY ConnectionAssumption
<1>2. written \in Seq(0 .. MaxCmds) /\ first \in 1 .. MaxCmds + 1 /\ kinds \in Seq(Kinds)
      /\ cmd \in 0 .. MaxCmds /\ wleft \in Nat
  BY DEF TInv, TypeOK
<1>3. ToSend \in Nat
  BY <1>2 DEF ToSend
<1>4. \A i \in DOMAIN written : written[i] \in 0 .. MaxCmds
  <2>1. written \in Seq(0 .. MaxCmds) /\ DOMAIN written = 1 .. Len(written)
    BY <1>2
  <2> QED BY <2>1, ElementOfSeq
<1>5. written \in Seq(Nat)
  BY <1>1, <1>2
<1> QED BY <1>1, <1>2, <1>3, <1>4, <1>5 DEF Left

LEMMA AnsweringInOrder ==
  ASSUME TInv, Answering
  PROVE  RepliesInOrder /\ \A i \in DOMAIN written : written[i] # 0
  BY AnswersType, AnsweredInOrder, RepliesInOrderIs DEF Answering

LEMMA RepliesKept ==
  ASSUME RepliesInOrder, UNCHANGED <<written, first, kinds>>
  PROVE  RepliesInOrder'
<1>1. InOrder(written, first, kinds)
  BY RepliesInOrderIs
<1> QED BY <1>1, NowInOrder

\* A step that sends nothing, and executes no command.
LEMMA QuietStep ==
  ASSUME TInv, RepliesInv, state' = state \/ state' = "conn_closing", Broken => Broken',
         UNCHANGED <<written, first, kinds, cmd, write_and_go, iovused, msgused, wleft>>
  PROVE  RepliesInv'
<1>1. RepliesInOrder'
  BY AnsweringInOrder, RepliesKept DEF RepliesInv
<1>2. CASE state' = "conn_closing"
  BY <1>1, <1>2 DEF RepliesInv, Ending
<1>3. CASE state' = state
  <2>1. CASE Broken
    BY <1>1, <2>1 DEF RepliesInv
  <2>2. CASE Ending
    BY <1>1, <1>3, <2>2 DEF RepliesInv, Ending, ToSend
  <2>3. CASE Answering
    <3>1. Left' = Left /\ Vectors'
      BY <1>3, <2>3 DEF Answering, Left, ToSend, Vectors
    <3>2. Answering'
      BY <2>3, <3>1, NowAnswering DEF Answering
    <3> QED BY <3>2 DEF RepliesInv
  <2> QED BY <2>1, <2>2, <2>3 DEF RepliesInv
<1> QED BY <1>2, <1>3

LEMMA ClientReplies ==
  ASSUME TInv, RepliesInv, Client
  PROVE  RepliesInv'
<1> USE DEF clientVars, readVars, countVars, writeVars, loopVars
<1>1. CASE client_send \/ client_read \/ \E how \in {"shut", "reset"} : client_close(how)
  BY <1>1, QuietStep DEF client_send, client_read, client_close, Broken
<1>2. CASE \E kind \in Kinds : client_begin(kind)
  <2>1. PICK kind \in Kinds : client_begin(kind)
    BY <1>2
  <2>2. /\ peer = "open" /\ Len(kinds) < MaxCmds /\ kinds' = Append(kinds, kind)
        /\ UNCHANGED <<written, first, cmd, state, write_and_go, iovused, msgused, wleft>>
    BY <2>1 DEF client_begin
  <2>3. ~ Broken
    BY <2>2 DEF Broken
  <2>4. CASE Answering
    <3>1. cmd <= Len(kinds)
      BY <2>4, AnswersType DEF Answering, AnsweredTo
    <3>2. AnsweredTo(written, first, Append(kinds, kind), cmd, Left)
      BY <2>4, <3>1, AnswersType, AnsweredMoreKinds DEF Answering
    <3>3. Left' = Left /\ Vectors'
      BY <2>2, <2>4 DEF Answering, Left, ToSend, Vectors
    <3>4. Answering'
      BY <2>2, <3>2, <3>3, NowAnswering
    <3> QED BY <3>4 DEF RepliesInv
  <2>5. CASE Ending /\ RepliesInOrder
    <3>1. InOrder(written, first, Append(kinds, kind))
      BY <2>2, <2>5, RepliesInOrderIs, AnswersType, InOrderMoreKinds
    <3>2. RepliesInOrder'
      BY <2>2, <3>1, NowInOrder
    <3> QED BY <2>2, <2>5, <3>2 DEF RepliesInv, Ending, ToSend
  <2> QED BY <2>3, <2>4, <2>5 DEF RepliesInv
<1> QED BY <1>1, <1>2 DEF Client

LEMMA LoopReplies ==
  ASSUME TInv, RepliesInv, conn_new \/ event_handler \/ conn_close
  PROVE  RepliesInv'
<1> USE DEF clientVars, readVars, countVars, writeVars, loopVars
<1>1. CASE conn_new
  <2>1. /\ written' = <<>> /\ cmd' = 0 /\ first' = Len(kinds) + 1 /\ kinds' = kinds
        /\ state' = "conn_read" /\ iovused' = FALSE
    BY <1>1 DEF conn_new
  <2>2. Vectors' /\ Left' = 0
    BY <2>1 DEF Vectors, Left
  <2>3. AnsweredTo(<<>>, Len(kinds) + 1, kinds, 0, 0)
    <3>1. Len(kinds) \in Nat /\ Len(kinds) + 1 .. 0 = {} /\ DOMAIN <<>> = {}
      BY AnswersType
    <3> QED BY <3>1 DEF AnsweredTo
  <2>4. Answering'
    BY <2>1, <2>2, <2>3, NowAnswering
  <2> QED BY <2>4 DEF RepliesInv
<1>2. CASE event_handler
  BY <1>2, QuietStep DEF event_handler, Broken
<1>3. CASE conn_close
  <2>1. state' = "closed" /\ UNCHANGED <<written, first, kinds>>
    BY <1>3 DEF conn_close
  <2>2. RepliesInOrder'
    BY <2>1, AnsweringInOrder, RepliesKept DEF RepliesInv
  <2> QED BY <2>1, <2>2 DEF RepliesInv, Ending
<1> QED BY <1>1, <1>2, <1>3

LEMMA ReadReplies ==
  ASSUME TInv, RepliesInv, ReadsInRead,
         \/ try_read_network \/ grow \/ grow_fails \/ read_more
         \/ read_eof \/ read_end \/ read_error
  PROVE  RepliesInv'
<1> USE DEF clientVars, readVars, countVars, writeVars, loopVars
<1>1. CASE try_read_network \/ grow \/ read_more \/ read_eof
  BY <1>1, QuietStep DEF try_read_network, grow, read_more, read_eof, Broken
<1>2. CASE read_end \/ read_error
  <2>1. state' = state \/ state' = "conn_closing"
    BY <1>2 DEF read_end, read_error, wait_for
  <2>2. /\ UNCHANGED <<written, first, kinds, cmd, write_and_go, iovused, msgused, wleft>>
        /\ Broken => Broken'
    BY <1>2 DEF read_end, read_error, Broken
  <2> QED BY <2>1, <2>2, QuietStep
<1>3. CASE grow_fails
  <2>1. /\ state' = "conn_write" /\ write_and_go' = "conn_closing" /\ cmd' = 0
        /\ UNCHANGED <<written, first, kinds, peer, iovused, msgused, wleft>>
        /\ state = "conn_read"
    BY <1>3 DEF grow_fails, out_string, conn_set_state, ReadsInRead
  <2>2. RepliesInOrder'
    BY <2>1, AnsweringInOrder, RepliesKept DEF RepliesInv
  <2>3. CASE Broken
    BY <2>1, <2>2, <2>3 DEF RepliesInv, Broken
  <2>4. CASE Answering
    <3>1. \A i \in DOMAIN written : written[i] # 0
      BY <2>4, AnsweringInOrder
    <3>2. iovused => wleft = 0
      BY <2>1, <2>4 DEF Answering, Vectors
    <3>3. ToSend' \in 0 .. 1
      BY <2>1, <3>2 DEF ToSend
    <3>4. Ending'
      BY <2>1, <3>1, <3>3 DEF Ending
    <3> QED BY <2>2, <3>4 DEF RepliesInv
  <2>5. ~ Ending
    BY <2>1 DEF Ending
  <2> QED BY <2>3, <2>4, <2>5 DEF RepliesInv
<1> QED BY <1>1, <1>2, <1>3

LEMMA DataReplies ==
  ASSUME TInv, RepliesInv,
         \/ complete_nread \/ nread_leftover \/ nread_socket
         \/ swallow_end \/ swallow_leftover \/ swallow_socket \/ data_missing
  PROVE  RepliesInv'
<1> USE DEF clientVars, readVars, countVars, writeVars, loopVars
<1>1. CASE nread_leftover \/ nread_socket \/ swallow_leftover \/ swallow_socket
  BY <1>1, QuietStep DEF nread_leftover, nread_socket, swallow_leftover, swallow_socket, Broken
<1>2. CASE data_missing
  <2>1. state' = state \/ state' = "conn_closing"
    BY <1>2 DEF data_missing, wait_for
  <2>2. UNCHANGED <<written, first, kinds, peer, cmd, write_and_go, iovused, msgused, wleft>>
    BY <1>2 DEF data_missing
  <2> QED BY <2>1, <2>2, QuietStep DEF Broken
<1>3. CASE complete_nread \/ swallow_end
  <2>1. UNCHANGED <<written, first, kinds, peer, cmd, iovused, msgused, wleft>>
    BY <1>3 DEF complete_nread, swallow_end, out_string
  <2>2. \/ state = "conn_nread" /\ state' = "conn_write"
        \/ state = "conn_swallow" /\ state' = "conn_read"
    BY <1>3 DEF complete_nread, swallow_end, out_string, conn_set_state, Running
  <2>3. RepliesInOrder'
    BY <2>1, AnsweringInOrder, RepliesKept DEF RepliesInv
  <2>4. CASE Broken
    BY <2>1, <2>3, <2>4 DEF RepliesInv, Broken
  <2>5. CASE Answering
    <3>1. Left' = Left /\ Vectors'
      BY <2>1, <2>2, <2>5 DEF Answering, Left, ToSend, Vectors
    <3>2. Answering'
      BY <2>1, <2>5, <3>1, NowAnswering DEF Answering
    <3> QED BY <3>2 DEF RepliesInv
  <2>6. ~ Ending
    BY <2>2 DEF Ending
  <2> QED BY <2>4, <2>5, <2>6 DEF RepliesInv
<1> QED BY <1>1, <1>2, <1>3

LEMMA WriteReplies ==
  ASSUME TInv, RepliesInv, transmit_some \/ transmit_blocked \/ transmit_complete
  PROVE  RepliesInv'
<1> USE DEF clientVars, readVars, countVars, writeVars, loopVars
<1>0. /\ state \in {"conn_write", "conn_mwrite"}
      /\ UNCHANGED <<first, kinds, peer, cmd, write_and_go, msgused>>
      /\ iovused' = TRUE
      /\ write_and_go \in {"conn_read", "conn_swallow", "conn_closing"}
  BY DEF transmit_some, transmit_blocked, transmit_complete, Writing, Running, TInv, TypeOK
<1>1. RepliesInOrder
  BY AnsweringInOrder DEF RepliesInv
<1>2. CASE transmit_some
  <2>0. ~ Broken /\ state' = state
    BY <1>2 DEF transmit_some
  <2>1. PICK r \in 0 .. ToSend : /\ r \in Nat \ {0} /\ wleft' = ToSend - r
                                 /\ written' = More(written, cmd, r)
    <3>1. sock \in 0 .. OutCap /\ OutCap \in Nat
      BY ConnectionAssumption DEF TInv, TypeOK
    <3>2. OutCap - sock \in Nat /\ ToSend \in Nat
      BY <3>1, AnswersType
    <3>3. ToSend > 0 /\ sock < OutCap
      BY <1>2 DEF transmit_some
    <3>4. Min2(ToSend, OutCap - sock) \in 0 .. ToSend /\ Min2(ToSend, OutCap - sock) \in Nat \ {0}
      BY <3>1, <3>2, <3>3 DEF Min2
    <3> QED BY <1>2, <3>4 DEF transmit_some, More
  <2>2. ToSend' = ToSend - r
    BY <1>0, <2>1 DEF ToSend
  <2>5. ToSend = 1 => r = 1
    BY <2>1
  <2>3. CASE Answering
    <3>1. cmd # 0 /\ cmd \in Nat /\ Left = ToSend
      BY <1>0, <2>3, AnswersType DEF Answering, Vectors, Left
    <3>2. AnsweredTo(More(written, cmd, r), first, kinds, cmd, Left - r)
      BY <2>1, <2>3, <3>1, AnswersType, AnsweredMore DEF Answering
    <3>3. Left' = Left - r
      BY <1>0, <2>0, <2>2, <3>1 DEF Left
    <3>4. Vectors'
      BY <1>0, <2>0, <2>3, <3>1 DEF Answering, Vectors
    <3>5. Answering'
      BY <1>0, <2>1, <3>2, <3>3, <3>4, NowAnswering
    <3> QED BY <3>5 DEF RepliesInv
  <2>4. CASE Ending
    <3>1. /\ state = "conn_write" /\ write_and_go = "conn_closing" /\ cmd = 0 /\ ToSend = 1
          /\ \A i \in DOMAIN written : written[i] # 0
      BY <1>0, <1>2, <2>4 DEF Ending, transmit_some
    <3>2. r \in 0 .. 1
      BY <2>1, <3>1
    <3>3. InOrder(More(written, 0, r), first, kinds)
      BY <1>1, <3>1, <3>2, RepliesInOrderIs, AnswersType, InOrderError
    <3>4. RepliesInOrder'
      BY <1>0, <2>1, <3>1, <3>3, NowInOrder
    <3>5. ToSend' = 0
      BY <2>2, <2>5, <3>1
    <3> QED BY <1>0, <2>0, <3>1, <3>4, <3>5 DEF RepliesInv, Ending
  <2> QED BY <2>0, <2>3, <2>4 DEF RepliesInv
<1>3. CASE transmit_blocked
  <2>1. wleft' = ToSend /\ written' = written /\ (state' = state \/ state' = "conn_closing")
    BY <1>3 DEF transmit_blocked, wait_for
  <2>2. ToSend' = ToSend
    BY <1>0, <2>1 DEF ToSend
  <2>3. RepliesInOrder'
    BY <1>0, <1>1, <2>1, RepliesKept
  <2>4. CASE state' = "conn_closing"
    BY <2>3, <2>4 DEF RepliesInv, Ending
  <2>5. CASE state' = state
    <3>1. CASE Broken
      BY <1>0, <2>3, <3>1 DEF RepliesInv, Broken
    <3>2. CASE Ending
      BY <1>0, <2>1, <2>2, <2>3, <2>5, <3>2 DEF RepliesInv, Ending
    <3>3. CASE Answering
      <4>1. Left' = Left /\ Vectors'
        BY <1>0, <2>2, <2>5, <3>3 DEF Answering, Left, Vectors
      <4>2. Answering'
        BY <1>0, <2>1, <3>3, <4>1, NowAnswering DEF Answering
      <4> QED BY <4>2 DEF RepliesInv
    <3> QED BY <3>1, <3>2, <3>3 DEF RepliesInv
  <2> QED BY <2>1, <2>4, <2>5
<1>4. CASE transmit_complete
  <2>1. /\ ToSend = 0 /\ wleft' = 0 /\ written' = written
        /\ state' = IF state = "conn_mwrite" THEN "conn_read" ELSE write_and_go
    BY <1>4 DEF transmit_complete, conn_set_state
  <2>2. RepliesInOrder'
    BY <1>0, <1>1, <2>1, RepliesKept
  <2>3. CASE state' = "conn_closing"
    BY <2>2, <2>3 DEF RepliesInv, Ending
  <2>4. CASE state' # "conn_closing"
    <3>0. state' \in {"conn_read", "conn_swallow"}
      BY <1>0, <2>1, <2>4
    <3>1. CASE Broken
      BY <1>0, <2>2, <3>1 DEF RepliesInv, Broken
    <3>2. ~ Ending
      BY <1>0, <2>1, <2>4 DEF Ending
    <3>3. CASE Answering
      <4>1. Left = 0 /\ Left' = 0 /\ Vectors'
        BY <1>0, <2>1, <3>0, <3>3 DEF Answering, Left, Vectors
      <4>2. Answering'
        BY <1>0, <2>1, <3>3, <4>1, NowAnswering DEF Answering
      <4> QED BY <4>2 DEF RepliesInv
    <3> QED BY <3>1, <3>2, <3>3 DEF RepliesInv
  <2> QED BY <2>3, <2>4
<1> QED BY <1>2, <1>3, <1>4

\* The command that is executed is the one after the commands answered before.
LEMMA CommandReplies ==
  ASSUME TInv, InStep, RepliesInv, ~ Managed, try_read_command
  PROVE  RepliesInv'
<1>0. TypeOK /\ state = "conn_read" /\ Owed = 0 /\ msgused' = TRUE
      /\ UNCHANGED <<written, first, kinds, peer>>
  BY DEF TInv, try_read_command, Running, Owed, clientVars
<1>1. RepliesInOrder'
  BY <1>0, AnsweringInOrder, RepliesKept DEF RepliesInv
<1>2. CASE Broken
  BY <1>0, <1>1, <1>2 DEF RepliesInv, Broken
<1>3. CASE ~ Broken
  <2>1. InPlace /\ Answering
    <3>1. ~ Ending
      BY <1>0 DEF Ending
    <3> QED BY <1>0, <1>3, <3>1, InStepIs DEF GivingUp, RepliesInv
  <2>2. PICK n \in LineEnds :
          /\ \A m \in LineEnds : n <= m
          /\ process_command(rbuf[n].of, CommandOf(SubSeq(rbuf, 1, n)))
    BY DEF try_read_command
  <2> DEFINE k == NextCommand
             kind == kinds[k]
             left == IF kind = "silent" THEN 0 ELSE IF kind = "get" THEN GetUnits ELSE 1
  <2>3. k \in 1 .. Len(kinds) /\ process_command(k, kind)
    BY <1>0, <2>1, <2>2, NextLine
  <2>4. k = IF cmd = 0 THEN first ELSE cmd + 1
    BY DEF NextCommand
  <2> HIDE DEF k
  <2>5. cmd' = k /\ k # 0
    BY <2>3 DEF process_command
  <2>6. CASE kind = "quit"
    <3>1. state' = "conn_closing"
      BY <2>3, <2>6 DEF process_command
    <3> QED BY <1>1, <3>1 DEF RepliesInv, Ending
  <2>7. CASE kind # "quit"
    <3>1. AnsweredTo(written, first, kinds, cmd, 0)
      <4>1. Left = 0
        BY <1>0 DEF Left
      <4> QED BY <2>1, <4>1 DEF Answering
    <3>2. AnsweredTo(written, first, kinds, k, left)
      <4>1. written \in Seq(Nat) /\ first \in Nat \ {0} /\ kinds \in Seq(Kinds) /\ cmd \in Nat
        BY AnswersType
      <4>2. /\ Answer(k, first, kinds) = left
            /\ AnsweredTo(written, first, kinds, k, Answer(k, first, kinds))
        BY <2>3, <2>4, <2>7, <3>1, <4>1, AnsweredNext
      <4> QED BY <4>2
    <3> HIDE DEF kind
    <3>3. Left' = left /\ Vectors'
      BY <1>0, <2>3, <2>5, <2>7 DEF process_command, Left, ToSend, Vectors
    <3>4. Answering'
      BY <1>0, <2>5, <3>2, <3>3, NowAnswering
    <3> QED BY <3>4 DEF RepliesInv
  <2> QED BY <2>6, <2>7
<1> QED BY <1>2, <1>3

LEMMA RepliesStep ==
  ASSUME TInv, InStep, ReadsInRead, RepliesInv, ~ Managed, [Next]_vars
  PROVE  RepliesInv'
<1>1. CASE UNCHANGED vars
  BY <1>1, QuietStep DEF vars, clientVars, writeVars, Broken
<1>2. CASE Next
  BY <1>2, ClientReplies, LoopReplies, CommandReplies, ReadReplies, DataReplies, WriteReplies
     DEF Next, drive_machine
<1> QED BY <1>1, <1>2

\* Where settings.managed is 0, the client gets the whole answers to its
\* commands, in their order and one for each, and nothing of the answers of the
\* connection that used the structure before: whatever number of commands come
\* at once, and wherever the network takes only a part of an answer
\* (memcached.c:997-1047, 1189-1236).
THEOREM AnswersComeInOrder == ~ Managed => (Spec => []RepliesInOrder)
<1> SUFFICES ASSUME ~ Managed PROVE Spec => []RepliesInOrder
  OBVIOUS
<1>1. Init => RepliesInv
  <2> SUFFICES ASSUME Init PROVE RepliesInv
    OBVIOUS
  <2>1. InOrder(written, first, kinds)
    <3>1. state = "closed" /\ written = <<>> /\ kinds = <<>> /\ first = 1
      BY DEF Init
    <3>2. DOMAIN written = {} /\ Len(kinds) = 0
      BY <3>1
    <3>3. \A k : Count(written, k) = 0
      <4>1. written \in Seq(Nat)
        BY <3>1
      <4> QED BY <3>2, <4>1, CountType
    <3>4. \A k : Answer(k, first, kinds) \in Nat
      BY <3>1, AnswerType
    <3> QED BY <3>2, <3>3, <3>4 DEF InOrder
  <2> QED BY <2>1, RepliesInOrderIs DEF Init, RepliesInv, Ending
<1>2. TInv /\ InStep /\ ReadsInRead /\ RepliesInv /\ [Next]_vars => RepliesInv'
  BY RepliesStep
<1>3. TInv /\ RepliesInv => RepliesInOrder
  BY AnsweringInOrder DEF RepliesInv
<1>4. Init => InStep /\ ReadsInRead
  BY DEF Init, InStep, GivingUp, ReadsInRead
<1>5. TInv /\ InStep /\ ReadsInRead /\ [Next]_vars => InStep' /\ ReadsInRead'
  BY StreamStep, ReadsStep
<1> QED BY <1>1, <1>2, <1>3, <1>4, <1>5, ConnectionInvariant, PTL DEF Spec
=============================================================================
