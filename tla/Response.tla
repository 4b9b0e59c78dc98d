------------------------------- MODULE Response -------------------------------
(***************************************************************************)
(* connection.c and memcached.c: how the responses of one connection are   *)
(* put together in the lists iov and msglist of its struct conn, and how   *)
(* transmit takes them apart again.                                        *)
(*                                                                         *)
(* Which command is answered, and with what, is the subject of Commands    *)
(* and ItemStore: here an answer is a number of bytes.  A connection that  *)
(* waits for its socket just takes no step.  The error of try_read_network *)
(* for a realloc of rbuf that fails is in Connection.                      *)
(*                                                                         *)
(* A byte of the response is the number of bytes added before it, plus     *)
(* one: the bytes of an entry of iov are numbered from iov_base on.        *)
(* Pointers into iov are indexes.                                          *)
(***************************************************************************)
EXTENDS Integers, SequencesExt, FiniteSets

CONSTANTS
  IOV_MAX, UDP_MAX_PAYLOAD_SIZE,
  IOV_LIST_INITIAL, MSG_LIST_INITIAL,
  IOV_LIST_HIGHWAT, MSG_LIST_HIGHWAT,
  ReallocMayFail,
  DataLens,           \* sizes of one-line answers, and of suffix and data of an item
  MaxHits,            \* bound: the hits of one get
  MaxIov              \* bound: a realloc of iov to more entries fails

ASSUME ResponseAssumption ==
  /\ {IOV_MAX, UDP_MAX_PAYLOAD_SIZE, IOV_LIST_INITIAL, MSG_LIST_INITIAL,
      IOV_LIST_HIGHWAT, MSG_LIST_HIGHWAT, MaxIov} \subseteq Nat \ {0}
  /\ DataLens \subseteq Nat \ {0} /\ MaxHits \in Nat
  /\ ReallocMayFail \in BOOLEAN

VARIABLES
  state,   \* of the struct conn
  lists,   \* its iov and msglist
  adding,  \* what is being added to them: values, "END", an answer, or nothing
  hits,    \* command_get: sizes of the items still to come
  parts,   \* sizes of the parts of an item, or of an answer, still to be added
  res      \* transmit: what sendmsg took and the lists still have, or Idle

vars == <<state, lists, adding, hits, parts, res>>

\* transmit is not in its loop.
Idle == -1

\* The lists of a struct conn.  iov has iovused entries and msglist msgused;
\* added, sent and oom are history: the number of bytes added and sent, and
\* whether a realloc failed meanwhile.
Entry == [iov_base : Nat, iov_len : Nat]
Message == [msg_iov : Nat \ {0}, msg_iovlen : Nat]
Lists == [iov : Seq(Entry), iovsize : Nat, msglist : Seq(Message), msgsize : Nat,
          msgcurr : Nat \ {0}, msgbytes : Nat, added : Nat, sent : Nat, oom : BOOLEAN]

\* Lists without an entry.
Fresh(iovsize, msglist, msgsize) ==
  [iov |-> <<>>, iovsize |-> iovsize, msglist |-> msglist, msgsize |-> msgsize,
   msgcurr |-> 1, msgbytes |-> 0, added |-> 0, sent |-> 0, oom |-> FALSE]

\* conn_new allocates them.
NewLists == Fresh(IOV_LIST_INITIAL, <<>>, MSG_LIST_INITIAL)

\* add_msghdr fails or starts a message behind the last entry of iov.
add_msghdr(r) ==
  LET full == Len(r.msglist) = r.msgsize
  IN  {[r EXCEPT !.msglist = Append(@, [msg_iov |-> Len(r.iov) + 1, msg_iovlen |-> 0]),
                 !.msgsize = IF full THEN 2 * @ ELSE @,
                 !.msgbytes = 0]}
      \cup (IF full /\ ReallocMayFail THEN {[r EXCEPT !.oom = TRUE]} ELSE {})

\* The number of entries of the messages before message i: iovnum, when the loop
\* of ensure_iov_space has reached i.
Before(r, i) == Cardinality(UNION {{j} \X (1 .. r.msglist[j].msg_iovlen) : j \in 1 .. i - 1})

\* Mutant: all messages point to the front of the new array.
moved_bug(r) ==
  [r EXCEPT !.msglist = [i \in DOMAIN @ |-> [@[i] EXCEPT !.msg_iov = 1]]]

\* The array has moved: point all messages at the new one.
moved(r) ==
  [r EXCEPT !.msglist = [i \in DOMAIN @ |-> [@[i] EXCEPT !.msg_iov = Before(r, i) + 1]]]

\* Mutant: the last entry of the array is followed by one more.
HasIovSpace_bug(r) == Len(r.iov) <= r.iovsize

HasIovSpace(r) == Len(r.iov) < r.iovsize
CanGrow(r) == 2 * r.iovsize <= MaxIov

\* Mutant: a message may have one entry more than IOV_MAX.
Full_bug(r) ==
  LET m == Last(r.msglist)
  IN  \/ m.msg_iovlen > IOV_MAX
      \/ Len(r.msglist) = 1 /\ r.msgbytes >= UDP_MAX_PAYLOAD_SIZE

\* The first message of a response is kept to the size of a datagram.
Full(r) ==
  LET m == Last(r.msglist)
  IN  \/ m.msg_iovlen = IOV_MAX
      \/ Len(r.msglist) = 1 /\ r.msgbytes >= UDP_MAX_PAYLOAD_SIZE

\* Room for another entry of iov, or -1.
ensure_iov_space(r) ==
  IF HasIovSpace(r) THEN {[lists |-> r, failed |-> FALSE]}
  ELSE (IF CanGrow(r) THEN {[lists |-> moved([r EXCEPT !.iovsize = 2 * @]), failed |-> FALSE]} ELSE {})
       \cup (IF ReallocMayFail \/ ~ CanGrow(r) THEN {[lists |-> [r EXCEPT !.oom = TRUE], failed |-> TRUE]}
             ELSE {})

\* The first half of the loop of add_iov: there is a message to add to, whether
\* or not add_msghdr worked, and room in iov, or not.
Prepared(r) ==
  UNION {ensure_iov_space(s) : s \in IF Full(r) THEN add_msghdr(r) ELSE {r}}

\* How many of len bytes the last message takes.
Fitting(limit_to_mtu, s, len) ==
  IF limit_to_mtu /\ len + s.msgbytes > UDP_MAX_PAYLOAD_SIZE
  THEN UDP_MAX_PAYLOAD_SIZE - s.msgbytes
  ELSE len

\* The second half: an entry of n bytes for the last message.
WithEntry(s, n) ==
  [s EXCEPT !.iov = Append(@, [iov_base |-> s.added + 1, iov_len |-> n]),
            !.msglist[Len(s.msglist)].msg_iovlen = @ + 1,
            !.msgbytes = @ + n, !.added = @ + n]

\* What one turn of the loop of add_iov can lead to: the lists, the bytes left
\* for the next turn, and whether -1 is returned.
add_iov(r, len) ==
  {LET n == Fitting(Len(r.msglist) = 1, s.lists, len)
   IN  [lists    |-> IF s.failed THEN s.lists ELSE WithEntry(s.lists, n),
        leftover |-> IF s.failed THEN 0 ELSE len - n,
        failed   |-> s.failed] : s \in Prepared(r)}

-----------------------------------------------------------------------------
(* Taking it apart *)

\* The bytes of message m, each by its entry of iov and its number in it.
Bytes(r, m) == UNION {{n} \X (1 .. r.iov[n].iov_len) : n \in m.msg_iov .. m.msg_iov + m.msg_iovlen - 1}
NumBytes(r, m) == Cardinality(Bytes(r, m))

\* A message that has been sent is left behind.
Advanced(r) ==
  IF r.msgcurr <= Len(r.msglist) /\ r.msglist[r.msgcurr].msg_iovlen = 0
  THEN [r EXCEPT !.msgcurr = @ + 1] ELSE r

\* The sizes that conn_shrink can leave an array with.
Shrunk(size, highwat, initial) ==
  IF size <= highwat THEN {size} ELSE {initial} \cup (IF ReallocMayFail THEN {size} ELSE {})

\* process_command starts with a message and no entry.
Emptied(r) == Fresh(r.iovsize, <<[msg_iov |-> 1, msg_iovlen |-> 0]>>, r.msgsize)

-----------------------------------------------------------------------------
(* The connection *)

Init ==
  /\ state = "conn_read" /\ lists = NewLists
  /\ adding = "nothing" /\ hits = <<>> /\ parts = <<>> /\ res = Idle

\* A command that answers with one line, now or when its data are there, one
\* that is not answered, and one that closes the connection.
process_command ==
  /\ state = "conn_read"
  /\ lists' = Emptied(lists)
  /\ state' \in {"conn_read", "conn_write", "conn_closing"}
  /\ UNCHANGED <<adding, hits, parts, res>>

\* A get: any number of hits, each in three parts.
command_get ==
  /\ state = "conn_read"
  /\ lists' = Emptied(lists)
  /\ adding' = "values" /\ hits' \in BoundedSeq(DataLens, MaxHits) /\ state' = "conn_mwrite"
  /\ UNCHANGED <<parts, res>>

next_hit ==
  /\ adding = "values" /\ parts = <<>> /\ hits # <<>>
  /\ parts' = <<1, 1, Head(hits)>> /\ hits' = Tail(hits)
  /\ UNCHANGED <<state, lists, adding, res>>

End == adding' = "END" /\ hits' = <<>> /\ parts' = <<1>>

\* Also when ilist is full and cannot grow.
end_of_hits ==
  /\ adding = "values" /\ parts = <<>> /\ (hits = <<>> \/ ReallocMayFail)
  /\ End
  /\ UNCHANGED <<state, lists, res>>

\* conn_write puts the answer into the lists first.
start_answer ==
  /\ state = "conn_write" /\ lists.iov = <<>> /\ adding = "nothing"
  /\ adding' = "answer" /\ \E len \in DataLens : parts' = <<len>>
  /\ UNCHANGED <<state, lists, hits, res>>

\* A get that cannot add a part goes on to "END", whether or not that can be
\* added; a connection that cannot add its answer is closed.
add_failed ==
  CASE adding = "values" -> End /\ UNCHANGED state
    [] adding = "END" -> parts' = <<>> /\ UNCHANGED <<adding, hits, state>>
    [] adding = "answer" -> /\ parts' = <<>> /\ state' = "conn_closing"
                            /\ adding' = "nothing" /\ UNCHANGED hits

add_part ==
  /\ parts # <<>>
  /\ \E turn \in add_iov(lists, Head(parts)) :
       /\ lists' = turn.lists
       /\ \/ turn.failed /\ add_failed
          \/ /\ ~ turn.failed
             /\ parts' = (IF turn.leftover > 0 THEN <<turn.leftover>> ELSE <<>>) \o Tail(parts)
             /\ UNCHANGED <<adding, hits, state>>
  /\ UNCHANGED res

response_ready ==
  /\ adding \in {"END", "answer"} /\ parts = <<>>
  /\ adding' = "nothing"
  /\ UNCHANGED <<state, lists, hits, parts, res>>

Writing ==
  /\ adding = "nothing" /\ res = Idle
  /\ state = "conn_mwrite" \/ (state = "conn_write" /\ lists.iov # <<>>)

\* sendmsg takes some bytes of the current message.  It refuses one of more
\* than IOV_MAX entries, and returns 0 for one without bytes.
transmit ==
  /\ Writing
  /\ lists' = Advanced(lists)
  /\ lists'.msgcurr <= Len(lists'.msglist)
  /\ LET m == lists'.msglist[lists'.msgcurr]
     IN  m.msg_iovlen <= IOV_MAX /\ res' \in 1 .. NumBytes(lists', m)
  /\ UNCHANGED <<state, adding, hits, parts>>

\* The message that is being sent, its first entry, and whether sendmsg took all
\* of that entry.
Current == lists.msglist[lists.msgcurr]
FirstEntry == lists.iov[Current.msg_iov]
FirstDone == Current.msg_iovlen > 0 /\ res >= FirstEntry.iov_len

\* A turn of the loop of transmit: an entry sent completely is removed.
entry_sent ==
  /\ res # Idle /\ FirstDone
  /\ res' = res - FirstEntry.iov_len
  /\ lists' = [lists EXCEPT !.msglist[lists.msgcurr] = [msg_iov |-> @.msg_iov + 1, msg_iovlen |-> @.msg_iovlen - 1],
                            !.sent = @ + FirstEntry.iov_len]
  /\ UNCHANGED <<state, adding, hits, parts>>

\* After the loop: an entry sent in part is adjusted.
entry_adjusted ==
  /\ res # Idle /\ ~ FirstDone
  /\ lists' = IF res = 0 THEN lists
              ELSE [lists EXCEPT !.iov[Current.msg_iov] = [iov_base |-> @.iov_base + res, iov_len |-> @.iov_len - res],
                                 !.sent = @ + res]
  /\ res' = Idle
  /\ UNCHANGED <<state, adding, hits, parts>>

transmit_complete ==
  /\ Writing
  /\ LET r == Advanced(lists)
     IN  /\ r.msgcurr > Len(r.msglist)
         /\ \E m \in Shrunk(r.msgsize, MSG_LIST_HIGHWAT, MSG_LIST_INITIAL),
               v \in Shrunk(r.iovsize, IOV_LIST_HIGHWAT, IOV_LIST_INITIAL) :
              lists' = [r EXCEPT !.msgsize = m, !.iovsize = v]
  /\ state' = "conn_read"
  /\ UNCHANGED <<adding, hits, parts, res>>

\* sendmsg or read fails, or the client has closed its end.
broken ==
  /\ Writing \/ state = "conn_read"
  /\ state' = "conn_closing"
  /\ UNCHANGED <<lists, adding, hits, parts, res>>

\* The struct conn of a closed connection serves the next client, with the sizes
\* its lists have, or is freed and another one allocated.
conn_close ==
  /\ state = "conn_closing"
  /\ state' = "conn_read"
  /\ lists' \in {NewLists, Fresh(lists.iovsize, <<>>, lists.msgsize)}
  /\ UNCHANGED <<adding, hits, parts, res>>

Next ==
  \/ process_command \/ command_get \/ next_hit \/ end_of_hits \/ start_answer
  \/ add_part \/ response_ready
  \/ transmit \/ entry_sent \/ entry_adjusted \/ transmit_complete \/ broken \/ conn_close

Spec == Init /\ [][Next]_vars

-----------------------------------------------------------------------------
(* Properties *)

\* No size and no count in the lists goes below zero: neither what is left of a
\* datagram (connection.c:295) nor what is left of res (memcached.c:1014).
TypeOK ==
  /\ state \in {"conn_read", "conn_write", "conn_mwrite", "conn_closing"}
  /\ lists \in Lists
  /\ adding \in {"nothing", "values", "END", "answer"}
  /\ hits \in Seq(DataLens) /\ parts \in Seq(Nat \ {0})
  /\ res \in Nat \cup {Idle}

\* The first entry of iov that is still to be sent, and the byte after entry n.
First(r) == IF r.msgcurr <= Len(r.msglist) THEN r.msglist[r.msgcurr].msg_iov ELSE Len(r.iov) + 1
EndOf(r, n) == r.iov[n].iov_base + r.iov[n].iov_len

\* Message i and the ones after it take the entries of iov up to its end, each
\* where the one before it stops.
MessagesFollow(r, i) ==
  \A k \in i .. Len(r.msglist) :
    r.msglist[k].msg_iov + r.msglist[k].msg_iovlen =
      IF k = Len(r.msglist) THEN Len(r.iov) + 1 ELSE r.msglist[k + 1].msg_iov

\* The entries from the n-th on hold the bytes from byte b to the last one added,
\* each entry where the one before it stops.
EntriesFollow(r, n, b) ==
  /\ \A k \in n .. Len(r.iov) : r.iov[k].iov_base = IF k = n THEN b ELSE EndOf(r, k - 1)
  /\ r.added + 1 = IF n > Len(r.iov) THEN b ELSE EndOf(r, Len(r.iov))

\* What a connection will still send is what was added to its response and not
\* sent yet, each byte once and in order, through reallocs of iov while it is
\* built, splits at the size of a datagram, and short writes (memcached.c:111,
\* 1013, connection.c:270).
ResponseExact ==
  /\ MessagesFollow(lists, lists.msgcurr)
  /\ EntriesFollow(lists, First(lists), lists.sent + 1)

\* A response whose lists could grow is one that sendmsg takes: every message
\* still to be started has bytes, none has more than IOV_MAX entries, and the
\* first one not more bytes than a datagram (connection.c:278, 285).
MessagesSendable ==
  ~ lists.oom =>
    /\ \A m \in DOMAIN lists.msglist :
         /\ lists.msglist[m].msg_iovlen <= IOV_MAX
         /\ m > lists.msgcurr => NumBytes(lists, lists.msglist[m]) > 0
    /\ lists.msglist # <<>> => NumBytes(lists, lists.msglist[1]) <= UDP_MAX_PAYLOAD_SIZE

\* As long as a response is built or sent, what is used of iov and msglist is
\* inside the arrays, although they shrink between two commands and are then
\* smaller than what was used of them (connection.c:225-230, memcached.c:112).
ListsInsideArrays ==
  adding # "nothing" \/ Writing \/ res # Idle =>
    Len(lists.iov) <= lists.iovsize /\ Len(lists.msglist) <= lists.msgsize

=============================================================================
