------------------------------- MODULE Commands -------------------------------
(***************************************************************************)
(* memcached.c and command.c: the table of commands, process_command and   *)
(* the handlers, and the buckets of a managed instance.                    *)
(*                                                                         *)
(* What a handler does to the items is the subject of ItemStore: here it   *)
(* finds or does not find what it looks for.  The bytes a connection reads *)
(* are the subject of Connection, and how its responses are put together   *)
(* that of Response: here lines, data and responses come and go as wholes. *)
(***************************************************************************)
EXTENDS Integers, SequencesExt, FiniteSetsExt

CONSTANTS
  NULL,
  Clients, Structs,
  MAX_BUCKETS,
  Numbers, Generations   \* the numbers clients send for a bucket and a generation

\* What sscanf reads with "%u:%u".
Pair == [bucket : Numbers, gen : Generations]

ASSUME CommandsAssumption ==
  /\ MAX_BUCKETS \in Nat \ {0} /\ Numbers \subseteq Int /\ Generations \subseteq Int
  /\ 0 \in Generations
  /\ NULL \notin Structs \cup Pair \cup {"parsed"}

VARIABLES
  managed,  \* settings.managed
  buckets,
  at,       \* the structure of each client's connection
  conn,     \* state, write_and_go, bucket and gen of each struct conn
  c,        \* the connection drive_machine runs for, or NULL
  \* history
  heard,    \* the bucket and generation of each client's last bg, until used
  owner,    \* the generation last owned for each bucket
  misjudged \* a data command was refused to the owner or done for another

bucketVars == <<managed, buckets, heard, owner, misjudged>>
vars == <<bucketVars, at, conn, c>>

Buckets == 0 .. MAX_BUCKETS - 1
States == {"conn_read", "conn_nread", "conn_swallow", "conn_write", "conn_mwrite",
           "conn_closing"}
Conn == [state : States, write_and_go : {"conn_read", "conn_swallow"},
         bucket : Buckets \cup {-1}, gen : Int]
TypeOK ==
  /\ managed \in BOOLEAN /\ buckets \in [Buckets -> Int]
  /\ at \in [Clients -> Structs \cup {NULL}]
  /\ conn \in [Structs -> Conn] /\ c \in Structs \cup {NULL}
  /\ heard \in [Clients -> Pair \cup {NULL}] /\ owner \in [Buckets -> Generations]
  /\ misjudged \in BOOLEAN

NewConn == [state |-> "conn_read", write_and_go |-> "conn_read", bucket |-> -1, gen |-> 0]

Init ==
  /\ managed \in BOOLEAN /\ buckets = [b \in Buckets |-> 0]
  /\ at = [k \in Clients |-> NULL]
  /\ conn = [s \in Structs |-> NewConn] /\ c = NULL
  /\ heard = [k \in Clients |-> NULL] /\ owner = buckets /\ misjudged = FALSE

-----------------------------------------------------------------------------
(* The table of commands *)

Command(cmd, type, handler) == [cmd |-> cmd, type |-> type, handler |-> handler]

command_list ==
  << Command(<<"get", " ">>, "FIXED_PREFIX", "get_handler"),
     Command(<<"bget", " ">>, "FIXED_PREFIX", "bget_handler"),
     Command(<<"set", " ">>, "FIXED_PREFIX", "set_handler"),
     Command(<<"add", " ">>, "FIXED_PREFIX", "add_handler"),
     Command(<<"replace", " ">>, "FIXED_PREFIX", "replace_handler"),
     Command(<<"incr", " ">>, "FIXED_PREFIX", "incr_handler"),
     Command(<<"decr", " ">>, "FIXED_PREFIX", "decr_handler"),
     Command(<<"delete", " ">>, "FIXED_PREFIX", "delete_handler"),
     Command(<<"own", " ">>, "FIXED_PREFIX", "own_handler"),
     Command(<<"disown", " ">>, "FIXED_PREFIX", "disown_handler"),
     Command(<<"stats">>, "FULL_MATCH", "stats_handler"),
     Command(<<"stats", " ", "reset">>, "FULL_MATCH", "stats_reset_handler"),
     Command(<<"stats", " ", "malloc">>, "FULL_MATCH", "stats_malloc_handler"),
     Command(<<"stats", " ", "maps">>, "FULL_MATCH", "stats_maps_handler"),
     Command(<<"stats", " ", "cachedump">>, "FULL_MATCH", "stats_cachedump_handler"),
     Command(<<"stats", " ", "slabs">>, "FULL_MATCH", "stats_slabs_handler"),
     Command(<<"stats", " ", "items">>, "FULL_MATCH", "stats_items_handler"),
     Command(<<"stats", " ", "sizes">>, "FULL_MATCH", "stats_sizes_handler"),
     Command(<<"version">>, "FULL_MATCH", "version_handler"),
     Command(<<"quit">>, "FULL_MATCH", "quit_handler"),
     Command(<<"slabs", " ", "reassign", " ">>, "FIXED_PREFIX", "quit_handler"),
     Command(<<"flush_all">>, "FIXED_PREFIX", "flush_all_handler"),
     Command(<<"bg", " ">>, "FIXED_PREFIX", "bg_handler") >>

ASSUME HandlersAssumption == \A n \in DOMAIN command_list : command_list[n].handler # NULL

Matches(command, text) ==
  \/ command.type = "FIXED_PREFIX" /\ IsPrefix(command.cmd, text)
  \/ command.type = "FULL_MATCH" /\ command.cmd = text

\* A line a client sends: a registered text, alone or followed by arguments,
\* which sscanf can parse or not.
ArgsOf(handler) ==
  {NULL} \cup IF handler \in {"own_handler", "disown_handler", "bg_handler"} THEN Pair
              ELSE {"parsed"}
Lines ==
  UNION {{[text |-> e.cmd, arg |-> NULL]}
         \cup {[text |-> Append(e.cmd, "args"), arg |-> a] : a \in ArgsOf(e.handler)} :
         e \in Range(command_list)}

\* The handler of the first command that matches.
command_service_run ==
  [text \in {line.text : line \in Lines} |->
     LET matching == {n \in DOMAIN command_list : Matches(command_list[n], text)}
     IN  IF matching = {} THEN NULL ELSE command_list[Min(matching)].handler]

-----------------------------------------------------------------------------
(* Answers *)

Replies == {"none", "values", "answer", "ERROR", "OWNED", "DISOWNED", "ERROR_NOT_OWNER",
            "CLIENT_ERROR no BG data in managed mode", "CLIENT_ERROR not a managed instance",
            "CLIENT_ERROR bad command line format", "CLIENT_ERROR bad format",
            "CLIENT_ERROR bucket number out of range"}

\* The connection that runs, and what it becomes.
This == conn[c]
Become(r) == conn' = [conn EXCEPT ![c] = r]

\* The answer is in wbuf, or in memory that conn_write frees.
Answering(r, go) == [r EXCEPT !.state = "conn_write", !.write_and_go = go]

out_string(reply, str) ==
  /\ reply = str
  /\ Become(Answering(This, "conn_read"))
  /\ UNCHANGED buckets

-----------------------------------------------------------------------------
(* Data commands: a managed instance wants a bg before each of them *)

no_bg(reply) ==
  /\ managed /\ This.bucket = -1
  /\ out_string(reply, "CLIENT_ERROR no BG data in managed mode")

not_owner(reply) ==
  /\ managed /\ This.bucket # -1 /\ buckets[This.bucket] # This.gen
  /\ reply = "ERROR_NOT_OWNER"
  /\ Become(Answering([This EXCEPT !.bucket = -1], "conn_read"))
  /\ UNCHANGED buckets

Refused(reply) == no_bg(reply) \/ not_owner(reply)

\* Mutant: any owned bucket will do.
Admitted_bug == managed => This.bucket # -1 /\ buckets[This.bucket] # 0

Admitted == managed => This.bucket # -1 /\ buckets[This.bucket] = This.gen
Used == IF managed THEN [This EXCEPT !.bucket = -1] ELSE This

\* An answer of one line to an admitted command.
Served(reply, str) ==
  /\ Admitted
  /\ reply = str
  /\ Become(Answering(Used, "conn_read"))
  /\ UNCHANGED buckets

command_get(reply) ==
  \/ Refused(reply)
  \/ /\ Admitted /\ reply = "values"
     /\ Become([Used EXCEPT !.state = "conn_mwrite"])
     /\ UNCHANGED buckets

\* The line is read before the bucket is looked at.
BadLine(line, reply) ==
  line.arg = NULL /\ out_string(reply, "CLIENT_ERROR bad command line format")

\* Without an item the data are swallowed.
command_replace(line, reply) ==
  \/ BadLine(line, reply)
  \/ line.arg # NULL /\ Refused(reply)
  \/ /\ line.arg # NULL /\ Admitted
     /\ \/ reply = "none" /\ Become([Used EXCEPT !.state = "conn_nread"])
        \/ reply = "answer" /\ Become(Answering(Used, "conn_swallow"))
     /\ UNCHANGED buckets

command_vary_delta(line, reply) ==
  \/ BadLine(line, reply)
  \/ line.arg # NULL /\ Refused(reply)
  \/ line.arg # NULL /\ Served(reply, "answer")

\* The bucket is looked at before the line is read.
delete_handler(line, reply) ==
  \/ Refused(reply)
  \/ Served(reply, IF line.arg = NULL THEN "ERROR" ELSE "answer")

-----------------------------------------------------------------------------
(* Buckets *)

Unmanaged(reply) == ~ managed /\ out_string(reply, "CLIENT_ERROR not a managed instance")
BadNumbers(line, reply) ==
  managed /\ line.arg \notin Pair /\ out_string(reply, "CLIENT_ERROR bad format")

\* Sets the generation of a bucket: 0 and negative ones too.
SetGeneration(line, gen, reply, str) ==
  /\ managed /\ line.arg \in Pair
  /\ \/ /\ line.arg.bucket \notin Buckets
        /\ out_string(reply, "CLIENT_ERROR bucket number out of range")
     \/ /\ line.arg.bucket \in Buckets
        /\ buckets' = [buckets EXCEPT ![line.arg.bucket] = gen]
        /\ reply = str
        /\ Become(Answering(This, "conn_read"))

own_handler(line, reply) ==
  \/ Unmanaged(reply)
  \/ BadNumbers(line, reply)
  \/ SetGeneration(line, line.arg.gen, reply, "OWNED")

disown_handler(line, reply) ==
  \/ Unmanaged(reply)
  \/ BadNumbers(line, reply)
  \/ SetGeneration(line, 0, reply, "DISOWNED")

\* Mutant: MAX_BUCKETS itself is taken for a bucket.
bg_handler_bug(line, reply) ==
  \/ Unmanaged(reply)
  \/ BadNumbers(line, reply)
  \/ /\ managed /\ line.arg \in Pair /\ reply = "none"
     /\ IF line.arg.bucket \in 0 .. MAX_BUCKETS /\ line.arg.gen > 0
        THEN Become([This EXCEPT !.bucket = line.arg.bucket, !.gen = line.arg.gen])
        ELSE UNCHANGED conn
     /\ UNCHANGED buckets

\* Numbers out of range are ignored, and nothing is ever answered to numbers.
bg_handler(line, reply) ==
  \/ Unmanaged(reply)
  \/ BadNumbers(line, reply)
  \/ /\ managed /\ line.arg \in Pair /\ reply = "none"
     /\ IF line.arg.bucket \in Buckets /\ line.arg.gen > 0
        THEN Become([This EXCEPT !.bucket = line.arg.bucket, !.gen = line.arg.gen])
        ELSE UNCHANGED conn
     /\ UNCHANGED buckets

-----------------------------------------------------------------------------
(* The other commands *)

\* Each answers with a string, or with memory that conn_write frees.
Answerers == {"stats_handler", "stats_reset_handler", "stats_malloc_handler",
              "stats_maps_handler", "stats_cachedump_handler", "stats_items_handler",
              "stats_sizes_handler", "version_handler"}

\* It does nothing at all.
stats_slabs_handler(reply) ==
  reply = "none" /\ UNCHANGED <<conn, buckets>>

flush_all_handler(line, reply) ==
  out_string(reply, IF line.text = <<"flush_all">> \/ line.arg # NULL THEN "answer" ELSE "ERROR")

quit_handler(reply) ==
  /\ reply = "none"
  /\ Become([This EXCEPT !.state = "conn_closing"])
  /\ UNCHANGED buckets

-----------------------------------------------------------------------------
(* What a client may conclude from its lines and their answers *)

DataWords == {"get", "bget", "set", "add", "replace", "incr", "decr", "delete"}
IsData(line, reply) ==
  Head(line.text) \in DataWords /\ reply # "CLIENT_ERROR bad command line format"
Refusals == {"CLIENT_ERROR no BG data in managed mode", "ERROR_NOT_OWNER"}

Heard(before, line, reply) ==
  IF Head(line.text) = "bg" /\ reply = "none"
  THEN IF line.arg.bucket \in Buckets /\ line.arg.gen > 0 THEN line.arg ELSE before
  ELSE IF IsData(line, reply) THEN NULL ELSE before

Entitled(k) == managed => heard[k] # NULL /\ owner[heard[k].bucket] = heard[k].gen

Conclude(k, line, reply) ==
  /\ heard' = [heard EXCEPT ![k] = Heard(@, line, reply)]
  /\ owner' = CASE reply = "OWNED" -> [owner EXCEPT ![line.arg.bucket] = line.arg.gen]
                [] reply = "DISOWNED" -> [owner EXCEPT ![line.arg.bucket] = 0]
                [] OTHER -> owner
  /\ misjudged' = (misjudged \/ (IsData(line, reply) /\ (reply \in Refusals <=> Entitled(k))))

-----------------------------------------------------------------------------
(* drive_machine *)

Running(state) == c # NULL /\ conn[c].state = state

process_command(line, reply) ==
  LET handler == command_service_run[line.text]
  IN  \/ handler = NULL /\ out_string(reply, "ERROR")
      \/ handler \in {"get_handler", "bget_handler"} /\ command_get(reply)
      \/ /\ handler \in {"set_handler", "add_handler", "replace_handler"}
         /\ command_replace(line, reply)
      \/ /\ handler \in {"incr_handler", "decr_handler"}
         /\ command_vary_delta(line, reply)
      \/ handler = "delete_handler" /\ delete_handler(line, reply)
      \/ handler = "own_handler" /\ own_handler(line, reply)
      \/ handler = "disown_handler" /\ disown_handler(line, reply)
      \/ handler = "bg_handler" /\ bg_handler(line, reply)
      \/ handler \in Answerers /\ out_string(reply, "answer")
      \/ handler = "stats_slabs_handler" /\ stats_slabs_handler(reply)
      \/ handler = "flush_all_handler" /\ flush_all_handler(line, reply)
      \/ handler = "quit_handler" /\ quit_handler(reply)

try_read_command ==
  /\ Running("conn_read")
  /\ \E line \in Lines, reply \in Replies :
       /\ process_command(line, reply)
       /\ \E k \in Clients : at[k] = c /\ Conclude(k, line, reply)
  /\ UNCHANGED <<managed, at, c>>

\* The last byte of the response is written.
transmit_complete ==
  /\ c # NULL /\ This.state \in {"conn_write", "conn_mwrite"}
  /\ Become([This EXCEPT !.state = IF @ = "conn_write" THEN This.write_and_go ELSE "conn_read"])
  /\ UNCHANGED <<bucketVars, at, c>>

\* The data of a set, add or replace are complete: it is stored, whoever owns
\* the bucket by now.
complete_nread ==
  /\ Running("conn_nread")
  /\ Become(Answering(This, "conn_read"))
  /\ UNCHANGED <<bucketVars, at, c>>

swallowed ==
  /\ Running("conn_swallow")
  /\ Become([This EXCEPT !.state = "conn_read"])
  /\ UNCHANGED <<bucketVars, at, c>>

\* Nothing to read, or no room to write.
blocked ==
  /\ c # NULL /\ This.state # "conn_closing"
  /\ c' = NULL
  /\ UNCHANGED <<bucketVars, at, conn>>

\* The end of the stream, or an error.
broken ==
  /\ c # NULL /\ This.state # "conn_closing"
  /\ Become([This EXCEPT !.state = "conn_closing"])
  /\ UNCHANGED <<bucketVars, at, c>>

conn_close ==
  /\ Running("conn_closing")
  /\ at' = [k \in Clients |-> IF at[k] = c THEN NULL ELSE at[k]]
  /\ heard' = [k \in Clients |-> IF at[k] = c THEN NULL ELSE heard[k]]
  /\ c' = NULL
  /\ UNCHANGED <<managed, buckets, owner, misjudged, conn>>

-----------------------------------------------------------------------------
(* The event loop *)

\* Mutant: the bucket of the last client is kept.
conn_new_bug(k, s) ==
  /\ c = NULL /\ at[k] = NULL /\ s \notin Range(at)
  /\ at' = [at EXCEPT ![k] = s]
  /\ conn' = [conn EXCEPT ![s] = [@ EXCEPT !.state = "conn_read", !.write_and_go = "conn_read"]]
  /\ UNCHANGED <<bucketVars, c>>

\* A client is accepted and gets a structure, which may have served before.
conn_new(k, s) ==
  /\ c = NULL /\ at[k] = NULL /\ s \notin Range(at)
  /\ at' = [at EXCEPT ![k] = s]
  /\ conn' = [conn EXCEPT ![s] = NewConn]
  /\ UNCHANGED <<bucketVars, c>>

event_handler(s) ==
  /\ c = NULL /\ s \in Range(at)
  /\ c' = s
  /\ UNCHANGED <<bucketVars, at, conn>>

drive_machine ==
  \/ try_read_command \/ transmit_complete \/ complete_nread \/ swallowed
  \/ blocked \/ broken \/ conn_close

Next ==
  \/ drive_machine
  \/ \E s \in Structs : event_handler(s) \/ \E k \in Clients : conn_new(k, s)

Spec == Init /\ [][Next]_vars

-----------------------------------------------------------------------------
(* Properties *)

\* A connection's bucket is the one of its client's last bg that no data
\* command has used up: not one of an earlier client of the structure, and not
\* one that a refused command left behind (connection.c:93, memcached.c:243,
\* 339, 402, 466, 830); and buckets hold what was answered OWNED or DISOWNED.
BucketAsHeard ==
  /\ buckets = owner
  /\ \A k \in Clients :
       at[k] # NULL =>
         LET r == conn[at[k]]
         IN  IF heard[k] = NULL THEN r.bucket = -1
             ELSE r.bucket = heard[k].bucket /\ r.gen = heard[k].gen

\* A managed instance does a data command exactly if the generation its client
\* has announced for the bucket is the one that was owned last, by anybody; an
\* instance that is not managed does them all (memcached.c:237, 333, 396, 460).
OnlyOwnersServed == ~ misjudged

=============================================================================
