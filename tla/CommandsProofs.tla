---------------------------- MODULE CommandsProofs ----------------------------
(***************************************************************************)
(* Theorems about Commands: which handler the table leads a line to, and   *)
(* that a managed instance serves the owner of a bucket, exactly.          *)
(***************************************************************************)
EXTENDS Commands, WellFoundedInduction, TLAPS

-----------------------------------------------------------------------------
(* The table *)

\* The words of the table, and what follows them.
Words == {"get", "bget", "set", "add", "replace", "incr", "decr", "delete", "own", "disown",
          "stats", "reset", "malloc", "maps", "cachedump", "slabs", "items", "sizes",
          "version", "quit", "reassign", "flush_all", "bg", " ", "args"}

\* The handlers of the data commands.
DataHandlers == {"get_handler", "bget_handler", "set_handler", "add_handler", "replace_handler",
                 "incr_handler", "decr_handler", "delete_handler"}

\* What the type and the handler of an entry say of its first word.
WordGood(w, type, handler) ==
  /\ type \in {"FIXED_PREFIX", "FULL_MATCH"}
  /\ handler \in DataHandlers <=> w \in DataWords
  /\ handler = "bg_handler" <=> w = "bg"
  /\ w \in DataWords \cup {"bg"} => type = "FIXED_PREFIX"

EntryGood(e) ==
  /\ e.cmd \in Seq(Words) /\ Len(e.cmd) > 0
  /\ WordGood(e.cmd[1], e.type, e.handler)

\* An entry of one word is good if the word is.
LEMMA One ==
  ASSUME NEW w \in Words, NEW type, NEW handler, WordGood(w, type, handler)
  PROVE  EntryGood(Command(<<w>>, type, handler))
<1>1. <<w>> \in Seq(Words) /\ Len(<<w>>) = 1 /\ <<w>>[1] = w
  OBVIOUS
<1> QED BY <1>1 DEF EntryGood, Command

\* As One, for two words.
LEMMA Two ==
  ASSUME NEW w \in Words, NEW w2 \in Words, NEW type, NEW handler, WordGood(w, type, handler)
  PROVE  EntryGood(Command(<<w, w2>>, type, handler))
<1>1. <<w, w2>> \in Seq(Words) /\ Len(<<w, w2>>) = 2 /\ <<w, w2>>[1] = w
  OBVIOUS
<1> QED BY <1>1 DEF EntryGood, Command

\* As One, for three words.
LEMMA Three ==
  ASSUME NEW w \in Words, NEW w2 \in Words, NEW w3 \in Words, NEW type, NEW handler,
         WordGood(w, type, handler)
  PROVE  EntryGood(Command(<<w, w2, w3>>, type, handler))
<1>1. <<w, w2, w3>> \in Seq(Words) /\ Len(<<w, w2, w3>>) = 3 /\ <<w, w2, w3>>[1] = w
  OBVIOUS
<1> QED BY <1>1 DEF EntryGood, Command

\* As One, for four words.
LEMMA Four ==
  ASSUME NEW w \in Words, NEW w2 \in Words, NEW w3 \in Words, NEW w4 \in Words,
         NEW type, NEW handler, WordGood(w, type, handler)
  PROVE  EntryGood(Command(<<w, w2, w3, w4>>, type, handler))
<1>1. <<w, w2, w3, w4>> \in Seq(Words) /\ Len(<<w, w2, w3, w4>>) = 4 /\ <<w, w2, w3, w4>>[1] = w
  OBVIOUS
<1> QED BY <1>1 DEF EntryGood, Command

\* Every entry of the table main() registers.
LEMMA Table == \A n \in DOMAIN command_list : EntryGood(command_list[n])
<1>0. DOMAIN command_list = 1 .. 23
  BY DEF command_list
<1> SUFFICES ASSUME NEW n \in 1 .. 23 PROVE EntryGood(command_list[n])
  BY <1>0
<1>1. CASE n = 1
  <2>1. command_list[n] = Command(<<"get", " ">>, "FIXED_PREFIX", "get_handler")
    BY <1>1 DEF command_list
  <2>2. "get" \in Words /\ " " \in Words
    BY DEF Words
  <2>3. WordGood("get", "FIXED_PREFIX", "get_handler")
    BY DEF WordGood, DataHandlers, DataWords
  <2> QED BY <2>1, <2>2, <2>3, Two
<1>2. CASE n = 2
  <2>1. command_list[n] = Command(<<"bget", " ">>, "FIXED_PREFIX", "bget_handler")
    BY <1>2 DEF command_list
  <2>2. "bget" \in Words /\ " " \in Words
    BY DEF Words
  <2>3. WordGood("bget", "FIXED_PREFIX", "bget_handler")
    BY DEF WordGood, DataHandlers, DataWords
  <2> QED BY <2>1, <2>2, <2>3, Two
<1>3. CASE n = 3
  <2>1. command_list[n] = Command(<<"set", " ">>, "FIXED_PREFIX", "set_handler")
    BY <1>3 DEF command_list
  <2>2. "set" \in Words /\ " " \in Words
    BY DEF Words
  <2>3. WordGood("set", "FIXED_PREFIX", "set_handler")
    BY DEF WordGood, DataHandlers, DataWords
  <2> QED BY <2>1, <2>2, <2>3, Two
<1>4. CASE n = 4
  <2>1. command_list[n] = Command(<<"add", " ">>, "FIXED_PREFIX", "add_handler")
    BY <1>4 DEF command_list
  <2>2. "add" \in Words /\ " " \in Words
    BY DEF Words
  <2>3. WordGood("add", "FIXED_PREFIX", "add_handler")
    BY DEF WordGood, DataHandlers, DataWords
  <2> QED BY <2>1, <2>2, <2>3, Two
<1>5. CASE n = 5
  <2>1. command_list[n] = Command(<<"replace", " ">>, "FIXED_PREFIX", "replace_handler")
    BY <1>5 DEF command_list
  <2>2. "replace" \in Words /\ " " \in Words
    BY DEF Words
  <2>3. WordGood("replace", "FIXED_PREFIX", "replace_handler")
    BY DEF WordGood, DataHandlers, DataWords
  <2> QED BY <2>1, <2>2, <2>3, Two
<1>6. CASE n = 6
  <2>1. command_list[n] = Command(<<"incr", " ">>, "FIXED_PREFIX", "incr_handler")
    BY <1>6 DEF command_list
  <2>2. "incr" \in Words /\ " " \in Words
    BY DEF Words
  <2>3. WordGood("incr", "FIXED_PREFIX", "incr_handler")
    BY DEF WordGood, DataHandlers, DataWords
  <2> QED BY <2>1, <2>2, <2>3, Two
<1>7. CASE n = 7
  <2>1. command_list[n] = Command(<<"decr", " ">>, "FIXED_PREFIX", "decr_handler")
    BY <1>7 DEF command_list
  <2>2. "decr" \in Words /\ " " \in Words
    BY DEF Words
  <2>3. WordGood("decr", "FIXED_PREFIX", "decr_handler")
    BY DEF WordGood, DataHandlers, DataWords
  <2> QED BY <2>1, <2>2, <2>3, Two
<1>8. CASE n = 8
  <2>1. command_list[n] = Command(<<"delete", " ">>, "FIXED_PREFIX", "delete_handler")
    BY <1>8 DEF command_list
  <2>2. "delete" \in Words /\ " " \in Words
    BY DEF Words
  <2>3. WordGood("delete", "FIXED_PREFIX", "delete_handler")
    BY DEF WordGood, DataHandlers, DataWords
  <2> QED BY <2>1, <2>2, <2>3, Two
<1>9. CASE n = 9
  <2>1. command_list[n] = Command(<<"own", " ">>, "FIXED_PREFIX", "own_handler")
    BY <1>9 DEF command_list
  <2>2. "own" \in Words /\ " " \in Words
    BY DEF Words
  <2>3. WordGood("own", "FIXED_PREFIX", "own_handler")
    BY DEF WordGood, DataHandlers, DataWords
  <2> QED BY <2>1, <2>2, <2>3, Two
<1>10. CASE n = 10
  <2>1. command_list[n] = Command(<<"disown", " ">>, "FIXED_PREFIX", "disown_handler")
    BY <1>10 DEF command_list
  <2>2. "disown" \in Words /\ " " \in Words
    BY DEF Words
  <2>3. WordGood("disown", "FIXED_PREFIX", "disown_handler")
    BY DEF WordGood, DataHandlers, DataWords
  <2> QED BY <2>1, <2>2, <2>3, Two
<1>11. CASE n = 11
  <2>1. command_list[n] = Command(<<"stats">>, "FULL_MATCH", "stats_handler")
    BY <1>11 DEF command_list
  <2>2. "stats" \in Words
    BY DEF Words
  <2>3. WordGood("stats", "FULL_MATCH", "stats_handler")
    BY DEF WordGood, DataHandlers, DataWords
  <2> QED BY <2>1, <2>2, <2>3, One
<1>12. CASE n = 12
  <2>1. command_list[n] = Command(<<"stats", " ", "reset">>, "FULL_MATCH", "stats_reset_handler")
    BY <1>12 DEF command_list
  <2>2. "stats" \in Words /\ " " \in Words /\ "reset" \in Words
    BY DEF Words
  <2>3. WordGood("stats", "FULL_MATCH", "stats_reset_handler")
    BY DEF WordGood, DataHandlers, DataWords
  <2> QED BY <2>1, <2>2, <2>3, Three
<1>13. CASE n = 13
  <2>1. command_list[n] = Command(<<"stats", " ", "malloc">>, "FULL_MATCH", "stats_malloc_handler")
    BY <1>13 DEF command_list
  <2>2. "stats" \in Words /\ " " \in Words /\ "malloc" \in Words
    BY DEF Words
  <2>3. WordGood("stats", "FULL_MATCH", "stats_malloc_handler")
    BY DEF WordGood, DataHandlers, DataWords
  <2> QED BY <2>1, <2>2, <2>3, Three
<1>14. CASE n = 14
  <2>1. command_list[n] = Command(<<"stats", " ", "maps">>, "FULL_MATCH", "stats_maps_handler")
    BY <1>14 DEF command_list
  <2>2. "stats" \in Words /\ " " \in Words /\ "maps" \in Words
    BY DEF Words
  <2>3. WordGood("stats", "FULL_MATCH", "stats_maps_handler")
    BY DEF WordGood, DataHandlers, DataWords
  <2> QED BY <2>1, <2>2, <2>3, Three
<1>15. CASE n = 15
  <2>1. command_list[n] = Command(<<"stats", " ", "cachedump">>, "FULL_MATCH", "stats_cachedump_handler")
    BY <1>15 DEF command_list
  <2>2. "stats" \in Words /\ " " \in Words /\ "cachedump" \in Words
    BY DEF Words
  <2>3. WordGood("stats", "FULL_MATCH", "stats_cachedump_handler")
    BY DEF WordGood, DataHandlers, DataWords
  <2> QED BY <2>1, <2>2, <2>3, Three
<1>16. CASE n = 16
  <2>1. command_list[n] = Command(<<"stats", " ", "slabs">>, "FULL_MATCH", "stats_slabs_handler")
    BY <1>16 DEF command_list
  <2>2. "stats" \in Words /\ " " \in Words /\ "slabs" \in Words
    BY DEF Words
  <2>3. WordGood("stats", "FULL_MATCH", "stats_slabs_handler")
    BY DEF WordGood, DataHandlers, DataWords
  <2> QED BY <2>1, <2>2, <2>3, Three
<1>17. CASE n = 17
  <2>1. command_list[n] = Command(<<"stats", " ", "items">>, "FULL_MATCH", "stats_items_handler")
    BY <1>17 DEF command_list
  <2>2. "stats" \in Words /\ " " \in Words /\ "items" \in Words
    BY DEF Words
  <2>3. WordGood("stats", "FULL_MATCH", "stats_items_handler")
    BY DEF WordGood, DataHandlers, DataWords
  <2> QED BY <2>1, <2>2, <2>3, Three
<1>18. CASE n = 18
  <2>1. command_list[n] = Command(<<"stats", " ", "sizes">>, "FULL_MATCH", "stats_sizes_handler")
    BY <1>18 DEF command_list
  <2>2. "stats" \in Words /\ " " \in Words /\ "sizes" \in Words
    BY DEF Words
  <2>3. WordGood("stats", "FULL_MATCH", "stats_sizes_handler")
    BY DEF WordGood, DataHandlers, DataWords
  <2> QED BY <2>1, <2>2, <2>3, Three
<1>19. CASE n = 19
  <2>1. command_list[n] = Command(<<"version">>, "FULL_MATCH", "version_handler")
    BY <1>19 DEF command_list
  <2>2. "version" \in Words
    BY DEF Words
  <2>3. WordGood("version", "FULL_MATCH", "version_handler")
    BY DEF WordGood, DataHandlers, DataWords
  <2> QED BY <2>1, <2>2, <2>3, One
<1>20. CASE n = 20
  <2>1. command_list[n] = Command(<<"quit">>, "FULL_MATCH", "quit_handler")
    BY <1>20 DEF command_list
  <2>2. "quit" \in Words
    BY DEF Words
  <2>3. WordGood("quit", "FULL_MATCH", "quit_handler")
    BY DEF WordGood, DataHandlers, DataWords
  <2> QED BY <2>1, <2>2, <2>3, One
<1>21. CASE n = 21
  <2>1. command_list[n] = Command(<<"slabs", " ", "reassign", " ">>, "FIXED_PREFIX", "quit_handler")
    BY <1>21 DEF command_list
  <2>2. "slabs" \in Words /\ " " \in Words /\ "reassign" \in Words
    BY DEF Words
  <2>3. WordGood("slabs", "FIXED_PREFIX", "quit_handler")
    BY DEF WordGood, DataHandlers, DataWords
  <2> QED BY <2>1, <2>2, <2>3, Four
<1>22. CASE n = 22
  <2>1. command_list[n] = Command(<<"flush_all">>, "FIXED_PREFIX", "flush_all_handler")
    BY <1>22 DEF command_list
  <2>2. "flush_all" \in Words
    BY DEF Words
  <2>3. WordGood("flush_all", "FIXED_PREFIX", "flush_all_handler")
    BY DEF WordGood, DataHandlers, DataWords
  <2> QED BY <2>1, <2>2, <2>3, One
<1>23. CASE n = 23
  <2>1. command_list[n] = Command(<<"bg", " ">>, "FIXED_PREFIX", "bg_handler")
    BY <1>23 DEF command_list
  <2>2. "bg" \in Words /\ " " \in Words
    BY DEF Words
  <2>3. WordGood("bg", "FIXED_PREFIX", "bg_handler")
    BY DEF WordGood, DataHandlers, DataWords
  <2> QED BY <2>1, <2>2, <2>3, Two
<1> QED BY <1>1, <1>2, <1>3, <1>4, <1>5, <1>6, <1>7, <1>8, <1>9, <1>10, <1>11, <1>12,
           <1>13, <1>14, <1>15, <1>16, <1>17, <1>18, <1>19, <1>20, <1>21, <1>22, <1>23

\* A set of numbers that is not empty has a least one, and Min is that.
LEMMA MinOf == ASSUME NEW S \in SUBSET Nat, S # {} PROVE Min(S) \in S
<1> DEFINE R == {ss \in Nat \X Nat : ss[1] < ss[2]}
<1>1. IsWellFoundedOn(R, Nat)
  BY NatLessThanWellFounded DEF OpToRel
<1> HIDE DEF R
<1>2. PICK x \in S : \A y \in S : ~ <<y, x>> \in R
  BY <1>1, WFMin
<1>3. ASSUME NEW y \in S PROVE x =< y
  <2>1. x \in Nat /\ y \in Nat
    OBVIOUS
  <2>2. y < x => <<y, x>> \in R
    BY <2>1 DEF R
  <2> QED BY <1>2, <2>1, <2>2
<1> QED BY <1>3 DEF Min

\* A pattern that matches a line begins with the first word of the line.
LEMMA MatchHead ==
  ASSUME NEW e, EntryGood(e), NEW text \in Seq(Words), Len(text) > 0, Matches(e, text)
  PROVE  e.cmd[1] = text[1]
<1>1. CASE e.cmd = text
  BY <1>1
<1>2. CASE IsPrefix(e.cmd, text)
  <2>1. e.cmd \in Seq(Words) /\ Len(e.cmd) > 0 /\ Len(e.cmd) <= Len(text)
    BY <1>2 DEF IsPrefix, EntryGood
  <2>2. SubSeq(e.cmd, 1, Len(e.cmd))[1] = e.cmd[1] /\ SubSeq(text, 1, Len(e.cmd))[1] = text[1]
    BY <2>1
  <2> QED BY <1>2, <2>2 DEF IsPrefix
<1> QED BY <1>1, <1>2 DEF Matches

\* A line is the text of an entry, with or without arguments.
LEMMA LineGood ==
  ASSUME NEW line \in Lines
  PROVE  \E n \in DOMAIN command_list :
           LET e == command_list[n]
           IN  /\ line.text = e.cmd \/ line.text = Append(e.cmd, "args")
               /\ line.arg \in ArgsOf(e.handler) \cup {NULL}
  BY DEF Lines, Range

\* The text of a line: its first word is that of its entry, which matches the line
\* if it is a prefix.
LEMMA TextGood ==
  ASSUME NEW line \in Lines, NEW n \in DOMAIN command_list,
         line.text = command_list[n].cmd \/ line.text = Append(command_list[n].cmd, "args")
  PROVE  /\ line.text \in Seq(Words) /\ Len(line.text) > 0
         /\ Head(line.text) = command_list[n].cmd[1] /\ line.text[1] = Head(line.text)
         /\ command_list[n].type = "FIXED_PREFIX" => Matches(command_list[n], line.text)
<1> DEFINE cmd == command_list[n].cmd
<1>1. cmd \in Seq(Words) /\ Len(cmd) > 0
  BY Table DEF EntryGood
<1>2. "args" \in Words
  BY DEF Words
<1> HIDE DEF cmd
<1>3. /\ Append(cmd, "args") \in Seq(Words) /\ Len(Append(cmd, "args")) = Len(cmd) + 1
      /\ Append(cmd, "args")[1] = cmd[1]
  BY <1>1, <1>2
<1>4. SubSeq(Append(cmd, "args"), 1, Len(cmd)) = SubSeq(cmd, 1, Len(cmd))
  BY <1>1, <1>2
<1>5. IsPrefix(cmd, cmd) /\ IsPrefix(cmd, Append(cmd, "args"))
  BY <1>1, <1>3, <1>4 DEF IsPrefix
<1>6. line.text = cmd \/ line.text = Append(cmd, "args")
  BY DEF cmd
<1>7. line.text \in Seq(Words) /\ Len(line.text) > 0 /\ line.text[1] = cmd[1]
  <2>1. CASE line.text = cmd
    BY <1>1, <2>1
  <2>2. CASE line.text = Append(cmd, "args")
    BY <1>1, <1>3, <2>2
  <2> QED BY <1>6, <2>1, <2>2
<1>8. Head(line.text) = line.text[1]
  BY <1>7
<1> QED BY <1>5, <1>6, <1>7, <1>8 DEF cmd, Matches

\* NULL is not the name of a handler.
LEMMA NullNoHandler == NULL \notin DataHandlers \cup {"bg_handler"}
<1>1. DOMAIN command_list = 1 .. 23
  BY DEF command_list
<1>2. /\ command_list[1].handler = "get_handler" /\ command_list[2].handler = "bget_handler"
      /\ command_list[3].handler = "set_handler" /\ command_list[4].handler = "add_handler"
      /\ command_list[5].handler = "replace_handler" /\ command_list[6].handler = "incr_handler"
      /\ command_list[7].handler = "decr_handler" /\ command_list[8].handler = "delete_handler"
      /\ command_list[23].handler = "bg_handler"
  BY DEF command_list, Command
<1>3. \A n \in 1 .. 23 : command_list[n].handler # NULL
  BY <1>1, HandlersAssumption
<1> QED BY <1>2, <1>3 DEF DataHandlers

\* A line whose first word is that of a data command leads to the handler of a
\* data command, bg to its own, and no other line leads there.
THEOREM LineReachesHandler ==
  ASSUME NEW line \in Lines
  PROVE  /\ command_service_run[line.text] \in DataHandlers <=> Head(line.text) \in DataWords
         /\ command_service_run[line.text] = "bg_handler" <=> Head(line.text) = "bg"
         /\ Head(line.text) \in DataWords => command_service_run[line.text] # NULL
<1> DEFINE text == line.text
           matching == {n \in DOMAIN command_list : Matches(command_list[n], text)}
           h == command_service_run[text]
<1>1. PICK n \in DOMAIN command_list :
        text = command_list[n].cmd \/ text = Append(command_list[n].cmd, "args")
  BY LineGood
<1>2. /\ text \in Seq(Words) /\ Len(text) > 0 /\ Head(text) = command_list[n].cmd[1]
      /\ text[1] = Head(text)
      /\ command_list[n].type = "FIXED_PREFIX" => n \in matching
  BY <1>1, TextGood
<1>3. h = IF matching = {} THEN NULL ELSE command_list[Min(matching)].handler
  BY DEF command_service_run
<1>4. matching \subseteq DOMAIN command_list /\ DOMAIN command_list \subseteq Nat
  <2>1. DOMAIN command_list = 1 .. 23
    BY DEF command_list
  <2> QED BY <2>1
<1> HIDE DEF h, text
<1>5. CASE matching # {}
  <2>1. Min(matching) \in matching
    BY <1>4, <1>5, MinOf
  <2> DEFINE e == command_list[Min(matching)]
  <2>2. EntryGood(e) /\ Matches(e, text)
    BY <2>1, Table
  <2>3. e.cmd[1] = text[1]
    BY <1>2, <2>2, MatchHead
  <2>4. h = e.handler /\ h # NULL
    BY <1>3, <1>4, <1>5, <2>1, HandlersAssumption
  <2> HIDE DEF e
  <2> QED BY <1>2, <2>2, <2>3, <2>4 DEF EntryGood, WordGood, text, h
<1>6. CASE matching = {}
  <2>1. h = NULL
    BY <1>3, <1>6
  <2>2. EntryGood(command_list[n])
    BY Table
  <2>3. command_list[n].type # "FIXED_PREFIX"
    BY <1>2, <1>6
  <2>4. Head(text) \notin DataWords /\ Head(text) # "bg"
    BY <1>2, <2>2, <2>3 DEF EntryGood, WordGood
  <2>5. NULL \notin DataHandlers /\ NULL # "bg_handler"
    BY NullNoHandler
  <2> QED BY <2>1, <2>4, <2>5 DEF text, h
<1> QED BY <1>5, <1>6

-----------------------------------------------------------------------------
(* What a handler does to the connection and to the buckets *)

BadFormat == "CLIENT_ERROR bad command line format"

\* Only the structure of the connection that runs changes.
Kept == conn' \in [Structs -> Conn] /\ \A s \in Structs \ {c} : conn'[s] = conn[s]
SameBucket == conn'[c].bucket = This.bucket /\ conn'[c].gen = This.gen
NoOwner(reply) == buckets' = buckets /\ reply \notin {"OWNED", "DISOWNED"}

\* The outcomes of a data command, of bg, and of all other commands.
DataOutcome(reply) ==
  /\ Kept /\ NoOwner(reply)
  /\ \/ reply = BadFormat /\ SameBucket
     \/ /\ reply # BadFormat /\ (reply \in Refusals <=> ~ Admitted)
        /\ conn'[c].bucket = IF managed THEN -1 ELSE This.bucket

Announces(line) == line.arg \in Pair /\ line.arg.bucket \in Buckets /\ line.arg.gen > 0

BgOutcome(line, reply) ==
  /\ Kept /\ NoOwner(reply)
  /\ \/ reply # "none" /\ SameBucket
     \/ /\ managed /\ line.arg \in Pair /\ reply = "none"
        /\ IF Announces(line)
           THEN conn'[c].bucket = line.arg.bucket /\ conn'[c].gen = line.arg.gen
           ELSE SameBucket

OwnOutcome(line, reply) ==
  /\ Kept /\ SameBucket
  /\ \/ NoOwner(reply)
     \/ /\ line.arg \in Pair /\ line.arg.bucket \in Buckets
        /\ \/ reply = "OWNED" /\ buckets' = [buckets EXCEPT ![line.arg.bucket] = line.arg.gen]
           \/ reply = "DISOWNED" /\ buckets' = [buckets EXCEPT ![line.arg.bucket] = 0]

\* Become changes this structure only.
LEMMA BecomeGood ==
  ASSUME TypeOK, c \in Structs, NEW r \in Conn, Become(r)
  PROVE  Kept /\ conn'[c] = r
  BY DEF TypeOK, Become, Kept

\* An answer changes no bucket.
LEMMA AnsweringGood ==
  ASSUME NEW r \in Conn, NEW go \in {"conn_read", "conn_swallow"}
  PROVE  /\ Answering(r, go) \in Conn
         /\ Answering(r, go).bucket = r.bucket /\ Answering(r, go).gen = r.gen
  BY DEF Answering, Conn, States

\* out_string leaves the buckets alone and answers with its string.
LEMMA OutString ==
  ASSUME TypeOK, c \in Structs, NEW reply, NEW str, out_string(reply, str)
  PROVE  Kept /\ SameBucket /\ buckets' = buckets /\ reply = str
<1>1. This \in Conn
  BY DEF TypeOK, This
<1>2. Answering(This, "conn_read") \in Conn /\ Become(Answering(This, "conn_read"))
  BY <1>1, AnsweringGood DEF out_string
<1> QED BY <1>1, <1>2, AnsweringGood, BecomeGood DEF out_string, SameBucket

\* An admitted command uses the bucket up, in a managed instance.
LEMMA UsedGood ==
  ASSUME TypeOK, c \in Structs
  PROVE  /\ This \in Conn /\ Used \in Conn
         /\ Used.bucket = (IF managed THEN -1 ELSE This.bucket)
<1>1. This \in Conn
  BY DEF TypeOK, This
<1> HIDE DEF This
<1> QED BY <1>1 DEF Used, Conn

\* A refusal uses up the bucket, if there was one.
LEMMA RefusedGood ==
  ASSUME TypeOK, c \in Structs, NEW reply, Refused(reply)
  PROVE  DataOutcome(reply)
<1>1. CASE no_bg(reply)
  <2>1. /\ managed /\ This.bucket = -1
        /\ out_string(reply, "CLIENT_ERROR no BG data in managed mode")
    BY <1>1 DEF no_bg
  <2>2. /\ Kept /\ SameBucket /\ buckets' = buckets
        /\ reply = "CLIENT_ERROR no BG data in managed mode"
    BY <2>1, OutString
  <2> QED BY <2>1, <2>2 DEF DataOutcome, NoOwner, Refusals, Admitted, SameBucket, BadFormat
<1>2. CASE not_owner(reply)
  <2> DEFINE r == [This EXCEPT !.bucket = -1]
  <2>1. This \in Conn
    BY UsedGood
  <2>2. r \in Conn /\ r.bucket = -1
    BY <2>1 DEF Conn
  <2>3. /\ managed /\ buckets[This.bucket] # This.gen /\ reply = "ERROR_NOT_OWNER"
        /\ Become(Answering(r, "conn_read")) /\ buckets' = buckets
    BY <1>2 DEF not_owner
  <2> HIDE DEF r
  <2>4. Kept /\ conn'[c].bucket = -1
    BY <2>2, <2>3, AnsweringGood, BecomeGood
  <2> QED BY <2>3, <2>4 DEF DataOutcome, NoOwner, Refusals, Admitted, BadFormat
<1> QED BY <1>1, <1>2 DEF Refused

\* The structure an admitted command leaves behind.
LEMMA AdmittedGood ==
  ASSUME TypeOK, c \in Structs, Admitted, buckets' = buckets,
         NEW r \in Conn, r.bucket = Used.bucket, Become(r),
         NEW reply \in {"values", "none", "answer", "ERROR"}
  PROVE  DataOutcome(reply)
<1>1. Kept /\ conn'[c].bucket = Used.bucket
  BY BecomeGood
<1>2. reply \notin Refusals \cup {"OWNED", "DISOWNED", BadFormat}
  BY DEF Refusals, BadFormat
<1> QED BY <1>1, <1>2, UsedGood DEF DataOutcome, NoOwner

\* An admitted command that is answered with one line.
LEMMA ServedGood ==
  ASSUME TypeOK, c \in Structs, NEW reply, NEW str \in {"answer", "ERROR"}, Served(reply, str)
  PROVE  DataOutcome(reply)
<1>1. Answering(Used, "conn_read") \in Conn /\ Answering(Used, "conn_read").bucket = Used.bucket
  BY UsedGood, AnsweringGood
<1> QED BY <1>1, AdmittedGood DEF Served

\* A line that cannot be read leaves the bucket alone.
LEMMA BadLineGood ==
  ASSUME TypeOK, c \in Structs, NEW line, NEW reply, BadLine(line, reply)
  PROVE  DataOutcome(reply)
<1>1. Kept /\ SameBucket /\ buckets' = buckets /\ reply = BadFormat
  BY OutString DEF BadLine, BadFormat
<1> QED BY <1>1 DEF DataOutcome, NoOwner, BadFormat

\* Each data command either refuses, or is admitted, or could not be read.
LEMMA GetGood ==
  ASSUME TypeOK, c \in Structs, NEW reply, command_get(reply)
  PROVE  DataOutcome(reply)
<1>1. CASE ~ Refused(reply)
  <2> DEFINE r == [Used EXCEPT !.state = "conn_mwrite"]
  <2>1. r \in Conn /\ r.bucket = Used.bucket
    BY UsedGood DEF Conn, States
  <2>2. Admitted /\ reply = "values" /\ Become(r) /\ buckets' = buckets
    BY <1>1 DEF command_get
  <2> HIDE DEF r
  <2> QED BY <2>1, <2>2, AdmittedGood
<1> QED BY <1>1, RefusedGood

\* The same for set, add and replace.
LEMMA ReplaceGood ==
  ASSUME TypeOK, c \in Structs, NEW line, NEW reply, command_replace(line, reply)
  PROVE  DataOutcome(reply)
<1>1. CASE ~ BadLine(line, reply) /\ ~ Refused(reply)
  <2> DEFINE r == [Used EXCEPT !.state = "conn_nread"]
  <2>1. /\ r \in Conn /\ r.bucket = Used.bucket
        /\ Answering(Used, "conn_swallow") \in Conn
        /\ Answering(Used, "conn_swallow").bucket = Used.bucket
    BY UsedGood, AnsweringGood DEF Conn, States
  <2>2. /\ Admitted /\ buckets' = buckets
        /\ \/ reply = "none" /\ Become(r)
           \/ reply = "answer" /\ Become(Answering(Used, "conn_swallow"))
    BY <1>1 DEF command_replace
  <2> HIDE DEF r
  <2> QED BY <2>1, <2>2, AdmittedGood
<1> QED BY <1>1, RefusedGood, BadLineGood

\* The same for incr and decr.
LEMMA VaryGood ==
  ASSUME TypeOK, c \in Structs, NEW line, NEW reply, command_vary_delta(line, reply)
  PROVE  DataOutcome(reply)
  BY RefusedGood, BadLineGood, ServedGood DEF command_vary_delta

\* The same for delete.
LEMMA DeleteGood ==
  ASSUME TypeOK, c \in Structs, NEW line, NEW reply, delete_handler(line, reply)
  PROVE  DataOutcome(reply)
  BY RefusedGood, ServedGood DEF delete_handler

\* What own, disown and bg answer in an instance that is not managed, or to a bad
\* line, is not the silence of an accepted bg.
LEMMA UnmanagedGood ==
  ASSUME TypeOK, c \in Structs, NEW line, NEW reply,
         Unmanaged(reply) \/ BadNumbers(line, reply)
  PROVE  Kept /\ SameBucket /\ NoOwner(reply) /\ reply # "none"
<1>1. \/ out_string(reply, "CLIENT_ERROR not a managed instance")
      \/ out_string(reply, "CLIENT_ERROR bad format")
  BY DEF Unmanaged, BadNumbers
<1>2. /\ Kept /\ SameBucket /\ buckets' = buckets
      /\ reply \in {"CLIENT_ERROR not a managed instance", "CLIENT_ERROR bad format"}
  BY <1>1, OutString
<1> QED BY <1>2 DEF NoOwner

\* bg sets bucket and generation of its connection, and nothing else.
LEMMA BgGood ==
  ASSUME TypeOK, c \in Structs, NEW line, NEW reply, bg_handler(line, reply)
  PROVE  BgOutcome(line, reply)
<1>1. CASE ~ Unmanaged(reply) /\ ~ BadNumbers(line, reply)
  <2> DEFINE r == [This EXCEPT !.bucket = line.arg.bucket, !.gen = line.arg.gen]
  <2>1. managed /\ line.arg \in Pair /\ reply = "none" /\ buckets' = buckets
    BY <1>1 DEF bg_handler
  <2>2. NoOwner(reply)
    BY <2>1 DEF NoOwner
  <2>3. CASE Announces(line)
    <3>1. Become(r)
      BY <1>1, <2>3 DEF bg_handler, Announces
    <3>2. line.arg.gen \in Int
      BY <2>1, CommandsAssumption DEF Pair
    <3>3. r \in Conn /\ r.bucket = line.arg.bucket /\ r.gen = line.arg.gen
      BY <2>3, <3>2, UsedGood DEF Conn, Announces
    <3> HIDE DEF r
    <3> QED BY <2>1, <2>2, <2>3, <3>1, <3>3, BecomeGood DEF BgOutcome
  <2>4. CASE ~ Announces(line)
    <3>1. conn' = conn
      BY <1>1, <2>1, <2>4 DEF bg_handler, Announces
    <3>2. Kept /\ SameBucket
      BY <3>1 DEF TypeOK, Kept, SameBucket, This
    <3> QED BY <2>1, <2>2, <2>4, <3>2 DEF BgOutcome
  <2> QED BY <2>3, <2>4
<1> QED BY <1>1, UnmanagedGood DEF BgOutcome

\* own and disown set a generation, and nothing in the connection.
LEMMA OwnGood ==
  ASSUME TypeOK, c \in Structs, NEW line, NEW reply,
         own_handler(line, reply) \/ disown_handler(line, reply)
  PROVE  OwnOutcome(line, reply)
<1>1. ASSUME NEW gen, NEW str, SetGeneration(line, gen, reply, str),
             (str = "OWNED" /\ gen = line.arg.gen) \/ (str = "DISOWNED" /\ gen = 0)
      PROVE  OwnOutcome(line, reply)
  <2>1. CASE out_string(reply, "CLIENT_ERROR bucket number out of range")
    <3>1. /\ Kept /\ SameBucket /\ buckets' = buckets
          /\ reply = "CLIENT_ERROR bucket number out of range"
      BY <2>1, OutString
    <3> QED BY <3>1 DEF OwnOutcome, NoOwner
  <2>2. CASE ~ out_string(reply, "CLIENT_ERROR bucket number out of range")
    <3>1. /\ line.arg \in Pair /\ line.arg.bucket \in Buckets /\ reply = str
          /\ buckets' = [buckets EXCEPT ![line.arg.bucket] = gen]
          /\ Become(Answering(This, "conn_read"))
      BY <1>1, <2>2 DEF SetGeneration
    <3>2. Kept /\ SameBucket
      BY <3>1, UsedGood, AnsweringGood, BecomeGood DEF SameBucket
    <3> QED BY <1>1, <3>1, <3>2 DEF OwnOutcome
  <2> QED BY <2>1, <2>2
<1>2. CASE Unmanaged(reply) \/ BadNumbers(line, reply)
  BY <1>2, UnmanagedGood DEF OwnOutcome
<1>3. CASE SetGeneration(line, line.arg.gen, reply, "OWNED")
  BY <1>1, <1>3
<1>4. CASE SetGeneration(line, 0, reply, "DISOWNED")
  BY <1>1, <1>4
<1> QED BY <1>2, <1>3, <1>4 DEF own_handler, disown_handler

-----------------------------------------------------------------------------
(* What process_command does, by the first word of the line *)

\* process_command, by the first word of the line.
LEMMA ProcessGood ==
  ASSUME TypeOK, c \in Structs, NEW line \in Lines, NEW reply, process_command(line, reply)
  PROVE  /\ Head(line.text) \in DataWords => DataOutcome(reply)
         /\ Head(line.text) = "bg" => BgOutcome(line, reply)
         /\ Head(line.text) \notin DataWords \cup {"bg"} => OwnOutcome(line, reply)
<1> DEFINE h == command_service_run[line.text]
<1>1. /\ h \in DataHandlers <=> Head(line.text) \in DataWords
      /\ h = "bg_handler" <=> Head(line.text) = "bg"
      /\ Head(line.text) \in DataWords => h # NULL
  BY LineReachesHandler
<1>2. \/ h = NULL /\ out_string(reply, "ERROR")
      \/ h \in {"get_handler", "bget_handler"} /\ command_get(reply)
      \/ /\ h \in {"set_handler", "add_handler", "replace_handler"}
         /\ command_replace(line, reply)
      \/ h \in {"incr_handler", "decr_handler"} /\ command_vary_delta(line, reply)
      \/ h = "delete_handler" /\ delete_handler(line, reply)
      \/ h = "own_handler" /\ own_handler(line, reply)
      \/ h = "disown_handler" /\ disown_handler(line, reply)
      \/ h = "bg_handler" /\ bg_handler(line, reply)
      \/ h \in Answerers /\ out_string(reply, "answer")
      \/ h = "stats_slabs_handler" /\ stats_slabs_handler(reply)
      \/ h = "flush_all_handler" /\ flush_all_handler(line, reply)
      \/ h = "quit_handler" /\ quit_handler(reply)
  BY DEF process_command
<1> HIDE DEF h
<1>3. CASE Head(line.text) \in DataWords
  <2>1. h \in DataHandlers /\ h # NULL
    BY <1>1, <1>3
  <2>2. \/ command_get(reply) \/ command_replace(line, reply)
        \/ command_vary_delta(line, reply) \/ delete_handler(line, reply)
    BY <1>2, <2>1 DEF DataHandlers, Answerers
  <2>3. DataOutcome(reply)
    BY <2>2, GetGood, ReplaceGood, VaryGood, DeleteGood
  <2>4. Head(line.text) # "bg"
    BY <1>3 DEF DataWords
  <2> QED BY <1>3, <2>3, <2>4
<1>4. CASE Head(line.text) = "bg"
  <2>1. h = "bg_handler" /\ h # NULL
    BY <1>1, <1>4, NullNoHandler
  <2>2. bg_handler(line, reply)
    BY <1>2, <2>1 DEF Answerers
  <2>3. BgOutcome(line, reply)
    BY <2>2, BgGood
  <2>4. Head(line.text) \notin DataWords
    BY <1>4 DEF DataWords
  <2> QED BY <1>4, <2>3, <2>4
<1>5. CASE Head(line.text) \notin DataWords \cup {"bg"}
  <2>1. h \notin DataHandlers \cup {"bg_handler"}
    BY <1>1, <1>5
  <2>2. CASE own_handler(line, reply) \/ disown_handler(line, reply)
    BY <2>2, <1>5, OwnGood
  <2>3. CASE \E str \in {"ERROR", "answer"} : out_string(reply, str)
    <3>1. /\ Kept /\ SameBucket /\ buckets' = buckets
          /\ reply \in {"ERROR", "answer"}
      BY <2>3, OutString
    <3> QED BY <1>5, <3>1 DEF OwnOutcome, NoOwner
  <2>4. CASE stats_slabs_handler(reply)
    <3>1. conn' = conn /\ buckets' = buckets /\ reply = "none"
      BY <2>4 DEF stats_slabs_handler
    <3>2. Kept /\ SameBucket
      BY <3>1 DEF TypeOK, Kept, SameBucket, This
    <3> QED BY <1>5, <3>1, <3>2 DEF OwnOutcome, NoOwner
  <2>5. CASE quit_handler(reply)
    <3> DEFINE r == [This EXCEPT !.state = "conn_closing"]
    <3>1. r \in Conn /\ r.bucket = This.bucket /\ r.gen = This.gen
      BY UsedGood DEF Conn, States
    <3>2. reply = "none" /\ Become(r) /\ buckets' = buckets
      BY <2>5 DEF quit_handler
    <3> HIDE DEF r
    <3>3. Kept /\ SameBucket
      BY <3>1, <3>2, BecomeGood DEF SameBucket
    <3> QED BY <1>5, <3>2, <3>3 DEF OwnOutcome, NoOwner
  <2>6. \/ own_handler(line, reply) \/ disown_handler(line, reply)
        \/ \E str \in {"ERROR", "answer"} : out_string(reply, str)
        \/ stats_slabs_handler(reply) \/ quit_handler(reply)
    BY <1>2, <2>1 DEF DataHandlers, flush_all_handler
  <2> QED BY <2>2, <2>3, <2>4, <2>5, <2>6
<1> QED BY <1>3, <1>4, <1>5

-----------------------------------------------------------------------------
(* The inductive invariant *)

\* No two clients have the same structure.
OneClientEach == \A k, l \in Clients : at[k] = at[l] /\ at[k] # NULL => k = l

\* Only a bg of a managed instance, by a client that is still there, is heard.
HeardGood ==
  \A k \in Clients : heard[k] # NULL => managed /\ at[k] # NULL /\ heard[k].bucket \in Buckets

IInv == TypeOK /\ OneClientEach /\ HeardGood /\ BucketAsHeard /\ OnlyOwnersServed

\* It holds at first.
LEMMA CommandsInit ==
  ASSUME Init
  PROVE  IInv
<1>1. NewConn \in Conn
  BY DEF NewConn, Conn, States
<1>2. TypeOK
  BY <1>1, CommandsAssumption DEF Init, TypeOK, Buckets
<1> QED BY <1>2 DEF Init, IInv, OneClientEach, HeardGood, BucketAsHeard, OnlyOwnersServed

\* Before a command, the client of the connection is entitled exactly if the
\* connection is admitted.
LEMMA EntitledIsAdmitted ==
  ASSUME IInv, c \in Structs, NEW k \in Clients, at[k] = c
  PROVE  Entitled(k) <=> Admitted
<1>1. CASE heard[k] = NULL
  <2>1. This.bucket = -1
    BY <1>1, CommandsAssumption DEF IInv, BucketAsHeard, This
  <2> QED BY <1>1, <2>1 DEF Entitled, Admitted
<1>2. CASE heard[k] # NULL
  <2>1. /\ This.bucket = heard[k].bucket /\ This.gen = heard[k].gen /\ owner = buckets
        /\ heard[k].bucket \in Buckets
    BY <1>2, CommandsAssumption DEF IInv, BucketAsHeard, HeardGood, This
  <2>2. This.bucket # -1
    BY <2>1, CommandsAssumption DEF Buckets
  <2> QED BY <1>2, <2>1, <2>2 DEF Entitled, Admitted
<1> QED BY <1>1, <1>2

\* A command line preserves it.
LEMMA CommandStep ==
  ASSUME IInv, try_read_command
  PROVE  IInv'
<1>1. c \in Structs
  BY DEF IInv, TypeOK, try_read_command, Running
<1>2. PICK line \in Lines, reply \in Replies, k \in Clients :
        /\ process_command(line, reply) /\ at[k] = c /\ Conclude(k, line, reply)
        /\ UNCHANGED <<managed, at, c>>
  BY DEF try_read_command
<1> DEFINE word == Head(line.text)
           h == Heard(heard[k], line, reply)
<1>3. /\ heard' = [heard EXCEPT ![k] = h]
      /\ owner' = (CASE reply = "OWNED" -> [owner EXCEPT ![line.arg.bucket] = line.arg.gen]
                     [] reply = "DISOWNED" -> [owner EXCEPT ![line.arg.bucket] = 0]
                     [] OTHER -> owner)
      /\ misjudged' = (misjudged \/ (IsData(line, reply) /\ (reply \in Refusals <=> Entitled(k))))
  BY <1>2 DEF Conclude
<1>4. /\ word \in DataWords => DataOutcome(reply)
      /\ word = "bg" => BgOutcome(line, reply)
      /\ word \notin DataWords \cup {"bg"} => OwnOutcome(line, reply)
  BY <1>1, <1>2, ProcessGood DEF IInv
<1>5. Entitled(k) <=> Admitted
  BY <1>1, <1>2, EntitledIsAdmitted
<1>6. /\ TypeOK /\ OneClientEach /\ HeardGood /\ BucketAsHeard /\ ~ misjudged
      /\ owner = buckets
  BY DEF IInv, OnlyOwnersServed, BucketAsHeard
<1>7. "bg" \notin DataWords
  BY DEF DataWords
<1> HIDE DEF word, h
\* What every kind of command has in common.
<1>8. ASSUME Kept, NEW hk \in Pair \cup {NULL}, heard' = [heard EXCEPT ![k] = hk],
             hk # NULL => managed /\ hk.bucket \in Buckets,
             conn'[c].bucket = IF hk = NULL THEN -1 ELSE hk.bucket,
             hk # NULL => conn'[c].gen = hk.gen,
             buckets' \in [Buckets -> Int], owner' = buckets', owner' \in [Buckets -> Generations],
             ~ misjudged'
      PROVE  IInv'
  <2>1. TypeOK'
    <3>1. heard' \in [Clients -> Pair \cup {NULL}]
      BY <1>6, <1>8 DEF TypeOK
    <3>2. /\ managed' \in BOOLEAN /\ at' \in [Clients -> Structs \cup {NULL}]
          /\ c' \in Structs \cup {NULL} /\ conn' \in [Structs -> Conn]
      BY <1>2, <1>6, <1>8 DEF TypeOK, Kept
    <3>3. misjudged' \in BOOLEAN
      BY <1>3
    <3> QED BY <1>8, <3>1, <3>2, <3>3 DEF TypeOK
  <2>2. OneClientEach'
    BY <1>2, <1>6 DEF OneClientEach
  <2>3. HeardGood'
    BY <1>1, <1>2, <1>6, <1>8, CommandsAssumption DEF HeardGood, TypeOK, Buckets
  <2>4. BucketAsHeard'
    <3> SUFFICES ASSUME NEW l \in Clients, at[l] # NULL
                 PROVE  IF heard'[l] = NULL THEN conn'[at[l]].bucket = -1
                        ELSE /\ conn'[at[l]].bucket = heard'[l].bucket
                             /\ conn'[at[l]].gen = heard'[l].gen
      BY <1>2, <1>8 DEF BucketAsHeard
    <3>1. CASE l = k
      BY <1>2, <1>6, <1>8, <3>1 DEF TypeOK
    <3>2. CASE l # k
      <4>1. at[l] \in Structs \ {c}
        BY <1>1, <1>2, <1>6, <3>2, CommandsAssumption DEF OneClientEach, TypeOK
      <4>2. conn'[at[l]] = conn[at[l]] /\ heard'[l] = heard[l]
        BY <1>6, <1>8, <3>2, <4>1 DEF Kept, TypeOK
      <4> QED BY <1>6, <4>2 DEF BucketAsHeard
    <3> QED BY <3>1, <3>2
  <2> QED BY <1>8, <2>1, <2>2, <2>3, <2>4 DEF IInv, OnlyOwnersServed
\* What held before.
<1>9. /\ heard[k] \in Pair \cup {NULL} /\ heard = [heard EXCEPT ![k] = heard[k]]
      /\ heard[k] # NULL => managed /\ heard[k].bucket \in Buckets
      /\ This.bucket = IF heard[k] = NULL THEN -1 ELSE heard[k].bucket
      /\ heard[k] # NULL => This.gen = heard[k].gen
      /\ buckets \in [Buckets -> Int] /\ owner \in [Buckets -> Generations]
  BY <1>1, <1>2, <1>6, CommandsAssumption DEF TypeOK, HeardGood, BucketAsHeard, This
<1>10. reply \notin {"OWNED", "DISOWNED"} => owner' = owner
  BY <1>3
<1>11. CASE word \in DataWords
  <2>1. DataOutcome(reply)
    BY <1>4, <1>11
  <2>2. owner' = owner /\ buckets' = buckets /\ Kept
    BY <1>10, <2>1 DEF DataOutcome, NoOwner
  <2>3. CASE reply = BadFormat
    <3>1. ~ IsData(line, reply) /\ h = heard[k]
      BY <1>7, <1>11, <2>3 DEF IsData, BadFormat, h, Heard, word
    <3>2. SameBucket
      BY <2>1, <2>3 DEF DataOutcome
    <3> QED BY <1>3, <1>6, <1>8, <1>9, <2>2, <3>1, <3>2 DEF SameBucket
  <2>4. CASE reply # BadFormat
    <3>1. IsData(line, reply) /\ h = NULL
      BY <1>7, <1>11, <2>4 DEF IsData, BadFormat, h, Heard, word
    <3>2. ~ misjudged'
      BY <1>3, <1>5, <1>6, <2>1, <2>4 DEF DataOutcome
    <3>3. conn'[c].bucket = -1
      BY <1>9, <2>1, <2>4 DEF DataOutcome
    <3> QED BY <1>3, <1>6, <1>8, <1>9, <2>2, <3>1, <3>2, <3>3
  <2> QED BY <2>3, <2>4
<1>12. CASE word = "bg"
  <2>1. BgOutcome(line, reply)
    BY <1>4, <1>12
  <2>2. owner' = owner /\ buckets' = buckets /\ Kept
    BY <1>10, <2>1 DEF BgOutcome, NoOwner
  <2>3. ~ IsData(line, reply) /\ ~ misjudged'
    BY <1>3, <1>6, <1>7, <1>12 DEF IsData, word
  <2>4. CASE reply = "none" /\ Announces(line)
    <3>1. h = line.arg
      BY <1>12, <2>4 DEF h, Heard, word, Announces
    <3>2. /\ managed /\ conn'[c].bucket = line.arg.bucket /\ conn'[c].gen = line.arg.gen
      BY <2>1, <2>4 DEF BgOutcome
    <3>3. line.arg \in Pair /\ line.arg.bucket \in Buckets /\ line.arg # NULL
      BY <2>4, CommandsAssumption DEF Announces
    <3> QED BY <1>3, <1>6, <1>8, <1>9, <2>2, <2>3, <3>1, <3>2, <3>3
  <2>5. CASE ~ (reply = "none" /\ Announces(line))
    <3>1. SameBucket /\ (reply = "none" => line.arg \in Pair)
      BY <2>1, <2>5 DEF BgOutcome
    <3>2. h = heard[k]
      BY <1>12, <2>3, <2>5, <3>1 DEF h, Heard, word, Announces
    <3> QED BY <1>3, <1>6, <1>8, <1>9, <2>2, <2>3, <3>1, <3>2 DEF SameBucket
  <2> QED BY <2>4, <2>5
<1>13. CASE word \notin DataWords \cup {"bg"}
  <2>1. OwnOutcome(line, reply)
    BY <1>4, <1>13
  <2>2. ~ IsData(line, reply) /\ ~ misjudged' /\ h = heard[k]
    BY <1>3, <1>6, <1>13 DEF IsData, h, Heard, word
  <2>3. /\ owner' = buckets' /\ buckets' \in [Buckets -> Int]
        /\ owner' \in [Buckets -> Generations]
    <3>1. CASE NoOwner(reply)
      BY <1>6, <1>9, <1>10, <3>1 DEF NoOwner
    <3>2. CASE reply = "OWNED" /\ ~ NoOwner(reply)
      <4>1. /\ line.arg \in Pair /\ line.arg.bucket \in Buckets
            /\ buckets' = [buckets EXCEPT ![line.arg.bucket] = line.arg.gen]
        BY <2>1, <3>2 DEF OwnOutcome
      <4>2. line.arg.gen \in Generations /\ line.arg.gen \in Int
        BY <4>1, CommandsAssumption DEF Pair
      <4>3. owner' = [owner EXCEPT ![line.arg.bucket] = line.arg.gen]
        BY <1>3, <3>2
      <4> QED BY <1>6, <1>9, <4>1, <4>2, <4>3
    <3>3. CASE reply = "DISOWNED" /\ ~ NoOwner(reply)
      <4>1. /\ line.arg.bucket \in Buckets
            /\ buckets' = [buckets EXCEPT ![line.arg.bucket] = 0]
        BY <2>1, <3>3 DEF OwnOutcome
      <4>2. owner' = [owner EXCEPT ![line.arg.bucket] = 0]
        BY <1>3, <3>3
      <4> QED BY <1>6, <1>9, <4>1, <4>2, CommandsAssumption
    <3> QED BY <2>1, <3>1, <3>2, <3>3 DEF OwnOutcome
  <2>4. Kept /\ SameBucket
    BY <2>1 DEF OwnOutcome
  <2> QED BY <1>3, <1>6, <1>8, <1>9, <2>2, <2>3, <2>4 DEF SameBucket
<1> QED BY <1>11, <1>12, <1>13

\* A step that leaves the buckets, the clients and their structures alone, and
\* changes at most the state of the connection that runs.
LEMMA StateStep ==
  ASSUME IInv, c' \in Structs \cup {NULL}, UNCHANGED <<bucketVars, at>>,
         conn' = conn \/ (c \in Structs /\ Kept /\ SameBucket)
  PROVE  IInv'
<1>1. /\ conn' \in [Structs -> Conn]
      /\ \A s \in Structs : conn'[s].bucket = conn[s].bucket /\ conn'[s].gen = conn[s].gen
  BY DEF IInv, TypeOK, Kept, SameBucket, This
<1>2. TypeOK'
  BY <1>1 DEF IInv, TypeOK, bucketVars
<1>3. BucketAsHeard'
  <2>1. BucketAsHeard /\ at \in [Clients -> Structs \cup {NULL}]
    BY DEF IInv, TypeOK
  <2> QED BY <1>1, <2>1 DEF BucketAsHeard, bucketVars
<1>4. OneClientEach' /\ HeardGood' /\ OnlyOwnersServed'
  BY DEF IInv, OneClientEach, HeardGood, OnlyOwnersServed, bucketVars
<1> QED BY <1>2, <1>3, <1>4 DEF IInv

\* So do the other steps of drive_machine,
LEMMA MachineStep ==
  ASSUME IInv, transmit_complete \/ complete_nread \/ swallowed \/ blocked \/ broken
  PROVE  IInv'
<1>1. TypeOK /\ c \in Structs
  BY DEF IInv, TypeOK, transmit_complete, complete_nread, swallowed, blocked, broken, Running
<1>2. This \in Conn
  BY <1>1, UsedGood
<1>3. CASE blocked
  BY <1>3, StateStep DEF blocked
<1>4. ASSUME NEW r \in Conn, Become(r), r.bucket = This.bucket, r.gen = This.gen,
             UNCHANGED <<bucketVars, at, c>>
      PROVE  IInv'
  <2>1. Kept /\ SameBucket
    BY <1>1, <1>4, BecomeGood DEF SameBucket
  <2> QED BY <1>1, <1>4, <2>1, StateStep
<1>5. CASE complete_nread
  BY <1>2, <1>4, <1>5, AnsweringGood DEF complete_nread
<1>6. ASSUME NEW state \in States
      PROVE  LET r == [This EXCEPT !.state = state]
             IN  r \in Conn /\ r.bucket = This.bucket /\ r.gen = This.gen
  BY <1>2 DEF Conn
<1>7. CASE transmit_complete
  <2> DEFINE state == IF This.state = "conn_write" THEN This.write_and_go ELSE "conn_read"
             r == [This EXCEPT !.state = state]
  <2>1. state \in States
    BY <1>2 DEF Conn, States
  <2>2. Become(r) /\ UNCHANGED <<bucketVars, at, c>>
    BY <1>7 DEF transmit_complete
  <2>3. r \in Conn /\ r.bucket = This.bucket /\ r.gen = This.gen
    BY <1>6, <2>1
  <2> HIDE DEF r
  <2> QED BY <1>4, <2>2, <2>3
<1>8. CASE swallowed \/ broken
  <2> DEFINE r(state) == [This EXCEPT !.state = state]
  <2>1. PICK state \in {"conn_read", "conn_closing"} :
          Become(r(state)) /\ UNCHANGED <<bucketVars, at, c>>
    BY <1>8 DEF swallowed, broken
  <2>2. r(state) \in Conn /\ r(state).bucket = This.bucket /\ r(state).gen = This.gen
    BY <1>6 DEF States
  <2> HIDE DEF r
  <2> QED BY <1>4, <2>1, <2>2
<1> QED BY <1>3, <1>5, <1>7, <1>8

\* the end of a connection,
LEMMA CloseStep ==
  ASSUME IInv, conn_close
  PROVE  IInv'
<1>1. c \in Structs /\ TypeOK
  BY DEF IInv, TypeOK, conn_close, Running
<1>2. /\ at' = [k \in Clients |-> IF at[k] = c THEN NULL ELSE at[k]]
      /\ heard' = [k \in Clients |-> IF at[k] = c THEN NULL ELSE heard[k]]
      /\ c' = NULL /\ UNCHANGED <<managed, buckets, owner, misjudged, conn>>
  BY DEF conn_close
<1>3. TypeOK'
  BY <1>1, <1>2 DEF TypeOK
<1>4. OneClientEach' /\ HeardGood'
  BY <1>2 DEF IInv, OneClientEach, HeardGood
<1>5. BucketAsHeard'
  BY <1>2 DEF IInv, BucketAsHeard
<1> QED BY <1>2, <1>3, <1>4, <1>5 DEF IInv, OnlyOwnersServed

\* and a new one.
LEMMA NewStep ==
  ASSUME IInv, NEW k \in Clients, NEW s \in Structs, conn_new(k, s)
  PROVE  IInv'
<1>1. TypeOK /\ NewConn \in Conn /\ s # NULL
  BY CommandsAssumption DEF IInv, NewConn, Conn, States
<1>2. /\ c = NULL /\ at[k] = NULL /\ \A l \in Clients : at[l] # s
      /\ at' = [at EXCEPT ![k] = s] /\ conn' = [conn EXCEPT ![s] = NewConn]
      /\ UNCHANGED <<managed, buckets, heard, owner, misjudged, c>>
  BY <1>1 DEF conn_new, Range, bucketVars, TypeOK
<1>3. TypeOK'
  BY <1>1, <1>2 DEF TypeOK
<1>4. OneClientEach'
  BY <1>1, <1>2 DEF IInv, OneClientEach, TypeOK
<1>5. HeardGood'
  BY <1>1, <1>2 DEF IInv, HeardGood, TypeOK
<1>6. BucketAsHeard'
  <2>1. heard[k] = NULL /\ buckets = owner
    BY <1>2 DEF IInv, HeardGood, BucketAsHeard
  <2> SUFFICES ASSUME NEW l \in Clients, at'[l] # NULL
               PROVE  IF heard[l] = NULL THEN conn'[at'[l]].bucket = -1
                      ELSE /\ conn'[at'[l]].bucket = heard[l].bucket
                           /\ conn'[at'[l]].gen = heard[l].gen
    BY <1>2, <2>1 DEF BucketAsHeard
  <2>2. CASE l = k
    <3>1. conn'[at'[l]] = NewConn
      BY <1>1, <1>2, <2>2 DEF TypeOK
    <3> QED BY <2>1, <2>2, <3>1 DEF NewConn
  <2>3. CASE l # k
    <3>1. at'[l] = at[l] /\ at[l] \in Structs \ {s} /\ conn'[at[l]] = conn[at[l]]
      BY <1>1, <1>2, <2>3 DEF TypeOK
    <3> QED BY <3>1 DEF IInv, BucketAsHeard
  <2> QED BY <2>2, <2>3
<1> QED BY <1>2, <1>3, <1>4, <1>5, <1>6 DEF IInv, OnlyOwnersServed

\* Every step preserves it.
LEMMA CommandsStep ==
  ASSUME IInv, [Next]_vars
  PROVE  IInv'
<1>1. CASE UNCHANGED vars
  BY <1>1, StateStep DEF vars, IInv, TypeOK
<1>2. ASSUME NEW s \in Structs, event_handler(s) PROVE IInv'
  BY <1>2, StateStep DEF event_handler
<1> QED BY <1>1, <1>2, CommandStep, MachineStep, CloseStep, NewStep DEF Next, drive_machine

\* So it is an invariant.
LEMMA CommandsInvariant == Spec => []IInv
<1>1. Init => IInv
  BY CommandsInit
<1>2. IInv /\ [Next]_vars => IInv'
  BY CommandsStep
<1> QED BY <1>1, <1>2, PTL DEF Spec

-----------------------------------------------------------------------------

\* The globals of the commands and the buckets keep their types, for any table
\* of buckets and any numbers clients send: no handler looks at a bucket
\* outside of buckets[] (memcached.c:238, 334, 397, 461).
THEOREM TypeCorrect == Spec => []TypeOK
<1>1. IInv => TypeOK
  BY DEF IInv
<1> QED BY <1>1, CommandsInvariant, PTL

\* The bucket of a connection is what its own client announced last, whoever
\* had the structure before and whatever commands came in between
\* (connection.c:93, memcached.c:830).
THEOREM BucketsHeard == Spec => []BucketAsHeard
<1>1. IInv => BucketAsHeard
  BY DEF IInv
<1> QED BY <1>1, CommandsInvariant, PTL

\* A managed instance does a data command exactly for the generation that was
\* owned last (memcached.c:237, 333, 396, 460).
THEOREM OwnersServed == Spec => []OnlyOwnersServed
<1>1. IInv => OnlyOwnersServed
  BY DEF IInv
<1> QED BY <1>1, CommandsInvariant, PTL

=============================================================================
