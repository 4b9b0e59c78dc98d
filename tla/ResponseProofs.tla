---------------------------- MODULE ResponseProofs ----------------------------
(***************************************************************************)
(* Theorems about Response, for arrays and answers of any size, any limits *)
(* and any failing realloc: the bytes of a response go out once and in     *)
(* order, in messages that sendmsg takes, and the lists stay in their      *)
(* arrays.                                                                 *)
(***************************************************************************)
EXTENDS Response, SequenceTheorems, FiniteSetTheorems, TLAPS

-----------------------------------------------------------------------------
(* Counting entries and bytes *)

\* The pairs of an n of a range and a number up to size[n], and how many there are.
Pairs(a, b, size) == UNION {{n} \X (1 .. size[n]) : n \in a .. b}
Count(a, b, size) == Cardinality(Pairs(a, b, size))

\* They are finitely many.
LEMMA PairsFinite ==
  ASSUME NEW a \in Int, NEW b \in Int, NEW size, \A n \in a .. b : size[n] \in Nat
  PROVE  IsFiniteSet(Pairs(a, b, size))
<1> DEFINE B(n) == {n} \X (1 .. size[n])
           f == [n \in a .. b |-> B(n)]
<1>1. IsFiniteSet(a .. b)
  BY FS_Interval
<1>2. ASSUME NEW n \in a .. b
      PROVE  IsFiniteSet(B(n))
  <2>1. IsFiniteSet(1 .. size[n])
    BY FS_Interval
  <2>2. QED
    BY <2>1, FS_Singleton, FS_Product
<1>3. IsFiniteSet({B(n) : n \in a .. b})
  <2>1. f \in Surjection(a .. b, {B(n) : n \in a .. b})
    BY DEF Surjection
  <2>2. QED
    BY <1>1, <2>1, FS_Surjection
<1>4. \A T \in {B(n) : n \in a .. b} : IsFiniteSet(T)
  BY <1>2
<1>5. QED
  BY <1>3, <1>4, FS_UNION DEF Pairs

\* It is a number, and 0 for no n.
LEMMA CountType ==
  ASSUME NEW a \in Int, NEW b \in Int, NEW size, \A n \in a .. b : size[n] \in Nat
  PROVE  /\ IsFiniteSet(Pairs(a, b, size)) /\ Count(a, b, size) \in Nat
         /\ a > b => Count(a, b, size) = 0
<1>1. IsFiniteSet(Pairs(a, b, size))
  BY PairsFinite
<1>2. Count(a, b, size) \in Nat
  BY <1>1, FS_CardinalityType DEF Count
<1>3. ASSUME a > b
      PROVE  Count(a, b, size) = 0
  <2>1. a .. b = {}
    BY <1>3
  <2>2. Pairs(a, b, size) = {}
    BY <2>1 DEF Pairs
  <2>3. QED
    BY <2>2, FS_EmptySet DEF Count
<1>4. QED
  BY <1>1, <1>2, <1>3

\* It depends on the sizes only.
LEMMA CountSame ==
  ASSUME NEW a \in Int, NEW b \in Int, NEW size, NEW other,
         \A n \in a .. b : size[n] = other[n]
  PROVE  Count(a, b, size) = Count(a, b, other)
<1>1. Pairs(a, b, size) = Pairs(a, b, other)
  BY DEF Pairs
<1>2. QED
  BY <1>1 DEF Count

\* A single n has size[n] pairs.
LEMMA CountOne ==
  ASSUME NEW a \in Int, NEW size, size[a] \in Nat
  PROVE  /\ IsFiniteSet({a} \X (1 .. size[a]))
         /\ Cardinality({a} \X (1 .. size[a])) = size[a]
<1>1. IsFiniteSet(1 .. size[a]) /\ Cardinality(1 .. size[a]) = size[a]
  <2>1. \A m, n \in Int : IsFiniteSet(m .. n) /\ Cardinality(m .. n) = IF m > n THEN 0 ELSE n - m + 1
    BY FS_Interval
  <2>2. ASSUME NEW k \in Nat
        PROVE  IsFiniteSet(1 .. k) /\ Cardinality(1 .. k) = k
    <3>1. 1 \in Int /\ k \in Int /\ (1 > k => k = 0) /\ k - 1 + 1 = k
      OBVIOUS
    <3>2. Cardinality(1 .. k) = IF 1 > k THEN 0 ELSE k - 1 + 1
      BY <2>1, <3>1
    <3>3. QED
      BY <2>1, <3>1, <3>2
  <2>3. QED
    BY <2>2
<1>2. IsFiniteSet({a}) /\ Cardinality({a}) = 1
  BY FS_Singleton
<1>3. /\ IsFiniteSet({a} \X (1 .. size[a]))
      /\ Cardinality({a} \X (1 .. size[a])) = Cardinality({a}) * Cardinality(1 .. size[a])
  BY <1>1, <1>2, FS_Product
<1>4. QED
  BY <1>1, <1>2, <1>3

\* Counting goes on where it stopped.
LEMMA CountSplit ==
  ASSUME NEW a \in Int, NEW b \in Int, NEW c \in Int, a <= c, c <= b + 1, NEW size,
         \A n \in a .. b : size[n] \in Nat
  PROVE  Count(a, b, size) = Count(a, c - 1, size) + Count(c, b, size)
<1> DEFINE P == Pairs(a, c - 1, size)
           Q == Pairs(c, b, size)
<1>1. a .. b = (a .. c - 1) \cup (c .. b)
  OBVIOUS
<1>2. Pairs(a, b, size) = P \cup Q
  BY <1>1 DEF Pairs
<1>3. P \cap Q = {}
  <2>1. \A p \in P : p[1] < c
    BY DEF Pairs
  <2>2. \A p \in Q : p[1] >= c
    BY DEF Pairs
  <2>3. \A p \in P : p[1] \in Int
    BY DEF Pairs
  <2> HIDE DEF P, Q
  <2>4. QED
    BY <2>1, <2>2, <2>3
<1>4. IsFiniteSet(P) /\ IsFiniteSet(Q)
  BY CountType
<1>5. Cardinality(P \cup Q) = Cardinality(P) + Cardinality(Q) - Cardinality(P \cap Q)
  <2> HIDE DEF P, Q
  <2> QED
    BY <1>4, FS_Union
<1>6. Cardinality(P) \in Nat /\ Cardinality(Q) \in Nat /\ Cardinality(P \cap Q) = 0
  BY <1>3, <1>4, FS_CardinalityType, FS_EmptySet
<1>7. QED
  BY <1>2, <1>5, <1>6 DEF Count

\* So it grows with b, by size[b], and shrinks with a, by size[a].
LEMMA CountStep ==
  ASSUME NEW a \in Int, NEW b \in Int, a <= b, NEW size, \A n \in a .. b : size[n] \in Nat
  PROVE  /\ Count(a, b, size) = Count(a, b - 1, size) + size[b]
         /\ Count(a, b, size) = size[a] + Count(a + 1, b, size)
<1>1. ASSUME NEW n \in a .. b
      PROVE  Count(n, n, size) = size[n]
  <2>1. n .. n = {n}
    OBVIOUS
  <2>2. Pairs(n, n, size) = {n} \X (1 .. size[n])
    BY <2>1 DEF Pairs
  <2>3. n \in Int /\ size[n] \in Nat
    OBVIOUS
  <2>4. Cardinality({n} \X (1 .. size[n])) = size[n]
    BY <2>3, CountOne
  <2>5. QED
    BY <2>2, <2>4 DEF Count
<1>2. Count(a, b, size) = Count(a, b - 1, size) + Count(b, b, size)
  BY CountSplit
<1>3. Count(a, b, size) = Count(a, (a + 1) - 1, size) + Count(a + 1, b, size)
  BY CountSplit
<1>4. (a + 1) - 1 = a
  OBVIOUS
<1>5. QED
  BY <1>1, <1>2, <1>3, <1>4

-----------------------------------------------------------------------------
(* What is counted in the lists *)

\* The sizes of the messages and of the entries of lists r.
LenOfMessages(r) == [j \in DOMAIN r.msglist |-> r.msglist[j].msg_iovlen]
LenOfEntries(r) == [n \in DOMAIN r.iov |-> r.iov[n].iov_len]

\* A message's entries are all in iov.
Within(r, m) == m.msg_iov >= 1 /\ m.msg_iov + m.msg_iovlen <= Len(r.iov) + 1

\* The fields of lists, of one of their entries and of one of their messages.
LEMMA ListsTypes ==
  ASSUME NEW r \in Lists
  PROVE  /\ r.iov \in Seq(Entry) /\ Len(r.iov) \in Nat
         /\ r.msglist \in Seq(Message) /\ Len(r.msglist) \in Nat
         /\ r.iovsize \in Nat /\ r.msgsize \in Nat /\ r.msgcurr \in Nat \ {0}
         /\ r.msgbytes \in Nat /\ r.added \in Nat /\ r.sent \in Nat /\ r.oom \in BOOLEAN
         /\ \A n \in 1 .. Len(r.iov) :
              r.iov[n] \in Entry /\ r.iov[n].iov_base \in Nat /\ r.iov[n].iov_len \in Nat
         /\ \A j \in 1 .. Len(r.msglist) :
              /\ r.msglist[j] \in Message
              /\ r.msglist[j].msg_iov \in Nat \ {0} /\ r.msglist[j].msg_iovlen \in Nat
<1>1. r.iov \in Seq(Entry) /\ r.msglist \in Seq(Message)
  BY DEF Lists
<1>2. /\ \A n \in 1 .. Len(r.iov) : r.iov[n] \in Entry
      /\ \A j \in 1 .. Len(r.msglist) : r.msglist[j] \in Message
  BY <1>1
<1>3. \A e \in Entry : e.iov_base \in Nat /\ e.iov_len \in Nat
  BY DEF Entry
<1>4. \A m \in Message : m.msg_iov \in Nat \ {0} /\ m.msg_iovlen \in Nat
  BY DEF Message
<1>5. Len(r.iov) \in Nat /\ Len(r.msglist) \in Nat
  BY <1>1
<1>6. /\ r.iovsize \in Nat /\ r.msgsize \in Nat /\ r.msgcurr \in Nat \ {0}
      /\ r.msgbytes \in Nat /\ r.added \in Nat /\ r.sent \in Nat /\ r.oom \in BOOLEAN
  BY DEF Lists
<1>7. QED
  BY <1>1, <1>2, <1>3, <1>4, <1>5, <1>6

\* Before and NumBytes are such counts.
LEMMA BeforeIsCount ==
  ASSUME NEW r \in Lists, NEW i \in Nat, i <= Len(r.msglist) + 1
  PROVE  Before(r, i) = Count(1, i - 1, LenOfMessages(r))
<1>1. \A j \in 1 .. i - 1 : LenOfMessages(r)[j] = r.msglist[j].msg_iovlen
  BY ListsTypes DEF LenOfMessages
<1>2. Pairs(1, i - 1, LenOfMessages(r)) = UNION {{j} \X (1 .. r.msglist[j].msg_iovlen) : j \in 1 .. i - 1}
  BY <1>1 DEF Pairs
<1>3. QED
  BY <1>2 DEF Count, Before

LEMMA NumBytesIsCount ==
  ASSUME NEW r \in Lists, NEW m \in Message, Within(r, m)
  PROVE  NumBytes(r, m) = Count(m.msg_iov, m.msg_iov + m.msg_iovlen - 1, LenOfEntries(r))
<1> DEFINE a == m.msg_iov
           b == m.msg_iov + m.msg_iovlen - 1
<1>1. \A n \in a .. b : n \in 1 .. Len(r.iov)
  BY ListsTypes DEF Within, Message
<1>2. \A n \in a .. b : LenOfEntries(r)[n] = r.iov[n].iov_len
  BY <1>1, ListsTypes DEF LenOfEntries
<1>3. Pairs(a, b, LenOfEntries(r)) = Bytes(r, m)
  BY <1>2 DEF Pairs, Bytes
<1>4. QED
  BY <1>3 DEF Count, NumBytes

\* The entries before a message, from message to message.
LEMMA BeforeNext ==
  ASSUME NEW r \in Lists
  PROVE  /\ Before(r, 1) = 0
         /\ \A i \in 1 .. Len(r.msglist) + 1 : Before(r, i) \in Nat
         /\ \A i \in 1 .. Len(r.msglist) : Before(r, i + 1) = Before(r, i) + r.msglist[i].msg_iovlen
<1> DEFINE size == LenOfMessages(r)
<1>1. \A j \in 1 .. Len(r.msglist) : size[j] = r.msglist[j].msg_iovlen /\ size[j] \in Nat
  BY ListsTypes DEF LenOfMessages
<1>2. ASSUME NEW i \in 1 .. Len(r.msglist) + 1
      PROVE  Before(r, i) = Count(1, i - 1, size) /\ Before(r, i) \in Nat
  <2>1. i \in Nat /\ i <= Len(r.msglist) + 1 /\ i - 1 \in Int
    BY ListsTypes
  <2>2. Before(r, i) = Count(1, i - 1, size)
    BY <2>1, BeforeIsCount
  <2>3. \A j \in 1 .. i - 1 : size[j] \in Nat
    BY <1>1, <2>1, ListsTypes
  <2> HIDE DEF size
  <2>4. Count(1, i - 1, size) \in Nat
    BY <2>1, <2>3, CountType
  <2>5. QED
    BY <2>2, <2>4
<1>3. Before(r, 1) = 0
  <2>1. 1 \in 1 .. Len(r.msglist) + 1
    BY ListsTypes
  <2>2. Before(r, 1) = Count(1, 0, size)
    BY <1>2, <2>1
  <2>3. \A j \in 1 .. 0 : size[j] \in Nat
    OBVIOUS
  <2> HIDE DEF size
  <2>4. Count(1, 0, size) = 0
    BY <2>3, CountType
  <2>5. QED
    BY <2>2, <2>4
<1>4. ASSUME NEW i \in 1 .. Len(r.msglist)
      PROVE  Before(r, i + 1) = Before(r, i) + r.msglist[i].msg_iovlen
  <2>1. /\ i \in 1 .. Len(r.msglist) + 1 /\ i + 1 \in 1 .. Len(r.msglist) + 1
        /\ i \in Int /\ 1 <= i /\ (i + 1) - 1 = i
    BY ListsTypes
  <2>2. Before(r, i) = Count(1, i - 1, size) /\ Before(r, i + 1) = Count(1, i, size)
    BY <1>2, <2>1
  <2>3. \A j \in 1 .. i : size[j] \in Nat
    BY <1>1, ListsTypes
  <2>4. size[i] = r.msglist[i].msg_iovlen
    BY <1>1
  <2> HIDE DEF size
  <2>5. Count(1, i, size) = Count(1, i - 1, size) + size[i]
    BY <2>1, <2>3, CountStep
  <2>6. QED
    BY <2>2, <2>4, <2>5
<1>5. QED
  BY <1>2, <1>3, <1>4

\* Lists with the same sizes have as many entries before a message.
LEMMA BeforeSame ==
  ASSUME NEW r \in Lists, NEW t \in Lists, NEW i \in Nat \ {0},
         i <= Len(r.msglist) + 1, i <= Len(t.msglist) + 1,
         \A j \in 1 .. i - 1 : t.msglist[j].msg_iovlen = r.msglist[j].msg_iovlen
  PROVE  Before(t, i) = Before(r, i)
<1>1. /\ Before(r, i) = Count(1, i - 1, LenOfMessages(r))
      /\ Before(t, i) = Count(1, i - 1, LenOfMessages(t))
  BY BeforeIsCount
<1>2. \A j \in 1 .. i - 1 : j \in DOMAIN r.msglist /\ j \in DOMAIN t.msglist
  BY ListsTypes
<1>3. \A j \in 1 .. i - 1 : LenOfMessages(t)[j] = LenOfMessages(r)[j]
  BY <1>2 DEF LenOfMessages
<1>4. Count(1, i - 1, LenOfMessages(t)) = Count(1, i - 1, LenOfMessages(r))
  BY <1>3, CountSame
<1>5. QED
  BY <1>1, <1>4

\* A message's entries are before every later message.
LEMMA BeforeGrows ==
  ASSUME NEW r \in Lists, NEW i \in 1 .. Len(r.msglist), NEW k \in 1 .. Len(r.msglist) + 1, i < k
  PROVE  Before(r, i) + r.msglist[i].msg_iovlen <= Before(r, k)
<1> DEFINE size == LenOfMessages(r)
<1>1. \A j \in 1 .. Len(r.msglist) : size[j] = r.msglist[j].msg_iovlen /\ size[j] \in Nat
  BY ListsTypes DEF LenOfMessages
<1>2. /\ i + 1 \in Nat /\ k \in Nat /\ i + 1 <= Len(r.msglist) + 1 /\ k <= Len(r.msglist) + 1
      /\ i \in Int /\ k - 1 \in Int /\ (i + 1) - 1 = i /\ 1 <= i + 1 /\ i + 1 <= (k - 1) + 1
  BY ListsTypes
<1>3. Before(r, i + 1) = Count(1, i, size) /\ Before(r, k) = Count(1, k - 1, size)
  BY <1>2, BeforeIsCount
<1>4. \A j \in 1 .. k - 1 : size[j] \in Nat
  BY <1>1, ListsTypes
<1> HIDE DEF size
<1>5. Count(1, k - 1, size) = Count(1, i, size) + Count(i + 1, k - 1, size)
  BY <1>2, <1>4, CountSplit
<1>6. \A j \in i + 1 .. k - 1 : size[j] \in Nat
  BY <1>1, ListsTypes
<1>7. Count(i + 1, k - 1, size) \in Nat
  BY <1>2, <1>6, CountType
<1>8. \A j \in 1 .. i : size[j] \in Nat
  BY <1>1, ListsTypes
<1>9. Count(1, i, size) \in Nat
  BY <1>2, <1>8, CountType
<1>10. Before(r, i + 1) = Before(r, i) + r.msglist[i].msg_iovlen
  BY BeforeNext
<1>11. QED
  BY <1>3, <1>5, <1>7, <1>9, <1>10

\* The sizes of the entries of a message.
LEMMA EntrySizes ==
  ASSUME NEW r \in Lists, NEW m \in Message, Within(r, m)
  PROVE  /\ m.msg_iov \in Nat \ {0} /\ m.msg_iovlen \in Nat
         /\ \A n \in m.msg_iov .. m.msg_iov + m.msg_iovlen - 1 :
              /\ n \in 1 .. Len(r.iov) /\ LenOfEntries(r)[n] = r.iov[n].iov_len
              /\ LenOfEntries(r)[n] \in Nat
<1>1. m.msg_iov \in Nat \ {0} /\ m.msg_iovlen \in Nat
  BY DEF Message
<1>2. \A n \in m.msg_iov .. m.msg_iov + m.msg_iovlen - 1 : n \in 1 .. Len(r.iov)
  BY <1>1, ListsTypes DEF Within
<1>3. \A n \in 1 .. Len(r.iov) : LenOfEntries(r)[n] = r.iov[n].iov_len /\ r.iov[n].iov_len \in Nat
  BY ListsTypes DEF LenOfEntries
<1>4. QED
  BY <1>1, <1>2, <1>3

\* The bytes of a message are a number, and none without entries.
LEMMA NumBytesType ==
  ASSUME NEW r \in Lists, NEW m \in Message, Within(r, m)
  PROVE  NumBytes(r, m) \in Nat /\ (m.msg_iovlen = 0 => NumBytes(r, m) = 0)
<1> DEFINE a == m.msg_iov
           b == m.msg_iov + m.msg_iovlen - 1
<1>1. NumBytes(r, m) = Count(a, b, LenOfEntries(r))
  BY NumBytesIsCount
<1>2. \A n \in a .. b : LenOfEntries(r)[n] \in Nat
  BY EntrySizes
<1>3. a \in Int /\ b \in Int /\ (m.msg_iovlen = 0 => a > b)
  BY EntrySizes
<1> HIDE DEF a, b
<1>4. Count(a, b, LenOfEntries(r)) \in Nat /\ (a > b => Count(a, b, LenOfEntries(r)) = 0)
  BY <1>2, <1>3, CountType
<1>5. QED
  BY <1>1, <1>3, <1>4

\* A message without its first entry, and without its last.
Rest(m) == [msg_iov |-> m.msg_iov + 1, msg_iovlen |-> m.msg_iovlen - 1]
Most(m) == [msg_iov |-> m.msg_iov, msg_iovlen |-> m.msg_iovlen - 1]

\* The bytes of a message are those of its first entry and of its rest, or of its
\* last entry and what is before it.
LEMMA NumBytesStep ==
  ASSUME NEW r \in Lists, NEW m \in Message, Within(r, m), m.msg_iovlen > 0
  PROVE  /\ Rest(m) \in Message /\ Within(r, Rest(m))
         /\ NumBytes(r, m) = r.iov[m.msg_iov].iov_len + NumBytes(r, Rest(m))
         /\ Most(m) \in Message /\ Within(r, Most(m))
         /\ NumBytes(r, m) = NumBytes(r, Most(m)) + r.iov[m.msg_iov + m.msg_iovlen - 1].iov_len
<1> DEFINE a == m.msg_iov
           b == m.msg_iov + m.msg_iovlen - 1
           size == LenOfEntries(r)
<1>1. /\ m.msg_iov \in Nat \ {0} /\ m.msg_iovlen \in Nat
      /\ a \in a .. b /\ b \in a .. b
  BY EntrySizes
<1>2. Rest(m) \in Message /\ Within(r, Rest(m))
  BY <1>1, ListsTypes DEF Rest, Message, Within
<1>3. Most(m) \in Message /\ Within(r, Most(m))
  BY <1>1, ListsTypes DEF Most, Message, Within
<1>4. /\ NumBytes(r, m) = Count(a, b, size)
      /\ NumBytes(r, Rest(m)) = Count(a + 1, b, size)
      /\ NumBytes(r, Most(m)) = Count(a, b - 1, size)
  <2>1. NumBytes(r, m) = Count(a, b, size)
    BY NumBytesIsCount
  <2>2. /\ NumBytes(r, Rest(m)) = Count(Rest(m).msg_iov, Rest(m).msg_iov + Rest(m).msg_iovlen - 1, size)
        /\ NumBytes(r, Most(m)) = Count(Most(m).msg_iov, Most(m).msg_iov + Most(m).msg_iovlen - 1, size)
    BY <1>2, <1>3, NumBytesIsCount
  <2>3. /\ Rest(m).msg_iov = a + 1 /\ Rest(m).msg_iov + Rest(m).msg_iovlen - 1 = b
        /\ Most(m).msg_iov = a /\ Most(m).msg_iov + Most(m).msg_iovlen - 1 = b - 1
    BY <1>1 DEF Rest, Most
  <2>4. QED
    BY <2>1, <2>2, <2>3
<1>5. \A n \in a .. b : size[n] \in Nat
  BY EntrySizes
<1>6. size[a] = r.iov[a].iov_len /\ size[b] = r.iov[b].iov_len
  BY <1>1, EntrySizes
<1>7. a \in Int /\ b \in Int /\ a <= b
  BY <1>1
<1> HIDE DEF size, a, b
<1>8. /\ Count(a, b, size) = Count(a, b - 1, size) + size[b]
      /\ Count(a, b, size) = size[a] + Count(a + 1, b, size)
  BY <1>5, <1>7, CountStep
<1>9. QED
  BY <1>2, <1>3, <1>4, <1>6, <1>8 DEF a, b

\* The bytes of a message depend on the sizes of its entries only.
LEMMA NumBytesSame ==
  ASSUME NEW r \in Lists, NEW t \in Lists, NEW m \in Message, Within(r, m), Within(t, m),
         \A n \in m.msg_iov .. m.msg_iov + m.msg_iovlen - 1 : t.iov[n].iov_len = r.iov[n].iov_len
  PROVE  NumBytes(t, m) = NumBytes(r, m)
BY DEF NumBytes, Bytes

-----------------------------------------------------------------------------
(* The inductive invariant *)

\* The last message, and its number.
L(r) == Len(r.msglist)
LastMsg(r) == r.msglist[Len(r.msglist)]

\* Every message has its entries inside iov, before those of the next ones; what
\* is before the current message has been sent; an array has a size.
Good(r) ==
  /\ r.iovsize > 0 /\ r.msgsize > 0
  /\ \A k \in 1 .. L(r) : Within(r, r.msglist[k])
  /\ \A i, k \in 1 .. L(r) : i < k =>
       r.msglist[i].msg_iov + r.msglist[i].msg_iovlen <= r.msglist[k].msg_iov
  /\ r.msgcurr <= L(r) + 1
  /\ \A k \in 1 .. L(r) : k < r.msgcurr => r.msglist[k].msg_iovlen = 0

\* ResponseExact and MessagesSendable, of lists r.
Exact(r) == MessagesFollow(r, r.msgcurr) /\ EntriesFollow(r, First(r), r.sent + 1)
Small(r) ==
  /\ \A m \in 1 .. L(r) : r.msglist[m].msg_iovlen <= IOV_MAX
  /\ L(r) > 0 => NumBytes(r, r.msglist[1]) <= UDP_MAX_PAYLOAD_SIZE
Filled(r, last) == \A m \in 1 .. last : m > r.msgcurr => NumBytes(r, r.msglist[m]) > 0
Sendable(r) == ~ r.oom => Small(r) /\ Filled(r, L(r))

\* Lists that a response is added to: the messages start where ensure_iov_space
\* would put them, take all of iov, and fit into the arrays; msgbytes is what is in
\* the last message.
Placed(r) ==
  /\ \A k \in 1 .. L(r) : r.msglist[k].msg_iov = Before(r, k) + 1
  /\ Before(r, L(r) + 1) = Len(r.iov)
Fits(r) == Len(r.iov) <= r.iovsize /\ L(r) <= r.msgsize
Frame(r) ==
  /\ r \in Lists /\ L(r) > 0 /\ r.msgcurr = 1 /\ r.sent = 0
  /\ r.iovsize > 0 /\ r.msgsize > 0 /\ Fits(r)
  /\ Placed(r) /\ EntriesFollow(r, 1, 1)
  /\ r.msgbytes = NumBytes(r, LastMsg(r))
  /\ L(r) = 1 => r.msgbytes <= UDP_MAX_PAYLOAD_SIZE
Building(r) == Frame(r) /\ Sendable(r)

\* In such lists each message has its entries behind those of the one before it.
LEMMA PlacedOrder ==
  ASSUME NEW r \in Lists, Placed(r)
  PROVE  /\ \A k \in 1 .. L(r) : Within(r, r.msglist[k])
         /\ \A i, k \in 1 .. L(r) : i < k =>
              r.msglist[i].msg_iov + r.msglist[i].msg_iovlen <= r.msglist[k].msg_iov
         /\ MessagesFollow(r, 1)
<1>1. ASSUME NEW k \in 1 .. L(r)
      PROVE  /\ r.msglist[k].msg_iov = Before(r, k) + 1 /\ r.msglist[k].msg_iovlen \in Nat
             /\ Before(r, k) \in Nat
             /\ Before(r, k + 1) = Before(r, k) + r.msglist[k].msg_iovlen
  BY ListsTypes, BeforeNext DEF Placed, L
<1>2. ASSUME NEW i \in 1 .. L(r), NEW k \in 1 .. L(r) + 1, i < k
      PROVE  Before(r, i) + r.msglist[i].msg_iovlen <= Before(r, k)
  BY <1>2, BeforeGrows DEF L
<1>3. /\ L(r) + 1 \in 1 .. L(r) + 1 /\ L(r) \in Nat /\ Before(r, L(r) + 1) = Len(r.iov)
      /\ \A k \in 1 .. L(r) : k \in 1 .. L(r) + 1 /\ k < L(r) + 1 /\ (k # L(r) => k + 1 \in 1 .. L(r))
  BY ListsTypes DEF L, Placed
<1>4. ASSUME NEW k \in 1 .. L(r)
      PROVE  Within(r, r.msglist[k])
  <2>1. Before(r, k) + r.msglist[k].msg_iovlen <= Len(r.iov)
    BY <1>2, <1>3
  <2>2. /\ r.msglist[k].msg_iov = Before(r, k) + 1 /\ r.msglist[k].msg_iovlen \in Nat
        /\ Before(r, k) \in Nat /\ Len(r.iov) \in Nat
    BY <1>1, ListsTypes
  <2>3. /\ r.msglist[k].msg_iov >= 1
        /\ r.msglist[k].msg_iov + r.msglist[k].msg_iovlen <= Len(r.iov) + 1
    BY <2>1, <2>2
  <2>4. QED
    BY <2>3 DEF Within
<1>5. ASSUME NEW i \in 1 .. L(r), NEW k \in 1 .. L(r), i < k
      PROVE  r.msglist[i].msg_iov + r.msglist[i].msg_iovlen <= r.msglist[k].msg_iov
  <2>1. Before(r, i) + r.msglist[i].msg_iovlen <= Before(r, k)
    BY <1>2, <1>3, <1>5
  <2>2. QED
    BY <1>1, <2>1
<1>6. MessagesFollow(r, 1)
  <2> SUFFICES ASSUME NEW k \in 1 .. L(r)
               PROVE  r.msglist[k].msg_iov + r.msglist[k].msg_iovlen =
                        IF k = L(r) THEN Len(r.iov) + 1 ELSE r.msglist[k + 1].msg_iov
    BY DEF MessagesFollow, L
  <2>1. r.msglist[k].msg_iov + r.msglist[k].msg_iovlen = Before(r, k + 1) + 1
    BY <1>1
  <2>2. CASE k = L(r)
    BY <1>3, <2>1, <2>2
  <2>3. CASE k # L(r)
    BY <1>1, <1>3, <2>1, <2>3
  <2>4. QED
    BY <2>2, <2>3
<1>7. QED
  BY <1>4, <1>5, <1>6

\* Lists that a response is added to are good, and exact.
LEMMA FrameGood ==
  ASSUME NEW r, Frame(r)
  PROVE  Good(r) /\ Exact(r) /\ First(r) = 1
<1>1. r \in Lists /\ L(r) > 0 /\ r.msgcurr = 1 /\ r.sent = 0 /\ L(r) \in Nat
  BY ListsTypes DEF Frame, L
<1>2. Good(r)
  BY <1>1, PlacedOrder DEF Frame, Good
<1>3. First(r) = 1
  <2>1. First(r) = r.msglist[1].msg_iov
    BY <1>1 DEF First, L
  <2>2. r.msglist[1].msg_iov = Before(r, 1) + 1
    BY <1>1 DEF Frame, Placed
  <2>3. QED
    BY <1>1, <2>1, <2>2, BeforeNext
<1>4. Exact(r)
  BY <1>1, <1>3, PlacedOrder DEF Frame, Exact
<1>5. QED
  BY <1>2, <1>3, <1>4

\* What the loop of ensure_iov_space gives the messages is what they had.
LEMMA MovedSame ==
  ASSUME NEW r \in Lists, Placed(r)
  PROVE  moved(r) = r
<1>1. ASSUME NEW k \in 1 .. L(r)
      PROVE  [r.msglist[k] EXCEPT !.msg_iov = Before(r, k) + 1] = r.msglist[k]
  <2>1. r.msglist[k] \in Message
    BY ListsTypes DEF L
  <2>2. r.msglist[k].msg_iov = Before(r, k) + 1
    BY DEF Placed
  <2>3. QED
    BY <2>1, <2>2 DEF Message
<1>2. [k \in DOMAIN r.msglist |-> [r.msglist[k] EXCEPT !.msg_iov = Before(r, k) + 1]] = r.msglist
  <2> PICK q \in Seq(Message) : q = r.msglist
    BY ListsTypes
  <2>1. q = [k \in 1 .. Len(q) |-> q[k]] /\ DOMAIN q = 1 .. Len(q)
    OBVIOUS
  <2>2. [k \in 1 .. Len(q) |-> [q[k] EXCEPT !.msg_iov = Before(r, k) + 1]] = [k \in 1 .. Len(q) |-> q[k]]
    BY <1>1 DEF L
  <2>3. QED
    BY <2>1, <2>2
<1>3. QED
  BY <1>2 DEF moved, Lists

-----------------------------------------------------------------------------
(* Adding to a response *)

\* Other sizes of the arrays, if they are large enough, and a failed realloc.
LEMMA FrameSizes ==
  ASSUME NEW r, Frame(r), NEW t \in Lists,
         t.iov = r.iov, t.msglist = r.msglist, t.msgcurr = r.msgcurr, t.sent = r.sent,
         t.added = r.added, t.msgbytes = r.msgbytes,
         t.iovsize >= r.iovsize, t.msgsize >= r.msgsize
  PROVE  Frame(t)
<1>1. Len(r.iov) <= r.iovsize /\ Len(r.msglist) <= r.msgsize
  BY DEF Frame, Fits, L
<1>2. t.iovsize > 0 /\ t.msgsize > 0 /\ Fits(t)
  <2>1. /\ r.iovsize \in Nat /\ r.msgsize \in Nat /\ t.iovsize \in Nat /\ t.msgsize \in Nat
        /\ Len(r.iov) \in Nat /\ Len(r.msglist) \in Nat /\ r.iovsize > 0 /\ r.msgsize > 0
    BY ListsTypes DEF Frame
  <2>2. QED
    BY <1>1, <2>1 DEF Fits, L
<1>3. \A k : Before(t, k) = Before(r, k)
  BY DEF Before
<1>4. Placed(t)
  BY <1>3 DEF Frame, Placed, L
<1>5. EntriesFollow(t, 1, 1)
  BY DEF Frame, EntriesFollow, EndOf
<1>6. NumBytes(t, LastMsg(t)) = NumBytes(r, LastMsg(r))
  BY DEF NumBytes, Bytes, LastMsg
<1>7. QED
  BY <1>2, <1>4, <1>5, <1>6 DEF Frame, L

\* ensure_iov_space makes room and changes no message, or fails.
LEMMA EnsureIovSpace ==
  ASSUME NEW r, Frame(r), NEW o \in ensure_iov_space(r)
  PROVE  /\ Frame(o.lists) /\ o.failed \in BOOLEAN
         /\ o.lists.msglist = r.msglist /\ o.lists.iov = r.iov /\ o.lists.msgbytes = r.msgbytes
         /\ IF o.failed THEN o.lists.oom
            ELSE o.lists.oom = r.oom /\ Len(o.lists.iov) < o.lists.iovsize
<1>1. r \in Lists /\ r.iovsize \in Nat /\ Len(r.iov) \in Nat /\ r.iovsize > 0 /\ Len(r.iov) <= r.iovsize
  BY ListsTypes DEF Frame, Fits
<1>2. CASE HasIovSpace(r)
  <2>1. o = [lists |-> r, failed |-> FALSE]
    BY <1>2 DEF ensure_iov_space
  <2>2. Len(r.iov) < r.iovsize
    BY <1>2 DEF HasIovSpace
  <2>3. QED
    BY <2>1, <2>2
<1>3. CASE ~ HasIovSpace(r) /\ ~ o.failed
  <2> PICK v \in Nat : v = 2 * r.iovsize
    BY <1>1
  <2> DEFINE t == [r EXCEPT !.iovsize = v]
  <2>1. o = [lists |-> moved(t), failed |-> FALSE]
    BY <1>3 DEF ensure_iov_space
  <2>2. /\ t \in Lists /\ t.iov = r.iov /\ t.msglist = r.msglist /\ t.msgcurr = r.msgcurr
        /\ t.sent = r.sent /\ t.added = r.added /\ t.msgbytes = r.msgbytes /\ t.oom = r.oom
        /\ t.iovsize = v /\ t.msgsize = r.msgsize
    BY <1>1 DEF Lists
  <2>3. t.iovsize >= r.iovsize /\ t.msgsize >= r.msgsize /\ Len(t.iov) < t.iovsize
    <3>1. r.msgsize \in Nat
      BY <1>1, ListsTypes
    <3>2. QED
      BY <1>1, <2>2, <3>1
  <2> HIDE DEF t
  <2>4. Frame(t)
    BY <2>2, <2>3, FrameSizes
  <2>5. moved(t) = t
    BY <2>2, <2>4, MovedSame DEF Frame
  <2>6. QED
    BY <2>1, <2>2, <2>3, <2>4, <2>5
<1>4. CASE ~ HasIovSpace(r) /\ o.failed
  <2> DEFINE t == [r EXCEPT !.oom = TRUE]
  <2>1. o = [lists |-> t, failed |-> TRUE]
    BY <1>4 DEF ensure_iov_space
  <2>2. /\ t \in Lists /\ t.iov = r.iov /\ t.msglist = r.msglist /\ t.msgcurr = r.msgcurr
        /\ t.sent = r.sent /\ t.added = r.added /\ t.msgbytes = r.msgbytes /\ t.oom
        /\ t.iovsize = r.iovsize /\ t.msgsize = r.msgsize
    BY <1>1 DEF Lists
  <2>3. t.iovsize >= r.iovsize /\ t.msgsize >= r.msgsize
    BY <1>1, <2>2, ListsTypes
  <2> HIDE DEF t
  <2>4. Frame(t)
    BY <2>2, <2>3, FrameSizes
  <2>5. QED
    BY <2>1, <2>2, <2>4
<1>5. QED
  BY <1>2, <1>3, <1>4

\* add_msghdr starts an empty message behind iov, or fails.
LEMMA AddMsghdr ==
  ASSUME NEW r, Frame(r), NEW s \in add_msghdr(r)
  PROVE  /\ Frame(s) /\ s.iov = r.iov
         /\ \/ s.oom /\ s.msglist = r.msglist /\ s.msgbytes = r.msgbytes
            \/ /\ s.oom = r.oom /\ s.msgbytes = 0
               /\ s.msglist = Append(r.msglist, [msg_iov |-> Len(r.iov) + 1, msg_iovlen |-> 0])
<1>1. r \in Lists
  BY DEF Frame
<1>2. CASE s = [r EXCEPT !.oom = TRUE]
  <2>1. /\ s \in Lists /\ s.iov = r.iov /\ s.msglist = r.msglist /\ s.msgcurr = r.msgcurr
        /\ s.sent = r.sent /\ s.added = r.added /\ s.msgbytes = r.msgbytes /\ s.oom
        /\ s.iovsize = r.iovsize /\ s.msgsize = r.msgsize
    BY <1>1, <1>2 DEF Lists
  <2>2. s.iovsize >= r.iovsize /\ s.msgsize >= r.msgsize
    BY <1>1, <2>1, ListsTypes
  <2>3. QED
    BY <2>1, <2>2, FrameSizes
<1>3. CASE s # [r EXCEPT !.oom = TRUE]
  <2> DEFINE m == [msg_iov |-> Len(r.iov) + 1, msg_iovlen |-> 0]
             size == IF Len(r.msglist) = r.msgsize THEN 2 * r.msgsize ELSE r.msgsize
  <2>1. s = [r EXCEPT !.msglist = Append(@, m), !.msgsize = size, !.msgbytes = 0]
    BY <1>3 DEF add_msghdr
  <2>2. /\ r.msglist \in Seq(Message) /\ r.msgsize \in Nat /\ Len(r.iov) \in Nat
        /\ Len(r.msglist) \in Nat
    BY <1>1, ListsTypes
  <2>3. m \in Message /\ size \in Nat
    BY <2>2 DEF Message
  <2>4. Append(r.msglist, m) \in Seq(Message)
    BY <2>2, <2>3
  <2>5. /\ s \in Lists /\ s.iov = r.iov /\ s.msglist = Append(r.msglist, m) /\ s.msgcurr = r.msgcurr
        /\ s.sent = r.sent /\ s.added = r.added /\ s.msgbytes = 0 /\ s.oom = r.oom
        /\ s.iovsize = r.iovsize /\ s.msgsize = size
    <3> HIDE DEF m, size
    <3> QED
      BY <1>1, <2>1, <2>3, <2>4 DEF Lists
  <2>6. /\ L(s) = L(r) + 1 /\ LastMsg(s) = m /\ L(r) \in Nat /\ L(r) > 0
        /\ \A k \in 1 .. L(r) : s.msglist[k] = r.msglist[k]
    BY <2>2, <2>5 DEF L, LastMsg, Frame
  <2>7. Before(s, L(s)) = Len(r.iov) /\ \A k \in 1 .. L(s) : Before(s, k) = Before(r, k)
    <3>1. ASSUME NEW k \in 1 .. L(s)
          PROVE  Before(s, k) = Before(r, k)
      <4>1. k \in Nat \ {0} /\ k <= Len(r.msglist) + 1 /\ k <= Len(s.msglist) + 1
        BY <2>6 DEF L
      <4>2. \A j \in 1 .. k - 1 : s.msglist[j].msg_iovlen = r.msglist[j].msg_iovlen
        BY <2>6
      <4>3. QED
        BY <1>1, <2>5, <4>1, <4>2, BeforeSame
    <3>2. Before(r, L(r) + 1) = Len(r.iov)
      BY DEF Frame, Placed
    <3>3. QED
      BY <2>6, <3>1, <3>2
  <2>8. Placed(s)
    <3>1. ASSUME NEW k \in 1 .. L(s)
          PROVE  s.msglist[k].msg_iov = Before(s, k) + 1
      <4>1. CASE k \in 1 .. L(r)
        BY <2>6, <2>7, <4>1 DEF Frame, Placed
      <4>2. CASE k = L(s)
        BY <2>5, <2>6, <2>7, <4>2 DEF LastMsg, L
      <4>3. QED
        BY <2>6, <4>1, <4>2
    <3>2. L(s) \in 1 .. Len(s.msglist)
      BY <2>6 DEF L
    <3>3. Before(s, L(s) + 1) = Before(s, L(s)) + s.msglist[L(s)].msg_iovlen
      BY <2>5, <3>2, BeforeNext
    <3>4. s.msglist[L(s)].msg_iovlen = 0
      BY <2>6 DEF LastMsg, L
    <3>5. Before(s, L(s) + 1) = Len(r.iov)
      BY <2>2, <2>7, <3>3, <3>4
    <3>6. QED
      BY <2>5, <3>1, <3>5 DEF Placed
  <2>9. NumBytes(s, LastMsg(s)) = 0
    <3>1. Within(s, m)
      BY <2>2, <2>5 DEF Within
    <3>2. NumBytes(s, m) = 0
      BY <2>3, <2>5, <3>1, NumBytesType
    <3>3. QED
      BY <2>6, <3>2
  <2>10. EntriesFollow(s, 1, 1)
    BY <2>5 DEF Frame, EntriesFollow, EndOf
  <2>11. s.iovsize > 0 /\ s.msgsize > 0 /\ Fits(s)
    <3>1. /\ r.iovsize > 0 /\ r.msgsize > 0 /\ Len(r.iov) <= r.iovsize
          /\ Len(r.msglist) <= r.msgsize
      BY DEF Frame, Fits, L
    <3>2. size > 0 /\ L(r) + 1 <= size
      BY <2>2, <3>1 DEF L
    <3>3. QED
      BY <2>5, <2>6, <3>1, <3>2 DEF Fits
  <2>12. L(s) > 0 /\ L(s) # 1
    BY <2>6
  <2>13. Frame(s)
    BY <2>5, <2>8, <2>9, <2>10, <2>11, <2>12 DEF Frame
  <2>14. QED
    BY <2>5, <2>13
<1>4. QED
  BY <1>2, <1>3

\* A message keeps its bytes when entries are added behind it.
LEMMA NumBytesAppend ==
  ASSUME NEW r \in Lists, NEW t \in Lists, NEW e, t.iov = Append(r.iov, e),
         NEW m \in Message, Within(r, m)
  PROVE  Within(t, m) /\ NumBytes(t, m) = NumBytes(r, m)
<1>1. /\ Len(t.iov) = Len(r.iov) + 1 /\ Len(r.iov) \in Nat
      /\ \A n \in 1 .. Len(r.iov) : t.iov[n] = r.iov[n]
  BY ListsTypes
<1>2. /\ m.msg_iov \in Nat \ {0} /\ m.msg_iovlen \in Nat
      /\ m.msg_iov + m.msg_iovlen <= Len(r.iov) + 1
  BY DEF Message, Within
<1>3. Within(t, m)
  BY <1>1, <1>2 DEF Within
<1>4. \A n \in m.msg_iov .. m.msg_iov + m.msg_iovlen - 1 : t.iov[n].iov_len = r.iov[n].iov_len
  BY <1>1, <1>2
<1>5. QED
  BY <1>3, <1>4, NumBytesSame

\* The lists with another entry.
LEMMA WithEntryFields ==
  ASSUME NEW s \in Lists, L(s) > 0, NEW n \in Nat, NEW t, t = WithEntry(s, n)
  PROVE  /\ t \in Lists
         /\ t.iov = Append(s.iov, [iov_base |-> s.added + 1, iov_len |-> n])
         /\ L(t) = L(s) /\ \A k \in 1 .. L(s) : k # L(s) => t.msglist[k] = s.msglist[k]
         /\ LastMsg(t) = [msg_iov |-> LastMsg(s).msg_iov, msg_iovlen |-> LastMsg(s).msg_iovlen + 1]
         /\ LastMsg(t) \in Message
         /\ t.iovsize = s.iovsize /\ t.msgsize = s.msgsize /\ t.msgcurr = s.msgcurr
         /\ t.sent = s.sent /\ t.oom = s.oom
         /\ t.msgbytes = s.msgbytes + n /\ t.added = s.added + n
<1> PICK q \in Seq(Message) : q = s.msglist
  BY ListsTypes
<1> PICK e : e = [iov_base |-> s.added + 1, iov_len |-> n]
  OBVIOUS
<1> PICK b, a : b = s.msgbytes + n /\ a = s.added + n
  OBVIOUS
<1> PICK m : m = [msg_iov |-> LastMsg(s).msg_iov, msg_iovlen |-> LastMsg(s).msg_iovlen + 1]
  OBVIOUS
<1>1. s.added \in Nat /\ s.msgbytes \in Nat /\ s.iov \in Seq(Entry) /\ Len(q) \in 1 .. Len(q)
  BY ListsTypes DEF L
<1>2. b \in Nat /\ a \in Nat /\ e \in Entry
  BY <1>1 DEF Entry
<1>3. LastMsg(s) \in Message /\ LastMsg(s) = q[Len(q)]
  BY <1>1 DEF LastMsg
<1>4. m \in Message
  BY <1>3 DEF Message
<1>5. [q[Len(q)] EXCEPT !.msg_iovlen = @ + 1] = m
  <2> PICK c \in Message : c = LastMsg(s)
    BY <1>3
  <2>1. [c EXCEPT !.msg_iovlen = @ + 1] = [msg_iov |-> c.msg_iov, msg_iovlen |-> c.msg_iovlen + 1]
    BY DEF Message
  <2>2. QED
    BY <1>3, <2>1
<1>6. t = [s EXCEPT !.iov = Append(@, e), !.msglist = [q EXCEPT ![Len(q)] = m], !.msgbytes = b, !.added = a]
  BY <1>5 DEF WithEntry, Lists
<1>7. [q EXCEPT ![Len(q)] = m] \in Seq(Message) /\ Append(s.iov, e) \in Seq(Entry)
  BY <1>1, <1>2, <1>4, ExceptSeq
<1>8. /\ t \in Lists /\ t.iov = Append(s.iov, e) /\ t.msglist = [q EXCEPT ![Len(q)] = m]
      /\ t.iovsize = s.iovsize /\ t.msgsize = s.msgsize /\ t.msgcurr = s.msgcurr
      /\ t.sent = s.sent /\ t.oom = s.oom /\ t.msgbytes = b /\ t.added = a
  BY <1>2, <1>6, <1>7 DEF Lists
<1>9. /\ Len(t.msglist) = Len(q) /\ \A k \in 1 .. Len(q) : t.msglist[k] = IF k = Len(q) THEN m ELSE q[k]
  BY <1>1, <1>4, <1>8, ExceptSeq
<1>10. QED
  BY <1>1, <1>4, <1>8, <1>9 DEF L, LastMsg

\* WithEntry adds an entry and its bytes to the last message.
LEMMA WithEntryFrame ==
  ASSUME NEW s, Frame(s), Len(s.iov) < s.iovsize, NEW n \in Nat,
         L(s) = 1 => s.msgbytes + n <= UDP_MAX_PAYLOAD_SIZE,
         NEW t, t = WithEntry(s, n)
  PROVE  /\ Frame(t) /\ L(t) = L(s) /\ t.oom = s.oom
         /\ LastMsg(t).msg_iovlen = LastMsg(s).msg_iovlen + 1
         /\ NumBytes(t, LastMsg(t)) = s.msgbytes + n
         /\ \A k \in 1 .. L(s) : k # L(s) =>
              t.msglist[k] = s.msglist[k] /\ NumBytes(t, t.msglist[k]) = NumBytes(s, s.msglist[k])
<1> PICK e : e = [iov_base |-> s.added + 1, iov_len |-> n]
  OBVIOUS
<1> PICK last : last = L(s)
  OBVIOUS
<1>1. s \in Lists /\ L(s) > 0 /\ Placed(s) /\ Good(s)
  BY FrameGood DEF Frame
<1>2. /\ t \in Lists /\ t.iov = Append(s.iov, e)
      /\ L(t) = last /\ \A k \in 1 .. last : k # last => t.msglist[k] = s.msglist[k]
      /\ LastMsg(t) = [msg_iov |-> LastMsg(s).msg_iov, msg_iovlen |-> LastMsg(s).msg_iovlen + 1]
      /\ LastMsg(t) \in Message
      /\ t.iovsize = s.iovsize /\ t.msgsize = s.msgsize /\ t.msgcurr = s.msgcurr
      /\ t.sent = s.sent /\ t.oom = s.oom
      /\ t.msgbytes = s.msgbytes + n /\ t.added = s.added + n
  BY <1>1, WithEntryFields
<1>3. /\ last \in Nat /\ last > 0 /\ s.iov \in Seq(Entry) /\ Len(s.iov) \in Nat /\ s.added \in Nat
      /\ s.msgbytes \in Nat /\ s.iovsize \in Nat
      /\ LastMsg(s) = s.msglist[last] /\ LastMsg(t) = t.msglist[last] /\ last \in 1 .. last
  <2>1. L(t) = last /\ L(s) = last /\ last > 0
    BY <1>1, <1>2
  <2>2. LastMsg(s) = s.msglist[last] /\ LastMsg(t) = t.msglist[last]
    BY <2>1 DEF L, LastMsg
  <2>3. /\ last \in Nat /\ s.iov \in Seq(Entry) /\ Len(s.iov) \in Nat /\ s.added \in Nat
        /\ s.msgbytes \in Nat /\ s.iovsize \in Nat
    BY <1>1, <2>1, ListsTypes DEF L
  <2>4. last \in 1 .. last
    BY <2>1, <2>3
  <2>5. QED
    BY <2>1, <2>2, <2>3, <2>4
<1>4. LastMsg(s) \in Message /\ Within(s, LastMsg(s))
  BY <1>1, <1>3, ListsTypes DEF Good, L
<1>5. /\ Len(t.iov) = Len(s.iov) + 1 /\ t.iov[Len(s.iov) + 1] = e
      /\ \A k \in 1 .. Len(s.iov) : t.iov[k] = s.iov[k]
  BY <1>2, <1>3
<1>6. LastMsg(s).msg_iov + LastMsg(s).msg_iovlen = Len(s.iov) + 1
  <2>1. MessagesFollow(s, 1)
    BY <1>1, PlacedOrder
  <2>2. QED
    BY <1>3, <2>1 DEF MessagesFollow, L
<1>7. \A k \in 1 .. last : Before(t, k) = Before(s, k)
  <2> SUFFICES ASSUME NEW k \in 1 .. last
               PROVE  Before(t, k) = Before(s, k)
    OBVIOUS
  <2>1. k \in Nat \ {0} /\ k <= Len(s.msglist) + 1 /\ k <= Len(t.msglist) + 1
    BY <1>2, <1>3 DEF L
  <2>2. last \in Nat
    BY <1>3
  <2>3. \A j \in 1 .. k - 1 : j \in 1 .. last /\ j # last
    BY <2>2
  <2>4. \A j \in 1 .. k - 1 : t.msglist[j].msg_iovlen = s.msglist[j].msg_iovlen
    BY <1>2, <2>3
  <2>5. QED
    BY <1>1, <1>2, <2>1, <2>4, BeforeSame
<1>8. Placed(t)
  <2>1. ASSUME NEW k \in 1 .. last
        PROVE  t.msglist[k].msg_iov = Before(t, k) + 1
    <3>1. t.msglist[k].msg_iov = s.msglist[k].msg_iov
      <4>1. CASE k = last
        <5>1. t.msglist[k] = LastMsg(t) /\ s.msglist[k] = LastMsg(s)
          BY <1>3, <4>1
        <5>2. LastMsg(t).msg_iov = LastMsg(s).msg_iov
          BY <1>2
        <5>3. QED
          BY <5>1, <5>2
      <4>2. CASE k # last
        <5>1. t.msglist[k] = s.msglist[k]
          BY <1>2, <4>2
        <5>2. QED
          BY <5>1
      <4>3. QED
        BY <4>1, <4>2
    <3>2. s.msglist[k].msg_iov = Before(s, k) + 1
      BY <1>1 DEF Placed
    <3>3. Before(t, k) = Before(s, k)
      BY <1>7
    <3>4. QED
      BY <3>1, <3>2, <3>3
  <2>2. Before(t, last + 1) = Before(t, last) + LastMsg(t).msg_iovlen
    <3>1. t \in Lists /\ Len(t.msglist) = last /\ last \in 1 .. last
      BY <1>2, <1>3 DEF L
    <3>2. Before(t, last + 1) = Before(t, last) + t.msglist[last].msg_iovlen
      BY <3>1, BeforeNext
    <3>3. QED
      BY <1>3, <3>2
  <2>3. Before(t, last) + 1 = LastMsg(t).msg_iov
    BY <1>3, <2>1
  <2>4. /\ LastMsg(t).msg_iov + LastMsg(t).msg_iovlen = Len(s.iov) + 2
        /\ LastMsg(t).msg_iov \in Nat /\ LastMsg(t).msg_iovlen \in Nat
    <3>1. LastMsg(s).msg_iov \in Nat /\ LastMsg(s).msg_iovlen \in Nat
      BY <1>4 DEF Message
    <3>2. /\ LastMsg(t).msg_iov = LastMsg(s).msg_iov
          /\ LastMsg(t).msg_iovlen = LastMsg(s).msg_iovlen + 1
      BY <1>2
    <3>3. Len(s.iov) \in Nat
      BY <1>3
    <3>4. \A x, y, z \in Nat : x + y = z + 1 => x + (y + 1) = z + 2 /\ y + 1 \in Nat
      OBVIOUS
    <3>5. LastMsg(s).msg_iov + LastMsg(s).msg_iovlen = Len(s.iov) + 1
      BY <1>6
    <3>6. /\ LastMsg(s).msg_iov + (LastMsg(s).msg_iovlen + 1) = Len(s.iov) + 2
          /\ LastMsg(s).msg_iovlen + 1 \in Nat
      BY <3>1, <3>3, <3>4, <3>5
    <3>7. QED
      BY <3>1, <3>2, <3>6
  <2>5. Before(t, last) \in Nat
    BY <1>2, <1>3, BeforeNext DEF L
  <2>6. Before(t, last + 1) = Len(t.iov)
    <3>1. Len(t.iov) = Len(s.iov) + 1 /\ Len(s.iov) \in Nat
      BY <1>3, <1>5
    <3>2. QED
      BY <2>2, <2>3, <2>4, <2>5, <3>1
  <2>7. QED
    BY <1>2, <2>1, <2>6 DEF Placed
<1>9. EntriesFollow(t, 1, 1)
  <2>1. /\ \A k \in 1 .. Len(s.iov) : s.iov[k].iov_base = IF k = 1 THEN 1 ELSE EndOf(s, k - 1)
        /\ s.added + 1 = IF 1 > Len(s.iov) THEN 1 ELSE EndOf(s, Len(s.iov))
    BY DEF Frame, EntriesFollow
  <2>2. \A k \in 1 .. Len(s.iov) : EndOf(t, k) = EndOf(s, k)
    BY <1>5 DEF EndOf
  <2>3. e.iov_base = s.added + 1 /\ EndOf(t, Len(t.iov)) = s.added + 1 + n
    BY <1>3, <1>5 DEF EndOf
  <2>4. ASSUME NEW k \in 1 .. Len(t.iov)
        PROVE  t.iov[k].iov_base = IF k = 1 THEN 1 ELSE EndOf(t, k - 1)
    <3>1. CASE k \in 1 .. Len(s.iov)
      <4>1. k # 1 => k - 1 \in 1 .. Len(s.iov)
        BY <1>3, <3>1
      <4>2. QED
        BY <1>5, <2>1, <2>2, <3>1, <4>1
    <3>2. CASE k = Len(s.iov) + 1
      <4>1. /\ k = 1 => 1 > Len(s.iov)
            /\ k # 1 => ~ (1 > Len(s.iov)) /\ k - 1 = Len(s.iov) /\ k - 1 \in 1 .. Len(s.iov)
        BY <1>3, <3>2
      <4>2. t.iov[k].iov_base = s.added + 1
        BY <1>5, <2>3, <3>2
      <4>3. QED
        BY <2>1, <2>2, <4>1, <4>2
    <3>3. QED
      BY <1>3, <1>5, <3>1, <3>2
  <2>5. t.added + 1 = EndOf(t, Len(t.iov)) /\ ~ (1 > Len(t.iov))
    BY <1>2, <1>3, <1>5, <2>3
  <2>6. QED
    BY <2>4, <2>5 DEF EntriesFollow
<1>10. NumBytes(t, LastMsg(t)) = s.msgbytes + n
  <2> PICK m \in Message : m = LastMsg(t)
    BY <1>2
  <2>1. /\ m.msg_iov = LastMsg(s).msg_iov /\ m.msg_iovlen = LastMsg(s).msg_iovlen + 1
        /\ m.msg_iov \in Nat \ {0} /\ LastMsg(s).msg_iovlen \in Nat
        /\ LastMsg(s) = [msg_iov |-> LastMsg(s).msg_iov, msg_iovlen |-> LastMsg(s).msg_iovlen]
    BY <1>2, <1>4 DEF Message
  <2>2. Most(m) = LastMsg(s)
    BY <2>1 DEF Most
  <2>3. /\ m.msg_iovlen > 0 /\ m.msg_iov + m.msg_iovlen - 1 = Len(s.iov) + 1
        /\ m.msg_iov >= 1 /\ m.msg_iov + m.msg_iovlen <= Len(t.iov) + 1
    <3>1. Len(t.iov) = Len(s.iov) + 1 /\ Len(s.iov) \in Nat
      BY <1>3, <1>5
    <3>2. QED
      BY <1>6, <2>1, <3>1
  <2>4. Within(t, m)
    BY <2>3 DEF Within
  <2>5. NumBytes(t, m) = NumBytes(t, Most(m)) + t.iov[Len(s.iov) + 1].iov_len
    BY <1>2, <2>3, <2>4, NumBytesStep
  <2>6. NumBytes(t, LastMsg(s)) = NumBytes(s, LastMsg(s))
    <3>1. s \in Lists /\ t \in Lists /\ t.iov = Append(s.iov, e)
      BY <1>1, <1>2
    <3>2. \A x \in Message : Within(s, x) => NumBytes(t, x) = NumBytes(s, x)
      BY <3>1, NumBytesAppend
    <3>3. QED
      BY <1>4, <3>2
  <2>7. NumBytes(s, LastMsg(s)) = s.msgbytes
    BY DEF Frame
  <2>8. t.iov[Len(s.iov) + 1].iov_len = n
    BY <1>5
  <2>9. QED
    BY <2>2, <2>5, <2>6, <2>7, <2>8
<1>11. ASSUME NEW k \in 1 .. last, k # last
       PROVE  t.msglist[k] = s.msglist[k] /\ NumBytes(t, t.msglist[k]) = NumBytes(s, s.msglist[k])
  <2>1. s.msglist[k] \in Message /\ Within(s, s.msglist[k])
    BY <1>1, ListsTypes DEF Good, L
  <2>2. t.msglist[k] = s.msglist[k]
    BY <1>2, <1>11
  <2>3. NumBytes(t, s.msglist[k]) = NumBytes(s, s.msglist[k])
    <3> PICK m \in Message : m = s.msglist[k]
      BY <2>1
    <3>1. Within(s, m) /\ s \in Lists /\ t \in Lists /\ t.iov = Append(s.iov, e)
      BY <1>1, <1>2, <2>1
    <3>2. NumBytes(t, m) = NumBytes(s, m)
      BY <3>1, NumBytesAppend
    <3>3. QED
      BY <3>2
  <2>4. QED
    BY <2>2, <2>3
<1>12. Fits(t)
  <2>1. Len(t.iov) <= t.iovsize
    BY <1>2, <1>3, <1>5
  <2>2. QED
    BY <1>2, <2>1 DEF Frame, Fits
<1>13. L(t) = 1 => t.msgbytes <= UDP_MAX_PAYLOAD_SIZE
  BY <1>2
<1>14. Frame(t)
  BY <1>2, <1>3, <1>8, <1>9, <1>10, <1>12, <1>13 DEF Frame
<1>15. QED
  BY <1>2, <1>10, <1>11, <1>14

\* Constants are numbers.
LEMMA ConstantTypes ==
  /\ IOV_MAX \in Nat \ {0} /\ UDP_MAX_PAYLOAD_SIZE \in Nat \ {0}
  /\ IOV_LIST_INITIAL \in Nat \ {0} /\ MSG_LIST_INITIAL \in Nat \ {0}
  /\ \A n \in DataLens : n \in Nat \ {0}
BY ResponseAssumption

\* The bytes of the messages depend on iov only.
LEMMA NumBytesOfIov ==
  ASSUME NEW r, NEW t, t.iov = r.iov
  PROVE  \A m : NumBytes(t, m) = NumBytes(r, m)
BY DEF NumBytes, Bytes

\* The last message can take an entry, and, if it is the first, some bytes.
Room(r, first) ==
  ~ r.oom =>
    /\ Small(r) /\ Filled(r, L(r) - 1)
    /\ LastMsg(r).msg_iovlen < IOV_MAX
    /\ first => r.msgbytes < UDP_MAX_PAYLOAD_SIZE

\* The message that add_iov is about to add to.
LEMMA MessageReady ==
  ASSUME NEW r, Building(r), NEW s \in IF Full(r) THEN add_msghdr(r) ELSE {r}
  PROVE  /\ Frame(s) /\ Room(s, L(r) = 1)
         /\ L(r) = 1 => s.msgbytes <= UDP_MAX_PAYLOAD_SIZE
         /\ L(s) = 1 => L(r) = 1
<1>1. /\ r \in Lists /\ L(r) \in Nat /\ L(r) > 0 /\ r.msgcurr = 1 /\ Frame(r) /\ Sendable(r)
      /\ r.msglist \in Seq(Message) /\ Len(r.msglist) = L(r) /\ Len(r.iov) \in Nat
      /\ L(r) = 1 => r.msgbytes <= UDP_MAX_PAYLOAD_SIZE
  BY ListsTypes DEF Building, Frame, L
<1>2. L(r) \in 1 .. L(r) /\ LastMsg(r) = r.msglist[L(r)] /\ LastMsg(r) = Last(r.msglist)
  BY <1>1 DEF LastMsg, L, Last
<1>3. CASE ~ Full(r)
  <2>1. s = r
    BY <1>3
  <2>2. /\ LastMsg(r).msg_iovlen # IOV_MAX
        /\ L(r) = 1 => ~ (r.msgbytes >= UDP_MAX_PAYLOAD_SIZE)
    BY <1>2, <1>3 DEF Full, L
  <2>3. ASSUME ~ r.oom
        PROVE  /\ Small(r) /\ Filled(r, L(r) - 1)
               /\ LastMsg(r).msg_iovlen < IOV_MAX
               /\ L(r) = 1 => r.msgbytes < UDP_MAX_PAYLOAD_SIZE
    <3>1. Small(r) /\ Filled(r, L(r))
      BY <1>1, <2>3 DEF Sendable
    <3>2. Filled(r, L(r) - 1)
      BY <1>1, <3>1 DEF Filled
    <3>3. LastMsg(r).msg_iovlen <= IOV_MAX /\ LastMsg(r).msg_iovlen \in Nat
      BY <1>1, <1>2, <3>1, ListsTypes DEF Small, L
    <3>4. LastMsg(r).msg_iovlen < IOV_MAX
      BY <2>2, <3>3, ConstantTypes
    <3>5. r.msgbytes \in Nat
      BY <1>1, ListsTypes
    <3>6. L(r) = 1 => r.msgbytes < UDP_MAX_PAYLOAD_SIZE
      BY <2>2, <3>5, ConstantTypes
    <3>7. QED
      BY <3>1, <3>2, <3>4, <3>6
  <2>4. QED
    BY <1>1, <2>1, <2>3 DEF Room
<1>4. CASE Full(r)
  <2>1. /\ Frame(s) /\ s.iov = r.iov
        /\ \/ s.oom /\ s.msglist = r.msglist /\ s.msgbytes = r.msgbytes
           \/ /\ s.oom = r.oom /\ s.msgbytes = 0
              /\ s.msglist = Append(r.msglist, [msg_iov |-> Len(r.iov) + 1, msg_iovlen |-> 0])
    BY <1>1, <1>4, AddMsghdr
  <2>2. CASE s.oom /\ s.msglist = r.msglist /\ s.msgbytes = r.msgbytes
    BY <1>1, <2>1, <2>2 DEF Room, L
  <2>3. CASE /\ s.oom = r.oom /\ s.msgbytes = 0
             /\ s.msglist = Append(r.msglist, [msg_iov |-> Len(r.iov) + 1, msg_iovlen |-> 0])
    <3>1. /\ L(s) = L(r) + 1 /\ LastMsg(s).msg_iovlen = 0
          /\ \A k \in 1 .. L(r) : s.msglist[k] = r.msglist[k]
          /\ s.msglist[L(r) + 1] = LastMsg(s)
      BY <1>1, <2>3 DEF L, LastMsg
    <3>2. \A m : NumBytes(s, m) = NumBytes(r, m)
      BY <2>1, NumBytesOfIov
    <3>3. ASSUME ~ s.oom
          PROVE  Small(s) /\ Filled(s, L(r))
      <4>1. Small(r) /\ Filled(r, L(r))
        BY <1>1, <2>3, <3>3 DEF Sendable
      <4>2. \A m \in 1 .. L(s) : s.msglist[m].msg_iovlen <= IOV_MAX
        <5>1. ASSUME NEW m \in 1 .. L(s)
              PROVE  s.msglist[m].msg_iovlen <= IOV_MAX
          <6>1. CASE m \in 1 .. L(r)
            BY <3>1, <4>1, <6>1 DEF Small
          <6>2. CASE m = L(r) + 1
            BY <3>1, <6>2, ConstantTypes
          <6>3. QED
            BY <1>1, <3>1, <6>1, <6>2
        <5>2. QED
          BY <5>1
      <4>3. 1 \in 1 .. L(r)
        BY <1>1
      <4>4. NumBytes(s, s.msglist[1]) <= UDP_MAX_PAYLOAD_SIZE
        BY <1>1, <3>1, <3>2, <4>1, <4>3 DEF Small
      <4>5. s.msgcurr = r.msgcurr
        BY <1>1, <2>1 DEF Frame
      <4>6. Filled(s, L(r))
        BY <3>1, <3>2, <4>1, <4>5 DEF Filled
      <4>7. QED
        BY <4>2, <4>4, <4>6 DEF Small
    <3>4. L(s) - 1 = L(r) /\ L(s) # 1 /\ 0 < IOV_MAX /\ 0 < UDP_MAX_PAYLOAD_SIZE
      BY <1>1, <3>1, ConstantTypes
    <3>5. s.msgbytes = 0
      BY <2>3
    <3>6. s.msgbytes <= UDP_MAX_PAYLOAD_SIZE /\ s.msgbytes < UDP_MAX_PAYLOAD_SIZE
      BY <3>5, ConstantTypes
    <3>7. QED
      BY <2>1, <3>1, <3>3, <3>4, <3>6 DEF Room
  <2>4. QED
    BY <2>1, <2>2, <2>3
<1>5. QED
  BY <1>3, <1>4

\* And the room in iov.
LEMMA PreparedRoom ==
  ASSUME NEW r, Building(r), NEW o \in Prepared(r)
  PROVE  /\ Frame(o.lists) /\ Room(o.lists, L(r) = 1) /\ o.failed \in BOOLEAN
         /\ L(r) = 1 => o.lists.msgbytes <= UDP_MAX_PAYLOAD_SIZE
         /\ L(o.lists) = 1 => L(r) = 1
         /\ IF o.failed THEN o.lists.oom ELSE Len(o.lists.iov) < o.lists.iovsize
<1>1. PICK s \in IF Full(r) THEN add_msghdr(r) ELSE {r} : o \in ensure_iov_space(s)
  BY DEF Prepared
<1>2. /\ Frame(s) /\ Room(s, L(r) = 1)
      /\ L(r) = 1 => s.msgbytes <= UDP_MAX_PAYLOAD_SIZE
      /\ L(s) = 1 => L(r) = 1
  BY MessageReady
<1> PICK t : t = o.lists
  OBVIOUS
<1>3. /\ Frame(t) /\ o.failed \in BOOLEAN
      /\ t.msglist = s.msglist /\ t.iov = s.iov /\ t.msgbytes = s.msgbytes
      /\ IF o.failed THEN t.oom ELSE t.oom = s.oom /\ Len(t.iov) < t.iovsize
  BY <1>1, <1>2, EnsureIovSpace
<1>4. \A m : NumBytes(t, m) = NumBytes(s, m)
  BY <1>3, NumBytesOfIov
<1>5. L(t) = L(s) /\ LastMsg(t) = LastMsg(s) /\ t.msgcurr = s.msgcurr
  BY <1>2, <1>3 DEF L, LastMsg, Frame
<1>6. Room(t, L(r) = 1)
  <2> SUFFICES ASSUME ~ t.oom
               PROVE  /\ Small(t) /\ Filled(t, L(t) - 1) /\ LastMsg(t).msg_iovlen < IOV_MAX
                      /\ L(r) = 1 => t.msgbytes < UDP_MAX_PAYLOAD_SIZE
    BY DEF Room
  <2>1. ~ s.oom
    BY <1>3
  <2>2. /\ Small(s) /\ Filled(s, L(s) - 1) /\ LastMsg(s).msg_iovlen < IOV_MAX
        /\ L(r) = 1 => s.msgbytes < UDP_MAX_PAYLOAD_SIZE
    BY <1>2, <2>1 DEF Room
  <2>3. Small(t)
    BY <1>3, <1>4, <1>5, <2>2 DEF Small
  <2>4. Filled(t, L(t) - 1)
    BY <1>3, <1>4, <1>5, <2>2 DEF Filled
  <2>5. QED
    BY <1>3, <1>5, <2>2, <2>3, <2>4
<1>7. QED
  BY <1>2, <1>3, <1>5, <1>6

\* How much of len bytes goes into it.
LEMMA FittingBounds ==
  ASSUME NEW s \in Lists, NEW len \in Nat \ {0}, NEW first \in BOOLEAN,
         first => s.msgbytes <= UDP_MAX_PAYLOAD_SIZE, NEW n, n = Fitting(first, s, len)
  PROVE  /\ n \in Nat /\ n <= len
         /\ first => s.msgbytes + n <= UDP_MAX_PAYLOAD_SIZE
         /\ (first => s.msgbytes < UDP_MAX_PAYLOAD_SIZE) => n > 0
<1>1. s.msgbytes \in Nat
  BY ListsTypes
<1>2. CASE first /\ len + s.msgbytes > UDP_MAX_PAYLOAD_SIZE
  <2>1. n = UDP_MAX_PAYLOAD_SIZE - s.msgbytes
    BY <1>2 DEF Fitting
  <2>2. /\ UDP_MAX_PAYLOAD_SIZE \in Nat /\ s.msgbytes <= UDP_MAX_PAYLOAD_SIZE
        /\ len + s.msgbytes > UDP_MAX_PAYLOAD_SIZE
    BY <1>2, ConstantTypes
  <2>3. n \in Nat /\ n <= len /\ s.msgbytes + n <= UDP_MAX_PAYLOAD_SIZE
    BY <1>1, <2>1, <2>2
  <2>4. s.msgbytes < UDP_MAX_PAYLOAD_SIZE => n > 0
    BY <1>1, <2>1, <2>2
  <2>5. QED
    BY <1>2, <2>3, <2>4
<1>3. CASE ~ (first /\ len + s.msgbytes > UDP_MAX_PAYLOAD_SIZE)
  <2>1. n = len
    BY <1>3 DEF Fitting
  <2>2. QED
    BY <1>1, <1>3, <2>1, ConstantTypes
<1>4. QED
  BY <1>2, <1>3

\* A turn of the loop of add_iov keeps what a response under construction is.
LEMMA AddIovBuilding ==
  ASSUME NEW r, Building(r), NEW len \in Nat \ {0}, NEW turn \in add_iov(r, len)
  PROVE  Building(turn.lists) /\ turn.failed \in BOOLEAN /\ turn.leftover \in Nat
<1>1. PICK o \in Prepared(r) :
         turn = [lists    |-> IF o.failed THEN o.lists
                              ELSE WithEntry(o.lists, Fitting(Len(r.msglist) = 1, o.lists, len)),
                 leftover |-> IF o.failed THEN 0 ELSE len - Fitting(Len(r.msglist) = 1, o.lists, len),
                 failed   |-> o.failed]
  BY DEF add_iov
<1> PICK s : s = o.lists
  OBVIOUS
<1> PICK n : n = Fitting(L(r) = 1, s, len)
  OBVIOUS
<1> PICK t : t = WithEntry(s, n)
  OBVIOUS
<1>2. /\ Frame(s) /\ Room(s, L(r) = 1) /\ o.failed \in BOOLEAN
      /\ L(r) = 1 => s.msgbytes <= UDP_MAX_PAYLOAD_SIZE
      /\ L(s) = 1 => L(r) = 1
      /\ IF o.failed THEN s.oom ELSE Len(s.iov) < s.iovsize
  BY PreparedRoom
<1>3. CASE o.failed
  <2>1. Building(s)
    BY <1>2, <1>3 DEF Building, Sendable
  <2>2. QED
    BY <1>1, <1>3, <2>1
<1>4. CASE ~ o.failed
  <2>1. turn.lists = t /\ turn.leftover = len - n /\ turn.failed = FALSE
    BY <1>1, <1>2, <1>4 DEF L
  <2>2. s \in Lists
    BY <1>2 DEF Frame
  <2>3. /\ n \in Nat /\ n <= len
        /\ L(r) = 1 => s.msgbytes + n <= UDP_MAX_PAYLOAD_SIZE
        /\ (L(r) = 1 => s.msgbytes < UDP_MAX_PAYLOAD_SIZE) => n > 0
    <3> PICK first \in BOOLEAN : first = (L(r) = 1)
      OBVIOUS
    <3> QED
      BY <1>2, <2>2, FittingBounds
  <2>4. /\ Frame(t) /\ L(t) = L(s) /\ t.oom = s.oom
        /\ LastMsg(t).msg_iovlen = LastMsg(s).msg_iovlen + 1
        /\ NumBytes(t, LastMsg(t)) = s.msgbytes + n
        /\ \A k \in 1 .. L(s) : k # L(s) =>
             t.msglist[k] = s.msglist[k] /\ NumBytes(t, t.msglist[k]) = NumBytes(s, s.msglist[k])
    BY <1>2, <1>4, <2>3, WithEntryFrame
  <2>5. /\ L(s) \in Nat /\ L(s) > 0 /\ LastMsg(s) = s.msglist[L(s)] /\ LastMsg(t) = t.msglist[L(s)]
        /\ t.msgcurr = 1 /\ s.msgcurr = 1 /\ s.msgbytes \in Nat
    BY <1>2, <2>4, ListsTypes DEF Frame, L, LastMsg
  <2>6. ASSUME ~ t.oom
        PROVE  Small(t) /\ Filled(t, L(t))
    <3>1. /\ Small(s) /\ Filled(s, L(s) - 1) /\ LastMsg(s).msg_iovlen < IOV_MAX /\ n > 0
      BY <1>2, <2>3, <2>4, <2>6 DEF Room
    <3>2. ASSUME NEW m \in 1 .. L(s)
          PROVE  /\ t.msglist[m].msg_iovlen <= IOV_MAX
                 /\ m = 1 => NumBytes(t, t.msglist[m]) <= UDP_MAX_PAYLOAD_SIZE
                 /\ m > 1 => NumBytes(t, t.msglist[m]) > 0
      <4>1. CASE m = L(s)
        <5>1. LastMsg(s).msg_iovlen \in Nat
          BY <2>2, <2>5, <4>1, ListsTypes DEF L
        <5>2. t.msglist[m].msg_iovlen <= IOV_MAX
          BY <2>4, <2>5, <3>1, <4>1, <5>1, ConstantTypes
        <5>3. NumBytes(t, t.msglist[m]) = s.msgbytes + n
          BY <2>4, <2>5, <4>1
        <5>4. m = 1 => s.msgbytes + n <= UDP_MAX_PAYLOAD_SIZE
          BY <1>2, <2>3, <4>1
        <5>5. s.msgbytes + n > 0
          BY <2>3, <2>5, <3>1
        <5>6. QED
          BY <5>2, <5>3, <5>4, <5>5
      <4>2. CASE m # L(s)
        <5>1. m \in 1 .. L(s) - 1
          BY <2>5, <4>2
        <5>2. t.msglist[m] = s.msglist[m] /\ NumBytes(t, t.msglist[m]) = NumBytes(s, s.msglist[m])
          BY <2>4, <4>2
        <5>3. s.msglist[m].msg_iovlen <= IOV_MAX
          BY <3>1 DEF Small
        <5>4. m = 1 => NumBytes(s, s.msglist[m]) <= UDP_MAX_PAYLOAD_SIZE
          BY <2>5, <3>1 DEF Small
        <5>5. m > 1 => NumBytes(s, s.msglist[m]) > 0
          BY <2>5, <3>1, <5>1 DEF Filled
        <5>6. QED
          BY <5>2, <5>3, <5>4, <5>5
      <4>3. QED
        BY <4>1, <4>2
    <3>3. Small(t)
      BY <2>4, <2>5, <3>2 DEF Small
    <3>4. Filled(t, L(t))
      BY <2>4, <2>5, <3>2 DEF Filled
    <3>5. QED
      BY <3>3, <3>4
  <2>7. Building(t)
    BY <2>4, <2>6 DEF Building, Sendable
  <2>8. len - n \in Nat
    BY <2>3
  <2>9. QED
    BY <2>1, <2>7, <2>8
<1>5. QED
  BY <1>2, <1>3, <1>4

-----------------------------------------------------------------------------
(* Taking a response apart *)

\* What always holds of the lists.
Whole(r) == r \in Lists /\ Good(r) /\ Exact(r) /\ Sendable(r)

\* It holds of lists under construction.
LEMMA BuildingWhole ==
  ASSUME NEW r, Building(r)
  PROVE  Whole(r)
BY FrameGood DEF Building, Whole, Frame

\* The numbers that the following lemmas are about.
LEMMA WholeTypes ==
  ASSUME NEW r, Whole(r)
  PROVE  /\ r \in Lists /\ L(r) \in Nat /\ Len(r.iov) \in Nat /\ r.msgcurr \in Nat \ {0}
         /\ L(r) = Len(r.msglist) /\ DOMAIN r.msglist = 1 .. L(r) /\ DOMAIN r.iov = 1 .. Len(r.iov)
         /\ r.sent \in Nat /\ r.added \in Nat
         /\ \A k \in 1 .. L(r) :
              /\ r.msglist[k] \in Message /\ Within(r, r.msglist[k])
              /\ r.msglist[k].msg_iov \in Nat \ {0} /\ r.msglist[k].msg_iovlen \in Nat
         /\ \A n \in 1 .. Len(r.iov) : r.iov[n].iov_base \in Nat /\ r.iov[n].iov_len \in Nat
BY ListsTypes DEF Whole, Good, L

\* A message that has been sent is left behind.
LEMMA AdvancedWhole ==
  ASSUME NEW r, Whole(r), NEW t, t = Advanced(r)
  PROVE  /\ Whole(t) /\ t.iov = r.iov /\ t.msglist = r.msglist
         /\ t.iovsize = r.iovsize /\ t.msgsize = r.msgsize
<1> DEFINE c == r.msgcurr
<1>1. /\ r \in Lists /\ L(r) \in Nat /\ c \in Nat \ {0} /\ L(r) = Len(r.msglist)
      /\ \A k \in 1 .. L(r) : r.msglist[k].msg_iov \in Nat \ {0} /\ r.msglist[k].msg_iovlen \in Nat
  BY WholeTypes
<1>2. CASE c <= L(r) /\ r.msglist[c].msg_iovlen = 0
  <2> PICK d \in Nat \ {0} : d = c + 1
    BY <1>1
  <2>1. t = [r EXCEPT !.msgcurr = d]
    BY <1>1, <1>2 DEF Advanced
  <2>2. /\ t \in Lists /\ t.iov = r.iov /\ t.msglist = r.msglist /\ t.msgcurr = d
        /\ t.iovsize = r.iovsize /\ t.msgsize = r.msgsize /\ t.sent = r.sent
        /\ t.added = r.added /\ t.oom = r.oom
    BY <1>1, <2>1 DEF Lists
  <2>3. L(t) = L(r) /\ \A m : NumBytes(t, m) = NumBytes(r, m)
    BY <2>2, NumBytesOfIov DEF L
  <2>4. c \in 1 .. L(r) /\ d <= L(r) + 1 /\ (c # L(r) => d <= L(r)) /\ (c = L(r) => ~ (d <= L(r)))
    BY <1>1, <1>2
  <2>5. Good(t)
    <3>1. ASSUME NEW k \in 1 .. L(r), k < d
          PROVE  r.msglist[k].msg_iovlen = 0
      <4>1. k < c \/ k = c
        BY <1>1, <3>1
      <4>2. QED
        BY <1>2, <4>1 DEF Whole, Good
    <3>2. QED
      BY <2>2, <2>3, <2>4, <3>1 DEF Whole, Good, Within
  <2>6. MessagesFollow(r, c) /\ EntriesFollow(r, First(r), r.sent + 1)
    BY DEF Whole, Exact
  <2>7. First(t) = First(r)
    <3>1. First(r) = r.msglist[c].msg_iov
      BY <1>1, <1>2 DEF First
    <3>2. c \in c .. Len(r.msglist)
      BY <1>1, <1>2
    <3>3. r.msglist[c].msg_iov + r.msglist[c].msg_iovlen =
            IF c = L(r) THEN Len(r.iov) + 1 ELSE r.msglist[d].msg_iov
      BY <1>1, <2>6, <3>2 DEF MessagesFollow
    <3>4. r.msglist[c].msg_iov = IF c = L(r) THEN Len(r.iov) + 1 ELSE r.msglist[d].msg_iov
      BY <1>1, <1>2, <2>4, <3>3
    <3>5. First(t) = IF d <= L(r) THEN r.msglist[d].msg_iov ELSE Len(r.iov) + 1
      BY <1>1, <2>2 DEF First
    <3>6. QED
      BY <2>4, <3>1, <3>4, <3>5
  <2>8. MessagesFollow(t, d)
    <3>1. \A k \in d .. L(r) : k \in c .. L(r)
      BY <1>1
    <3>2. QED
      BY <1>1, <2>2, <2>6, <3>1 DEF MessagesFollow
  <2>9. EntriesFollow(t, First(t), t.sent + 1)
    BY <2>2, <2>6, <2>7 DEF EntriesFollow, EndOf
  <2>10. Sendable(t)
    <3>1. ASSUME ~ r.oom
          PROVE  Small(t) /\ Filled(t, L(t))
      <4>1. Small(r) /\ Filled(r, L(r))
        BY <3>1 DEF Whole, Sendable
      <4>2. Small(t)
        BY <2>2, <2>3, <4>1 DEF Small
      <4>3. \A m \in 1 .. L(r) : m > d => m > c
        BY <1>1
      <4>4. Filled(t, L(t))
        BY <2>2, <2>3, <4>1, <4>3 DEF Filled
      <4>5. QED
        BY <4>2, <4>4
    <3>2. QED
      BY <2>2, <3>1 DEF Sendable
  <2>11. QED
    BY <2>2, <2>5, <2>8, <2>9, <2>10 DEF Whole, Exact
<1>3. CASE ~ (c <= L(r) /\ r.msglist[c].msg_iovlen = 0)
  BY <1>1, <1>3 DEF Advanced
<1>4. QED
  BY <1>2, <1>3

\* A message keeps its bytes when only other entries change.
LEMMA NumBytesElsewhere ==
  ASSUME NEW r \in Lists, NEW t \in Lists, Len(t.iov) = Len(r.iov),
         NEW m \in Message, Within(r, m),
         \A n \in m.msg_iov .. m.msg_iov + m.msg_iovlen - 1 : t.iov[n] = r.iov[n]
  PROVE  Within(t, m) /\ NumBytes(t, m) = NumBytes(r, m)
<1>1. Within(t, m)
  BY DEF Within
<1>2. QED
  BY <1>1, NumBytesSame

\* The first entry of the current message.
LEMMA CurrentFirst ==
  ASSUME NEW r, Whole(r), r.msgcurr <= L(r), r.msglist[r.msgcurr].msg_iovlen > 0
  PROVE  LET m == r.msglist[r.msgcurr]
             p == m.msg_iov
         IN  /\ r.msgcurr \in 1 .. L(r) /\ m \in Message /\ Within(r, m)
             /\ p \in 1 .. Len(r.iov) /\ First(r) = p
             /\ r.iov[p].iov_base = r.sent + 1
             /\ NumBytes(r, m) = r.iov[p].iov_len + NumBytes(r, Rest(m))
             /\ Rest(m) \in Message /\ Within(r, Rest(m)) /\ NumBytes(r, Rest(m)) \in Nat
<1> DEFINE c == r.msgcurr
<1> PICK m : m = r.msglist[c]
  OBVIOUS
<1> PICK p : p = m.msg_iov
  OBVIOUS
<1>1. r \in Lists /\ c \in 1 .. L(r) /\ L(r) = Len(r.msglist) /\ Len(r.iov) \in Nat
  BY WholeTypes
<1>2. m \in Message /\ Within(r, m) /\ m.msg_iov \in Nat \ {0} /\ m.msg_iovlen \in Nat
  BY <1>1, WholeTypes
<1>3. p \in 1 .. Len(r.iov)
  BY <1>1, <1>2 DEF Within
<1>4. First(r) = p
  BY <1>1 DEF First
<1>5. r.iov[p].iov_base = r.sent + 1
  <2>1. p \in p .. Len(r.iov)
    BY <1>3
  <2>2. EntriesFollow(r, p, r.sent + 1)
    BY <1>4 DEF Whole, Exact
  <2>3. QED
    BY <2>1, <2>2 DEF EntriesFollow
<1>6. NumBytes(r, m) = r.iov[p].iov_len + NumBytes(r, Rest(m)) /\ Rest(m) \in Message /\ Within(r, Rest(m))
  BY <1>1, <1>2, NumBytesStep
<1>7. NumBytes(r, Rest(m)) \in Nat
  BY <1>1, <1>6, NumBytesType
<1>8. QED
  BY <1>1, <1>2, <1>3, <1>4, <1>5, <1>6, <1>7

\* t is r with n bytes more sent, but for iov and msglist.
SameBut(r, t, n) ==
  /\ t.msgcurr = r.msgcurr /\ t.iovsize = r.iovsize /\ t.msgsize = r.msgsize
  /\ t.sent = r.sent + n /\ t.added = r.added /\ t.oom = r.oom

\* A turn of the loop of transmit: the first entry, of len bytes, of the current
\* message is sent.
FirstSent(r, t, len) ==
  /\ Whole(r) /\ r.msgcurr <= L(r) /\ r.msglist[r.msgcurr].msg_iovlen > 0
  /\ len = r.iov[r.msglist[r.msgcurr].msg_iov].iov_len
  /\ t \in Lists /\ SameBut(r, t, len) /\ t.iov = r.iov /\ L(t) = L(r)
  /\ t.msglist[r.msgcurr] = Rest(r.msglist[r.msgcurr])
  /\ \A k \in 1 .. L(r) : k # r.msgcurr => t.msglist[k] = r.msglist[k]

LEMMA FirstSentWhole ==
  ASSUME NEW r, NEW t, NEW len, FirstSent(r, t, len)
  PROVE  /\ Whole(t)
         /\ NumBytes(r, r.msglist[r.msgcurr]) = len + NumBytes(t, t.msglist[r.msgcurr])
<1> PICK c : c = r.msgcurr
  OBVIOUS
<1> PICK m : m = r.msglist[c]
  OBVIOUS
<1> PICK p : p = m.msg_iov
  OBVIOUS
<1>0. /\ Whole(r) /\ c <= L(r) /\ m.msg_iovlen > 0 /\ len = r.iov[p].iov_len
      /\ t \in Lists /\ SameBut(r, t, len) /\ t.iov = r.iov /\ L(t) = L(r) /\ t.msglist[c] = Rest(m)
  BY DEF FirstSent
<1>others. \A k \in 1 .. L(r) : k # c => t.msglist[k] = r.msglist[k]
  BY DEF FirstSent
<1> PICK b : b = t.sent
  OBVIOUS
<1>1. /\ r \in Lists /\ L(r) \in Nat /\ L(r) = Len(r.msglist)
      /\ Len(r.iov) \in Nat /\ r.sent \in Nat
  <2>1. Whole(r)
    BY <1>0
  <2> QED
    BY <2>1, WholeTypes
<1>2. /\ c \in 1 .. L(r) /\ m \in Message /\ Within(r, m)
      /\ p \in 1 .. Len(r.iov) /\ First(r) = p
      /\ r.iov[p].iov_base = r.sent + 1
      /\ NumBytes(r, m) = len + NumBytes(r, Rest(m))
      /\ Rest(m) \in Message /\ Within(r, Rest(m)) /\ NumBytes(r, Rest(m)) \in Nat
  BY <1>0, CurrentFirst
<1>3. len \in Nat /\ m.msg_iov \in Nat \ {0} /\ m.msg_iovlen \in Nat
  BY <1>0, <1>2, WholeTypes
<1>n. /\ L(r) \in Nat /\ Len(r.iov) \in Nat /\ c \in Nat /\ p \in Nat
      /\ 1 <= c /\ c <= L(r) /\ 1 <= p /\ p <= Len(r.iov)
  BY <1>1, <1>2
<1>4. b = r.sent + len
  BY <1>0 DEF SameBut
<1>5. /\ t \in Lists /\ t.iov = r.iov /\ t.msgcurr = c
      /\ t.iovsize = r.iovsize /\ t.msgsize = r.msgsize /\ t.sent = b
      /\ t.added = r.added /\ t.oom = r.oom
  BY <1>0 DEF SameBut
<1>6. /\ L(t) = L(r) /\ t.msglist[c] = Rest(m)
      /\ \A k \in 1 .. L(r) : k # c => t.msglist[k] = r.msglist[k]
  BY <1>0, <1>others
<1>7. \A k : NumBytes(t, k) = NumBytes(r, k)
  BY <1>5, NumBytesOfIov
<1>8. /\ Rest(m).msg_iov = p + 1 /\ Rest(m).msg_iovlen = m.msg_iovlen - 1
      /\ Rest(m).msg_iov + Rest(m).msg_iovlen = m.msg_iov + m.msg_iovlen
      /\ p \in Nat
  <2>1. Rest(m).msg_iov = m.msg_iov + 1 /\ Rest(m).msg_iovlen = m.msg_iovlen - 1
    BY DEF Rest
  <2>2. \A x, y \in Nat : (x + 1) + (y - 1) = x + y
    OBVIOUS
  <2>3. m.msg_iov \in Nat
    BY <1>3
  <2>4. QED
    BY <1>3, <2>1, <2>2, <2>3
<1>9. ASSUME NEW k \in 1 .. L(r)
      PROVE  /\ t.msglist[k].msg_iov + t.msglist[k].msg_iovlen = r.msglist[k].msg_iov + r.msglist[k].msg_iovlen
             /\ t.msglist[k].msg_iov >= r.msglist[k].msg_iov
             /\ t.msglist[k].msg_iovlen <= r.msglist[k].msg_iovlen
             /\ k # c => t.msglist[k] = r.msglist[k]
             /\ Within(t, t.msglist[k])
  <2>1. r.msglist[k] \in Message /\ Within(r, r.msglist[k])
    BY <1>0, WholeTypes
  <2>2. r.msglist[k].msg_iov \in Nat /\ r.msglist[k].msg_iovlen \in Nat
    BY <2>1 DEF Message
  <2>3. CASE k = c
    <3>1. t.msglist[k] = Rest(m) /\ r.msglist[k] = m
      BY <1>6, <2>3
    <3>2. Within(t, Rest(m))
      BY <1>2, <1>5 DEF Within
    <3>3. Rest(m).msg_iov >= m.msg_iov /\ Rest(m).msg_iovlen <= m.msg_iovlen
      <4>1. \A x, y \in Nat : x + 1 >= x /\ y - 1 <= y
        OBVIOUS
      <4>2. m.msg_iov + 1 >= m.msg_iov /\ m.msg_iovlen - 1 <= m.msg_iovlen
        BY <1>3, <4>1
      <4>3. QED
        BY <4>2 DEF Rest
    <3>4. QED
      BY <1>8, <2>3, <3>1, <3>2, <3>3
  <2>4. CASE k # c
    BY <1>5, <1>6, <2>1, <2>2, <2>4 DEF Within
  <2>5. QED
    BY <2>3, <2>4
<1>10. Good(t)
  <2>1. ASSUME NEW i \in 1 .. L(r), NEW k \in 1 .. L(r), i < k
        PROVE  t.msglist[i].msg_iov + t.msglist[i].msg_iovlen <= t.msglist[k].msg_iov
    <3>1. r.msglist[i].msg_iov + r.msglist[i].msg_iovlen <= r.msglist[k].msg_iov
      BY <1>0, <2>1 DEF Whole, Good
    <3>2. /\ r.msglist[i].msg_iov \in Nat /\ r.msglist[i].msg_iovlen \in Nat
          /\ r.msglist[k].msg_iov \in Nat
      BY <1>0, WholeTypes
    <3>3. t.msglist[k].msg_iov \in Nat
      BY <1>5, <1>6, ListsTypes DEF L
    <3>4. /\ t.msglist[i].msg_iov + t.msglist[i].msg_iovlen = r.msglist[i].msg_iov + r.msglist[i].msg_iovlen
          /\ t.msglist[k].msg_iov >= r.msglist[k].msg_iov
      BY <1>9
    <3>5. QED
      BY <3>1, <3>2, <3>3, <3>4
  <2>2. ASSUME NEW k \in 1 .. L(r), k < c
        PROVE  t.msglist[k].msg_iovlen = 0
    <3>1. k # c
      <4> QED
        BY <1>n, <2>2
    <3>2. t.msglist[k] = r.msglist[k]
      BY <1>6, <3>1
    <3>3. QED
      BY <1>0, <2>2, <3>2 DEF Whole, Good
  <2>3. r.iovsize > 0 /\ r.msgsize > 0 /\ c <= L(r) + 1
    BY <1>0 DEF Whole, Good
  <2>4. QED
    BY <1>5, <1>6, <1>9, <2>1, <2>2, <2>3 DEF Good
<1>11. MessagesFollow(t, c)
  <2>1. MessagesFollow(r, c)
    BY <1>0 DEF Whole, Exact
  <2> SUFFICES ASSUME NEW k \in c .. L(r)
               PROVE  t.msglist[k].msg_iov + t.msglist[k].msg_iovlen =
                        IF k = L(r) THEN Len(r.iov) + 1 ELSE t.msglist[k + 1].msg_iov
    BY <1>1, <1>5, <1>6 DEF MessagesFollow, L
  <2>2. k \in 1 .. L(r) /\ (k # L(r) => k + 1 \in 1 .. L(r) /\ k + 1 # c)
    <3>1. \A x, y \in Nat : \A z \in x .. y : 1 <= x =>
            z \in 1 .. y /\ (z # y => z + 1 \in 1 .. y /\ z + 1 # x)
      OBVIOUS
    <3>2. QED
      <4> QED
        BY <1>n, <3>1
  <2>3. r.msglist[k].msg_iov + r.msglist[k].msg_iovlen =
          IF k = L(r) THEN Len(r.iov) + 1 ELSE r.msglist[k + 1].msg_iov
    BY <1>1, <2>1 DEF MessagesFollow
  <2>4. QED
    BY <1>9, <2>2, <2>3
<1>12. EntriesFollow(t, First(t), t.sent + 1)
  <2>1. EntriesFollow(r, p, r.sent + 1)
    BY <1>0, <1>2 DEF Whole, Exact
  <2>2. First(t) = p + 1
    <3>1. c <= Len(t.msglist)
      BY <1>0, <1>6 DEF L
    <3>2. QED
      BY <1>5, <1>6, <1>8, <3>1 DEF First
  <2>3. EndOf(r, p) = b + 1
    <3>1. EndOf(r, p) = (r.sent + 1) + len
      BY <1>0, <1>2 DEF EndOf
    <3>2. \A x, y \in Nat : (x + 1) + y = (x + y) + 1
      OBVIOUS
    <3>3. (r.sent + 1) + len = (r.sent + len) + 1
      BY <1>1, <1>3, <3>2
    <3>4. QED
      BY <1>4, <3>1, <3>3
  <2>4. ASSUME NEW k \in p + 1 .. Len(r.iov)
        PROVE  r.iov[k].iov_base = IF k = p + 1 THEN b + 1 ELSE EndOf(r, k - 1)
    <3>1. k \in p .. Len(r.iov) /\ k # p /\ (k = p + 1 => k - 1 = p)
      <4>1. \A x, y \in Nat : \A z \in x + 1 .. y :
              z \in x .. y /\ z # x /\ (z = x + 1 => z - 1 = x)
        OBVIOUS
      <4>2. QED
        <5> QED
          BY <1>n, <2>4, <4>1
    <3>2. r.iov[k].iov_base = EndOf(r, k - 1)
      BY <2>1, <3>1 DEF EntriesFollow
    <3>3. QED
      BY <2>3, <3>1, <3>2
  <2>5. r.added + 1 = IF p + 1 > Len(r.iov) THEN b + 1 ELSE EndOf(r, Len(r.iov))
    <3>1. r.added + 1 = EndOf(r, Len(r.iov))
      <4>1. ~ (p > Len(r.iov))
        <5> QED
          BY <1>n
      <4>2. QED
        BY <2>1, <4>1 DEF EntriesFollow
    <3>2. \A x, y \in Int : x <= y /\ x + 1 > y => x = y
      OBVIOUS
    <3>3. p \in Int /\ Len(r.iov) \in Int /\ p <= Len(r.iov)
      <4> QED
        BY <1>n
    <3>4. p + 1 > Len(r.iov) => p = Len(r.iov)
      BY <3>2, <3>3
    <3>5. QED
      BY <2>3, <3>1, <3>4
  <2>6. QED
    BY <1>5, <2>2, <2>4, <2>5 DEF EntriesFollow, EndOf
<1>13. Sendable(t)
  <2>1. ASSUME ~ r.oom
        PROVE  Small(t) /\ Filled(t, L(t))
    <3>1. Small(r) /\ Filled(r, L(r))
      BY <1>0, <2>1 DEF Whole, Sendable
    <3>2. ASSUME NEW k \in 1 .. L(r)
          PROVE  t.msglist[k].msg_iovlen <= IOV_MAX
      <4>1. r.msglist[k].msg_iovlen <= IOV_MAX /\ r.msglist[k].msg_iovlen \in Nat
        BY <1>0, <3>1, WholeTypes DEF Small
      <4>2. t.msglist[k].msg_iovlen <= r.msglist[k].msg_iovlen /\ t.msglist[k].msg_iovlen \in Nat
        BY <1>5, <1>6, <1>9, ListsTypes DEF L
      <4>3. QED
        BY <4>1, <4>2, ConstantTypes
    <3>3. NumBytes(t, t.msglist[1]) <= UDP_MAX_PAYLOAD_SIZE
      <4>1. 1 \in 1 .. L(r) /\ L(r) > 0
        <5> QED
          BY <1>n
      <4>2. NumBytes(r, r.msglist[1]) <= UDP_MAX_PAYLOAD_SIZE
        BY <3>1, <4>1 DEF Small
      <4>3. CASE c = 1
        <5>1. NumBytes(t, t.msglist[1]) = NumBytes(r, Rest(m))
          BY <1>6, <1>7, <4>3
        <5>2. len + NumBytes(r, Rest(m)) <= UDP_MAX_PAYLOAD_SIZE
          BY <1>2, <4>2, <4>3
        <5>3. NumBytes(r, Rest(m)) \in Nat /\ UDP_MAX_PAYLOAD_SIZE \in Nat
          BY <1>2, ConstantTypes
        <5>4. \A x, y, z \in Nat : x + y <= z => y <= z
          OBVIOUS
        <5>5. NumBytes(r, Rest(m)) <= UDP_MAX_PAYLOAD_SIZE
          BY <1>3, <5>2, <5>3, <5>4
        <5>6. QED
          BY <5>1, <5>5
      <4>4. CASE c # 1
        BY <1>6, <1>7, <4>1, <4>2, <4>4
      <4>5. QED
        BY <4>3, <4>4
    <3>4. Filled(t, L(t))
      <4>1. \A k \in 1 .. L(r) : k > c => k # c
        <5> QED
          BY <1>n
      <4>2. QED
        BY <1>5, <1>6, <1>7, <3>1, <4>1 DEF Filled
    <3>5. QED
      BY <1>6, <3>2, <3>3, <3>4 DEF Small
  <2>2. QED
    BY <1>5, <2>1 DEF Sendable
<1>14. QED
  BY <1>2, <1>5, <1>6, <1>7, <1>10, <1>11, <1>12, <1>13 DEF Whole, Exact

\* After the loop: n bytes of the first entry of the current message are sent, and
\* not all.
PartSent(r, t, n) ==
  /\ Whole(r) /\ r.msgcurr <= L(r) /\ n \in Nat \ {0} /\ n <= NumBytes(r, r.msglist[r.msgcurr])
  /\ t \in Lists /\ SameBut(r, t, n) /\ t.msglist = r.msglist /\ Len(t.iov) = Len(r.iov)
  /\ LET m == r.msglist[r.msgcurr]
         p == m.msg_iov
     IN  /\ ~ (m.msg_iovlen > 0 /\ n >= r.iov[p].iov_len)
         /\ t.iov[p].iov_base = r.iov[p].iov_base + n /\ t.iov[p].iov_len = r.iov[p].iov_len - n
         /\ \A k \in 1 .. Len(r.iov) : k # p => t.iov[k] = r.iov[k]

LEMMA PartSentWhole ==
  ASSUME NEW r, NEW t, NEW n, PartSent(r, t, n)
  PROVE  Whole(t)
<1> PICK c : c = r.msgcurr
  OBVIOUS
<1> PICK m : m = r.msglist[c]
  OBVIOUS
<1> PICK p : p = m.msg_iov
  OBVIOUS
<1>0. /\ Whole(r) /\ c <= L(r) /\ n \in Nat \ {0} /\ n <= NumBytes(r, m)
      /\ t \in Lists /\ SameBut(r, t, n) /\ t.msglist = r.msglist /\ Len(t.iov) = Len(r.iov)
      /\ ~ (m.msg_iovlen > 0 /\ n >= r.iov[p].iov_len)
      /\ t.iov[p].iov_base = r.iov[p].iov_base + n /\ t.iov[p].iov_len = r.iov[p].iov_len - n
  BY DEF PartSent
<1>others. \A k \in 1 .. Len(r.iov) : k # p => t.iov[k] = r.iov[k]
  BY DEF PartSent
<1> PICK b : b = t.sent
  OBVIOUS
<1> PICK e : e = t.iov[p]
  OBVIOUS
<1>1. /\ r \in Lists /\ L(r) \in Nat /\ L(r) = Len(r.msglist)
      /\ Len(r.iov) \in Nat /\ r.sent \in Nat /\ c \in 1 .. L(r)
      /\ m \in Message /\ Within(r, m) /\ m.msg_iovlen \in Nat
  <2>1. Whole(r) /\ c <= L(r) /\ c = r.msgcurr /\ m = r.msglist[c]
    BY <1>0
  <2>2. /\ r \in Lists /\ L(r) \in Nat /\ L(r) = Len(r.msglist)
        /\ Len(r.iov) \in Nat /\ r.sent \in Nat /\ c \in Nat \ {0}
    BY <2>1, WholeTypes
  <2>3. c \in 1 .. L(r)
    BY <2>1, <2>2
  <2>4. m \in Message /\ Within(r, m) /\ m.msg_iovlen \in Nat
    BY <2>1, <2>3, WholeTypes
  <2>5. QED
    BY <2>2, <2>3, <2>4
<1>2. m.msg_iovlen > 0
  <2>1. m.msg_iovlen = 0 => NumBytes(r, m) = 0
    BY <1>1, NumBytesType
  <2>2. QED
    BY <1>0, <1>1, <2>1
<1>3. /\ p \in 1 .. Len(r.iov) /\ First(r) = p
      /\ r.iov[p].iov_base = r.sent + 1
      /\ NumBytes(r, m) = r.iov[p].iov_len + NumBytes(r, Rest(m))
      /\ Rest(m) \in Message /\ Within(r, Rest(m)) /\ NumBytes(r, Rest(m)) \in Nat
  BY <1>0, <1>2, CurrentFirst
<1>4. r.iov[p].iov_base \in Nat /\ r.iov[p].iov_len \in Nat
  BY <1>0, <1>3, WholeTypes
<1>5. n < r.iov[p].iov_len
  BY <1>0, <1>2, <1>4
<1>6. e.iov_base = r.iov[p].iov_base + n /\ e.iov_len = r.iov[p].iov_len - n
  BY <1>0
<1>7. /\ t \in Lists /\ t.msglist = r.msglist /\ t.msgcurr = c
      /\ t.iovsize = r.iovsize /\ t.msgsize = r.msgsize /\ t.sent = b
      /\ t.added = r.added /\ t.oom = r.oom /\ b = r.sent + n
  BY <1>0 DEF SameBut
<1>8. /\ Len(t.iov) = Len(r.iov) /\ t.iov[p] = e
      /\ \A k \in 1 .. Len(r.iov) : k # p => t.iov[k] = r.iov[k]
  BY <1>0, <1>others
<1>9. L(t) = L(r) /\ First(t) = p
  BY <1>3, <1>7, <1>8 DEF L, First
<1>10. Good(t)
  BY <1>0, <1>7, <1>8, <1>9 DEF Whole, Good, Within
<1>11. MessagesFollow(t, c)
  <2>1. MessagesFollow(r, c)
    BY <1>0 DEF Whole, Exact
  <2>2. QED
    BY <1>7, <1>8, <2>1 DEF MessagesFollow
<1>12. \A k \in 1 .. Len(r.iov) : EndOf(t, k) = EndOf(r, k)
  <2>1. e.iov_base + e.iov_len = r.iov[p].iov_base + r.iov[p].iov_len
    <3>1. \A x, y \in Nat : (x + n) + (y - n) = x + y
      BY <1>0
    <3>2. (r.iov[p].iov_base + n) + (r.iov[p].iov_len - n) = r.iov[p].iov_base + r.iov[p].iov_len
      BY <1>4, <3>1
    <3>3. QED
      BY <1>6, <3>2
  <2>2. QED
    BY <1>8, <2>1 DEF EndOf
<1>13. EntriesFollow(t, First(t), t.sent + 1)
  <2>1. EntriesFollow(r, p, r.sent + 1)
    BY <1>0, <1>3 DEF Whole, Exact
  <2>2. ASSUME NEW k \in p .. Len(r.iov)
        PROVE  t.iov[k].iov_base = IF k = p THEN b + 1 ELSE EndOf(t, k - 1)
    <3>1. CASE k = p
      <4>1. t.iov[k].iov_base = (r.sent + 1) + n
        BY <1>3, <1>6, <3>1
      <4>2. r.sent \in Nat /\ b = r.sent + n
        BY <1>1, <1>7
      <4>3. n \in Nat
        BY <1>0
      <4>4. \A x, y \in Nat : (x + 1) + y = (x + y) + 1
        OBVIOUS
      <4>5. (r.sent + 1) + n = (r.sent + n) + 1
        BY <4>2, <4>3, <4>4
      <4>6. QED
        BY <3>1, <4>1, <4>2, <4>5
    <3>2. CASE k # p
      <4>1. k \in 1 .. Len(r.iov) /\ k - 1 \in 1 .. Len(r.iov)
        BY <1>1, <1>3, <3>2
      <4>2. r.iov[k].iov_base = EndOf(r, k - 1)
        BY <2>1, <3>2 DEF EntriesFollow
      <4>3. QED
        BY <1>8, <1>12, <3>2, <4>1, <4>2
    <3>3. QED
      BY <3>1, <3>2
  <2>3. r.added + 1 = EndOf(t, Len(r.iov)) /\ ~ (p > Len(r.iov))
    <3>1. ~ (p > Len(r.iov)) /\ Len(r.iov) \in 1 .. Len(r.iov)
      BY <1>1, <1>3
    <3>2. r.added + 1 = EndOf(r, Len(r.iov))
      BY <2>1, <3>1 DEF EntriesFollow
    <3>3. QED
      BY <1>12, <3>1, <3>2
  <2>4. QED
    BY <1>7, <1>8, <1>9, <2>2, <2>3 DEF EntriesFollow
<1>14. ASSUME NEW k \in 1 .. L(r), k # c
       PROVE  NumBytes(t, r.msglist[k]) = NumBytes(r, r.msglist[k])
  <2>1. /\ r.msglist[k] \in Message /\ Within(r, r.msglist[k])
        /\ r.msglist[k].msg_iov \in Nat \ {0} /\ r.msglist[k].msg_iovlen \in Nat
    BY <1>0, WholeTypes
  <2>2. p \notin r.msglist[k].msg_iov .. r.msglist[k].msg_iov + r.msglist[k].msg_iovlen - 1
    <3>1. CASE k < c
      <4>1. r.msglist[k].msg_iovlen = 0
        BY <1>0, <3>1 DEF Whole, Good
      <4>2. QED
        BY <2>1, <4>1
    <3>2. CASE c < k
      <4>1. m.msg_iov + m.msg_iovlen <= r.msglist[k].msg_iov
        BY <1>0, <1>1, <3>2 DEF Whole, Good
      <4>2. p + m.msg_iovlen <= r.msglist[k].msg_iov
        BY <4>1
      <4>3. p \in Nat /\ m.msg_iovlen \in Nat /\ r.msglist[k].msg_iov \in Nat
        <5>1. \A q \in 1 .. Len(r.iov) : q \in Nat
          OBVIOUS
        <5>2. \A q \in Nat \ {0} : q \in Nat
          OBVIOUS
        <5>3. QED
          BY <1>1, <1>3, <2>1, <5>1, <5>2
      <4>4. p < r.msglist[k].msg_iov
        BY <1>2, <4>2, <4>3
      <4>5. QED
        BY <2>1, <4>3, <4>4
    <3>3. QED
      BY <1>1, <1>14, <3>1, <3>2
  <2> PICK x \in Message : x = r.msglist[k]
    BY <2>1
  <2>3. \A y \in x.msg_iov .. x.msg_iov + x.msg_iovlen - 1 : y \in 1 .. Len(r.iov) /\ y # p
    BY <1>1, <2>1, <2>2, EntrySizes
  <2>4. \A y \in x.msg_iov .. x.msg_iov + x.msg_iovlen - 1 : t.iov[y] = r.iov[y]
    BY <1>8, <2>3
  <2>5. Within(r, x)
    BY <2>1
  <2>6. NumBytes(t, x) = NumBytes(r, x)
    BY <1>1, <1>7, <1>8, <2>4, <2>5, NumBytesElsewhere
  <2>7. QED
    BY <2>6
<1>15. NumBytes(t, m) = NumBytes(r, m) - n
  <2>1. m.msg_iov = p /\ m.msg_iov \in Nat \ {0}
    BY <1>1 DEF Message
  <2>2. Within(t, m)
    BY <1>1, <1>8 DEF Within
  <2>3. NumBytes(t, m) = t.iov[p].iov_len + NumBytes(t, Rest(m))
    BY <1>1, <1>2, <1>7, <2>1, <2>2, NumBytesStep
  <2>4. p \notin Rest(m).msg_iov .. Rest(m).msg_iov + Rest(m).msg_iovlen - 1
    BY <1>1, <2>1 DEF Rest
  <2>5. NumBytes(t, Rest(m)) = NumBytes(r, Rest(m))
    <3> PICK x \in Message : x = Rest(m)
      BY <1>3
    <3>1. Within(r, x)
      BY <1>3
    <3>2. \A y \in x.msg_iov .. x.msg_iov + x.msg_iovlen - 1 : y \in 1 .. Len(r.iov) /\ y # p
      BY <1>1, <2>4, <3>1, EntrySizes
    <3>3. \A y \in x.msg_iov .. x.msg_iov + x.msg_iovlen - 1 : t.iov[y] = r.iov[y]
      BY <1>8, <3>2
    <3>4. QED
      BY <1>1, <1>7, <1>8, <3>1, <3>3, NumBytesElsewhere
  <2>6. t.iov[p].iov_len = r.iov[p].iov_len - n
    BY <1>0
  <2>7. \A x, y \in Nat : (x - n) + y = (x + y) - n
    BY <1>0
  <2>8. (r.iov[p].iov_len - n) + NumBytes(r, Rest(m)) = (r.iov[p].iov_len + NumBytes(r, Rest(m))) - n
    BY <1>3, <1>4, <2>7
  <2>9. NumBytes(t, m) = (r.iov[p].iov_len - n) + NumBytes(r, Rest(m))
    BY <2>3, <2>5, <2>6
  <2>10. QED
    BY <1>3, <2>8, <2>9
<1>16. Sendable(t)
  <2>1. ASSUME ~ r.oom
        PROVE  Small(t) /\ Filled(t, L(t))
    <3>1. Small(r) /\ Filled(r, L(r))
      BY <1>0, <2>1 DEF Whole, Sendable
    <3>2. NumBytes(t, r.msglist[1]) <= UDP_MAX_PAYLOAD_SIZE
      <4>1. 1 \in 1 .. L(r) /\ L(r) > 0
        BY <1>1
      <4>2. NumBytes(r, r.msglist[1]) <= UDP_MAX_PAYLOAD_SIZE
        BY <3>1, <4>1 DEF Small
      <4>3. CASE c = 1
        <5>1. NumBytes(r, m) <= UDP_MAX_PAYLOAD_SIZE /\ NumBytes(r, m) \in Nat
          BY <1>1, <4>2, <4>3, NumBytesType
        <5>2. NumBytes(r, m) - n <= UDP_MAX_PAYLOAD_SIZE
          BY <1>0, <5>1, ConstantTypes
        <5>3. QED
          BY <1>15, <4>3, <5>2
      <4>4. CASE c # 1
        BY <1>14, <4>1, <4>2, <4>4
      <4>5. QED
        BY <4>3, <4>4
    <3>3. Small(t)
      BY <1>7, <1>9, <3>1, <3>2 DEF Small
    <3>4. Filled(t, L(t))
      <4>1. \A k \in 1 .. L(r) : k > c => k # c
        BY <1>1
      <4>2. QED
        BY <1>7, <1>9, <1>14, <3>1, <4>1 DEF Filled
    <3>5. QED
      BY <3>3, <3>4
  <2>2. QED
    BY <1>7, <2>1 DEF Sendable
<1>17. QED
  BY <1>7, <1>10, <1>11, <1>13, <1>16 DEF Whole, Exact


\* Only the sizes of the arrays change.
LEMMA SizesWhole ==
  ASSUME NEW r, Whole(r), NEW t \in Lists,
         t.iov = r.iov, t.msglist = r.msglist, t.msgcurr = r.msgcurr, t.sent = r.sent,
         t.added = r.added, t.oom = r.oom, t.iovsize > 0, t.msgsize > 0
  PROVE  Whole(t)
<1>1. Good(t)
  BY DEF Whole, Good, Within, L
<1>2. First(t) = First(r)
  BY DEF First
<1>3. MessagesFollow(t, t.msgcurr)
  BY DEF Whole, Exact, MessagesFollow
<1>4. EntriesFollow(t, First(t), t.sent + 1)
  <2>1. EntriesFollow(r, First(r), r.sent + 1)
    BY DEF Whole, Exact
  <2>2. \A n : EndOf(t, n) = EndOf(r, n)
    BY DEF EndOf
  <2>3. QED
    BY <1>2, <2>1, <2>2 DEF EntriesFollow
<1>5. Sendable(t)
  <2>1. \A m : NumBytes(t, m) = NumBytes(r, m)
    BY NumBytesOfIov
  <2>2. Sendable(r)
    BY DEF Whole
  <2>3. QED
    BY <2>1, <2>2 DEF Sendable, Small, Filled, L
<1>6. QED
  BY <1>1, <1>3, <1>4, <1>5 DEF Whole, Exact

\* conn_shrink leaves arrays, and does not touch what is in them.
LEMMA ShrunkWhole ==
  ASSUME NEW r, Whole(r), NEW m \in Shrunk(r.msgsize, MSG_LIST_HIGHWAT, MSG_LIST_INITIAL),
         NEW v \in Shrunk(r.iovsize, IOV_LIST_HIGHWAT, IOV_LIST_INITIAL),
         NEW t, t = [r EXCEPT !.msgsize = m, !.iovsize = v]
  PROVE  Whole(t)
<1>1. r \in Lists /\ r.iovsize > 0 /\ r.msgsize > 0 /\ r.iovsize \in Nat /\ r.msgsize \in Nat
  BY ListsTypes DEF Whole, Good
<1>2. m \in {r.msgsize, MSG_LIST_INITIAL} /\ v \in {r.iovsize, IOV_LIST_INITIAL}
  BY DEF Shrunk
<1>3. m \in Nat /\ m > 0 /\ v \in Nat /\ v > 0
  BY <1>1, <1>2, ConstantTypes
<1>4. /\ t \in Lists /\ t.iovsize = v /\ t.msgsize = m
      /\ t.iov = r.iov /\ t.msglist = r.msglist /\ t.msgcurr = r.msgcurr /\ t.sent = r.sent
      /\ t.added = r.added /\ t.oom = r.oom
  BY <1>1, <1>3 DEF Lists
<1>5. QED
  BY <1>3, <1>4, SizesWhole

\* Lists without an entry.
LEMMA FreshFields ==
  ASSUME NEW v \in Nat, NEW q \in Seq(Message), NEW m \in Nat
  PROVE  LET t == Fresh(v, q, m)
         IN  /\ t \in Lists /\ Len(t.iov) = 0 /\ t.msglist = q /\ t.msgcurr = 1 /\ t.msgbytes = 0
             /\ t.added = 0 /\ t.sent = 0 /\ ~ t.oom /\ t.iovsize = v /\ t.msgsize = m
<1> PICK t : t = Fresh(v, q, m)
  OBVIOUS
<1> PICK e \in Seq(Entry) : e = <<>> /\ Len(e) = 0
  BY EmptySeq
<1>1. t = [iov |-> e, iovsize |-> v, msglist |-> q, msgsize |-> m, msgcurr |-> 1,
           msgbytes |-> 0, added |-> 0, sent |-> 0, oom |-> FALSE]
  BY DEF Fresh
<1>2. t \in Lists
  BY <1>1 DEF Lists
<1>3. /\ t.iov = e /\ t.msglist = q /\ t.msgcurr = 1 /\ t.msgbytes = 0
      /\ t.added = 0 /\ t.sent = 0 /\ ~ t.oom /\ t.iovsize = v /\ t.msgsize = m
  BY <1>1
<1>4. QED
  BY <1>2, <1>3

\* A command starts with lists that a response can be added to.
LEMMA EmptiedBuilding ==
  ASSUME NEW r, Whole(r), NEW t, t = Emptied(r)
  PROVE  Building(t)
<1> PICK none : none = [msg_iov |-> 1, msg_iovlen |-> 0]
  OBVIOUS
<1>1. r \in Lists /\ r.iovsize > 0 /\ r.msgsize > 0 /\ r.iovsize \in Nat /\ r.msgsize \in Nat
  BY ListsTypes DEF Whole, Good
<1>2. none \in Message
  BY DEF Message
<1>3. <<none>> \in Seq(Message) /\ Len(<<none>>) = 1 /\ <<none>>[1] = none
  BY <1>2
<1>4. /\ t \in Lists /\ Len(t.iov) = 0 /\ t.msglist = <<none>> /\ t.msgcurr = 1 /\ t.msgbytes = 0
      /\ t.added = 0 /\ t.sent = 0 /\ ~ t.oom /\ t.iovsize = r.iovsize /\ t.msgsize = r.msgsize
  <2>1. PICK q \in Seq(Message) : q = <<none>>
    BY <1>3
  <2>2. t = Fresh(r.iovsize, q, r.msgsize)
    BY <2>1 DEF Emptied
  <2>3. /\ t \in Lists /\ Len(t.iov) = 0 /\ t.msglist = q /\ t.msgcurr = 1 /\ t.msgbytes = 0
        /\ t.added = 0 /\ t.sent = 0 /\ ~ t.oom /\ t.iovsize = r.iovsize /\ t.msgsize = r.msgsize
    BY <1>1, <2>2, FreshFields
  <2>4. QED
    BY <2>1, <2>3, Zenon
<1>5. L(t) = 1 /\ Len(t.iov) = 0 /\ LastMsg(t) = none /\ t.msglist[1] = none
  BY <1>3, <1>4 DEF L, LastMsg
<1>6. Placed(t)
  <2>1. Before(t, 1) = 0 /\ Before(t, 1 + 1) = Before(t, 1) + t.msglist[1].msg_iovlen
    <3>1. Len(t.msglist) = 1
      BY <1>5 DEF L
    <3>2. 1 \in 1 .. Len(t.msglist)
      BY <3>1
    <3>3. QED
      BY <1>4, <3>2, BeforeNext
  <2>2. none.msg_iov = 1 /\ none.msg_iovlen = 0
    OBVIOUS
  <2>3. QED
    BY <1>5, <2>1, <2>2 DEF Placed
<1>7. NumBytes(t, none) = 0
  <2>1. Within(t, none)
    BY <1>5 DEF Within
  <2>2. QED
    BY <1>2, <1>4, <2>1, NumBytesType
<1>8. EntriesFollow(t, 1, 1)
  BY <1>4, <1>5 DEF EntriesFollow
<1>9. Frame(t)
  BY <1>1, <1>4, <1>5, <1>6, <1>7, <1>8, ConstantTypes DEF Frame, Fits
<1>10. Sendable(t)
  BY <1>4, <1>5, <1>7, ConstantTypes DEF Sendable, Small, Filled
<1>11. QED
  BY <1>4, <1>9, <1>10 DEF Building

\* The lists of a new connection, with arrays of any size.
LEMMA NewWhole ==
  ASSUME NEW v, NEW m, v \in Nat /\ m \in Nat /\ v > 0 /\ m > 0, NEW q \in Seq(Message), Len(q) = 0,
         NEW t, t = Fresh(v, q, m)
  PROVE  Whole(t)
<1>0. /\ t \in Lists /\ Len(t.iov) = 0 /\ Len(t.msglist) = 0 /\ t.msgcurr = 1 /\ t.added = 0 /\ t.sent = 0
      /\ t.iovsize > 0 /\ t.msgsize > 0
  <2>1. PICK e \in Seq(Entry) : e = <<>> /\ Len(e) = 0
    BY EmptySeq
  <2>2. t = [iov |-> e, iovsize |-> v, msglist |-> q, msgsize |-> m, msgcurr |-> 1,
             msgbytes |-> 0, added |-> 0, sent |-> 0, oom |-> FALSE]
    BY <2>1 DEF Fresh
  <2>3. t \in Lists
    BY <2>2 DEF Lists
  <2>4. t.iov = e /\ t.msglist = q /\ t.msgcurr = 1 /\ t.added = 0 /\ t.sent = 0 /\ t.iovsize = v /\ t.msgsize = m
    BY <2>2
  <2>5. QED
    BY <2>1, <2>3, <2>4
<1>1. L(t) = 0 /\ Len(t.iov) = 0 /\ Len(t.msglist) = 0
  BY <1>0 DEF L
<1>2. Good(t)
  BY <1>0, <1>1 DEF Good
<1>3. First(t) = 1
  BY <1>0, <1>1 DEF First
<1>4. MessagesFollow(t, t.msgcurr)
  BY <1>0, <1>1 DEF MessagesFollow
<1>5. EntriesFollow(t, First(t), t.sent + 1)
  BY <1>0, <1>1, <1>3 DEF EntriesFollow
<1>6. Sendable(t)
  BY <1>0, <1>1 DEF Sendable, Small, Filled
<1>7. QED
  BY <1>0, <1>2, <1>4, <1>5, <1>6 DEF Whole, Exact

-----------------------------------------------------------------------------
(* The invariant is inductive *)

\* A response is being put together, or about to be; and being sent.
BeingBuilt == adding # "nothing" \/ (state = "conn_write" /\ lists.iov = <<>>)
BeingSent == adding = "nothing" /\ (state = "conn_mwrite" \/ (state = "conn_write" /\ lists.iov # <<>>))

\* What sendmsg took of the current message is still in the lists.
Taken == res # Idle => BeingSent /\ lists.msgcurr <= L(lists) /\ res <= NumBytes(lists, Current)

Phases ==
  /\ adding \in {"values", "END"} => state = "conn_mwrite"
  /\ adding = "answer" => state = "conn_write"
  /\ adding = "nothing" => parts = <<>>

IInv ==
  /\ TypeOK /\ Whole(lists) /\ Phases /\ Taken
  /\ BeingBuilt => Building(lists)
  /\ BeingSent => Fits(lists)

\* The parts of the invariant.
LEMMA InvParts ==
  ASSUME IInv
  PROVE  /\ lists \in Lists /\ Whole(lists) /\ res \in Nat \cup {Idle}
         /\ adding \in {"nothing", "values", "END", "answer"}
         /\ state \in {"conn_read", "conn_write", "conn_mwrite", "conn_closing"}
         /\ hits \in Seq(DataLens) /\ parts \in Seq(Nat \ {0})
         /\ res # Idle => adding = "nothing" /\ state \in {"conn_write", "conn_mwrite"}
BY DEF IInv, TypeOK, Taken, BeingSent

LEMMA InitIInv == Init => IInv
<1> SUFFICES ASSUME Init PROVE IInv
  OBVIOUS
<1>1. Whole(lists)
  <2>1. PICK q \in Seq(Message) : q = <<>> /\ Len(q) = 0
    BY EmptySeq
  <2>2. lists = Fresh(IOV_LIST_INITIAL, q, MSG_LIST_INITIAL)
    BY <2>1 DEF Init, NewLists
  <2>3. /\ IOV_LIST_INITIAL \in Nat /\ MSG_LIST_INITIAL \in Nat
        /\ IOV_LIST_INITIAL > 0 /\ MSG_LIST_INITIAL > 0
    BY ConstantTypes
  <2>4. QED
    BY <2>1, <2>2, <2>3, NewWhole
<1>2. TypeOK
  <2>1. lists \in Lists
    BY <1>1 DEF Whole
  <2>2. QED
    BY <2>1, EmptySeq DEF Init, TypeOK
<1>3. Phases /\ Taken /\ ~ BeingBuilt /\ ~ BeingSent
  BY DEF Init, Phases, Taken, BeingBuilt, BeingSent, Idle
<1>4. QED
  BY <1>1, <1>2, <1>3 DEF IInv

\* A command.
LEMMA CommandIInv == IInv /\ (process_command \/ command_get) => IInv'
<1> SUFFICES ASSUME IInv, process_command \/ command_get PROVE IInv'
  OBVIOUS
<1>1. state = "conn_read" /\ lists' = Emptied(lists) /\ parts' = parts /\ res' = res
  BY DEF process_command, command_get
<1>2. Building(lists') /\ Whole(lists') /\ lists' \in Lists /\ Fits(lists')
  <2>1. Building(lists')
    BY <1>1, InvParts, EmptiedBuilding
  <2>2. QED
    BY <2>1, BuildingWhole DEF Building, Frame
<1>3. res = Idle /\ adding = "nothing" /\ parts = <<>>
  <2>1. adding = "nothing" /\ res = Idle
    BY <1>1, InvParts DEF IInv, Phases
  <2>2. QED
    BY <2>1 DEF IInv, Phases
<1>4. state' \in {"conn_read", "conn_write", "conn_mwrite", "conn_closing"} /\ adding' \in {"nothing", "values"}
  BY <1>3 DEF process_command, command_get
<1>5. adding' = "values" => state' = "conn_mwrite"
  BY <1>3 DEF process_command, command_get
<1>6. hits' \in Seq(DataLens)
  <2>1. CASE process_command
    BY <2>1, InvParts DEF process_command
  <2>2. CASE command_get
    <3>1. hits' \in UNION {[1 .. n -> DataLens] : n \in 0 .. MaxHits}
      BY <2>2 DEF command_get, BoundedSeq, SeqOf
    <3>2. PICK n \in Nat : hits' \in [1 .. n -> DataLens]
      BY <3>1, ResponseAssumption
    <3>3. QED
      BY <3>2, SeqDef
  <2>3. QED
    BY <2>1, <2>2
<1>7. TypeOK'
  BY <1>1, <1>2, <1>4, <1>6, InvParts DEF TypeOK
<1>8. Phases' /\ Taken'
  BY <1>1, <1>3, <1>4, <1>5 DEF Phases, Taken
<1>9. QED
  BY <1>2, <1>7, <1>8 DEF IInv, BeingBuilt, BeingSent

\* What is to be added to a response.
LEMMA AddingIInv == IInv /\ (next_hit \/ end_of_hits \/ start_answer \/ response_ready) => IInv'
<1> SUFFICES ASSUME IInv, next_hit \/ end_of_hits \/ start_answer \/ response_ready PROVE IInv'
  OBVIOUS
<1>1. lists' = lists /\ res' = res /\ state' = state
  BY DEF next_hit, end_of_hits, start_answer, response_ready
<1>2. BeingBuilt
  BY DEF next_hit, end_of_hits, start_answer, response_ready, BeingBuilt
<1>3. Building(lists) /\ Fits(lists)
  BY <1>2 DEF IInv, Building, Frame
<1>4. res = Idle
  BY <1>2, InvParts DEF BeingBuilt, IInv, Taken, BeingSent
<1>5. hits' \in Seq(DataLens)
  <2>1. CASE next_hit
    BY <2>1, InvParts DEF next_hit
  <2>2. CASE end_of_hits
    BY <2>2, EmptySeq DEF end_of_hits, End
  <2>3. CASE start_answer \/ response_ready
    BY <2>3, InvParts DEF start_answer, response_ready
  <2>4. QED
    BY <2>1, <2>2, <2>3
<1>6. parts' \in Seq(Nat \ {0}) /\ (adding' = "nothing" => parts' = <<>>)
  <2>1. CASE next_hit
    <3>1. Head(hits) \in DataLens
      BY <2>1, InvParts DEF next_hit
    <3>2. Head(hits) \in Nat \ {0}
      BY <3>1, ConstantTypes
    <3>3. <<1, 1, Head(hits)>> \in Seq(Nat \ {0})
      BY <3>2
    <3>4. QED
      BY <2>1, <3>3 DEF next_hit
  <2>2. CASE end_of_hits
    BY <2>2 DEF end_of_hits, End
  <2>3. CASE start_answer
    BY <2>3, ConstantTypes DEF start_answer
  <2>4. CASE response_ready
    BY <2>4, InvParts DEF response_ready
  <2>5. QED
    BY <2>1, <2>2, <2>3, <2>4
<1>7. /\ adding' \in {"nothing", "values", "END", "answer"}
      /\ adding' \in {"values", "END"} => state = "conn_mwrite"
      /\ adding' = "answer" => state = "conn_write"
  BY InvParts DEF next_hit, end_of_hits, start_answer, response_ready, End, IInv, Phases
<1>8. TypeOK'
  BY <1>1, <1>5, <1>6, <1>7, InvParts DEF TypeOK
<1>9. Phases' /\ Taken'
  BY <1>1, <1>4, <1>6, <1>7 DEF Phases, Taken
<1>10. QED
  BY <1>1, <1>3, <1>8, <1>9, InvParts DEF IInv, BeingBuilt, BeingSent

\* A turn of the loop of add_iov.
LEMMA AddPartIInv == IInv /\ add_part => IInv'
<1> SUFFICES ASSUME IInv, add_part PROVE IInv'
  OBVIOUS
<1>1. adding # "nothing" /\ res = Idle /\ res' = res /\ Building(lists)
  <2>1. adding # "nothing"
    BY DEF add_part, IInv, Phases
  <2>2. QED
    BY <2>1, InvParts DEF add_part, IInv, BeingBuilt
<1>2. parts \in Seq(Nat \ {0}) /\ parts # <<>> /\ Head(parts) \in Nat \ {0} /\ Tail(parts) \in Seq(Nat \ {0})
  BY InvParts DEF add_part
<1>3. PICK turn \in add_iov(lists, Head(parts)) :
        /\ lists' = turn.lists
        /\ \/ turn.failed /\ add_failed
           \/ /\ ~ turn.failed
              /\ parts' = (IF turn.leftover > 0 THEN <<turn.leftover>> ELSE <<>>) \o Tail(parts)
              /\ UNCHANGED <<adding, hits, state>>
  BY DEF add_part
<1>4. Building(lists') /\ Whole(lists') /\ lists' \in Lists /\ Fits(lists') /\ turn.leftover \in Nat
  <2>1. Building(turn.lists) /\ turn.leftover \in Nat
    BY <1>1, <1>2, AddIovBuilding
  <2>2. QED
    BY <1>3, <2>1, BuildingWhole DEF Building, Frame
<1>5. /\ hits' \in Seq(DataLens) /\ parts' \in Seq(Nat \ {0})
      /\ state' \in {"conn_read", "conn_write", "conn_mwrite", "conn_closing"}
      /\ adding' \in {"nothing", "values", "END", "answer"}
      /\ adding' \in {"values", "END"} => state' = "conn_mwrite"
      /\ adding' = "answer" => state' = "conn_write"
      /\ adding' = "nothing" => parts' = <<>>
  <2>1. CASE turn.failed
    <3>1. add_failed
      BY <1>3, <2>1
    <3>2. CASE adding = "values"
      <4>1. adding' = "END" /\ hits' = <<>> /\ parts' = <<1>> /\ state' = state
        BY <3>1, <3>2 DEF add_failed, End
      <4>2. hits' \in Seq(DataLens)
        BY <4>1, EmptySeq
      <4>3. QED
        BY <3>2, <4>1, <4>2, InvParts DEF IInv, Phases
    <3>3. CASE adding = "END"
      BY <3>1, <3>3, InvParts DEF add_failed, IInv, Phases
    <3>4. CASE adding = "answer"
      BY <3>1, <3>4, InvParts DEF add_failed
    <3>5. QED
      BY <1>1, <3>2, <3>3, <3>4, InvParts
  <2>2. CASE ~ turn.failed
    <3>1. parts' = (IF turn.leftover > 0 THEN <<turn.leftover>> ELSE <<>>) \o Tail(parts)
      BY <1>3, <2>2
    <3>2. adding' = adding /\ hits' = hits /\ state' = state
      BY <1>3, <2>2
    <3>3. parts' \in Seq(Nat \ {0})
      <4>1. PICK n \in Nat : n = turn.leftover
        BY <1>4
      <4>2. CASE n > 0
        <5>0. (IF turn.leftover > 0 THEN <<turn.leftover>> ELSE <<>>) = <<n>>
          BY <4>1, <4>2
        <5>1. n \in Nat \ {0} /\ parts' = <<n>> \o Tail(parts)
          <6>1. n \in Nat \ {0}
            BY <4>2
          <6>2. parts' = <<n>> \o Tail(parts)
            BY <3>1, <5>0, Zenon
          <6>3. QED
            BY <6>1, <6>2
        <5>2. <<n>> \in Seq(Nat \ {0})
          BY <5>1
        <5>3. QED
          BY <1>2, <5>1, <5>2, ConcatProperties
      <4>3. CASE ~ (n > 0)
        <5>1. parts' = <<>> \o Tail(parts)
          BY <3>1, <4>1, <4>3
        <5>2. QED
          BY <1>2, <5>1, ConcatEmptySeq
      <4>4. QED
        BY <4>2, <4>3
    <3>4. QED
      BY <1>1, <3>2, <3>3, InvParts DEF IInv, Phases
  <2>3. QED
    BY <2>1, <2>2
<1>6. TypeOK'
  BY <1>1, <1>4, <1>5, InvParts DEF TypeOK
<1>7. Phases' /\ Taken'
  BY <1>1, <1>5 DEF Phases, Taken
<1>8. QED
  BY <1>4, <1>6, <1>7 DEF IInv, BeingBuilt, BeingSent


\* Whose turn it is when a response is sent.
LEMMA WritingIsSending == IInv => (Writing <=> BeingSent /\ res = Idle)
BY DEF Writing, BeingSent

LEMMA TransmitIInv == IInv /\ transmit => IInv'
<1> SUFFICES ASSUME IInv, transmit PROVE IInv'
  OBVIOUS
<1> PICK m : m = lists'.msglist[lists'.msgcurr]
  OBVIOUS
<1>1. /\ adding = "nothing" /\ state \in {"conn_mwrite", "conn_write"} /\ Fits(lists)
      /\ state = "conn_write" => lists.iov # <<>>
  BY DEF transmit, Writing, IInv, BeingSent
<1>2. /\ lists' = Advanced(lists) /\ lists'.msgcurr <= Len(lists'.msglist)
      /\ state' = state /\ adding' = adding /\ hits' = hits /\ parts' = parts
      /\ res' \in 1 .. NumBytes(lists', m)
  BY DEF transmit
<1>3. /\ Whole(lists') /\ lists'.iov = lists.iov /\ lists'.msglist = lists.msglist
      /\ lists'.iovsize = lists.iovsize /\ lists'.msgsize = lists.msgsize
  BY <1>2, InvParts, AdvancedWhole
<1>4. lists' \in Lists /\ Fits(lists')
  BY <1>1, <1>3 DEF Whole, Fits, L
<1>5. NumBytes(lists', m) \in Nat
  <2>1. lists'.msgcurr \in 1 .. L(lists')
    BY <1>2, <1>3, WholeTypes DEF L
  <2>2. m \in Message /\ Within(lists', m)
    BY <1>3, <2>1, WholeTypes
  <2>3. QED
    BY <1>4, <2>2, NumBytesType
<1>6. res' \in Nat /\ res' <= NumBytes(lists', m)
  BY <1>2, <1>5
<1>7. TypeOK'
  BY <1>2, <1>4, <1>6, InvParts DEF TypeOK
<1>8. Phases' /\ ~ BeingBuilt' /\ BeingSent'
  BY <1>1, <1>2, <1>3 DEF IInv, Phases, BeingBuilt, BeingSent
<1>9. Taken'
  BY <1>2, <1>6, <1>8 DEF Taken, Current, L
<1>10. QED
  BY <1>3, <1>4, <1>7, <1>8, <1>9 DEF IInv

\* What is known in the loop of transmit, and after it.
LEMMA InLoop ==
  ASSUME IInv, res # Idle
  PROVE  /\ BeingSent /\ Fits(lists) /\ res \in Nat
         /\ lists.msgcurr \in 1 .. L(lists) /\ Current = lists.msglist[lists.msgcurr]
         /\ Current \in Message /\ Current.msg_iovlen \in Nat
         /\ res <= NumBytes(lists, Current)
<1>1. Whole(lists) /\ lists.msgcurr <= L(lists) /\ res \in Nat
  BY InvParts DEF IInv, Taken
<1>2. lists.msgcurr \in 1 .. L(lists)
  BY <1>1, WholeTypes
<1>3. QED
  BY <1>1, <1>2, WholeTypes DEF IInv, Taken, Current

LEMMA EntrySentIInv == IInv /\ entry_sent => IInv'
<1> SUFFICES ASSUME IInv, entry_sent PROVE IInv'
  OBVIOUS
<1> PICK c : c = lists.msgcurr
  OBVIOUS
<1> PICK m : m = Current
  OBVIOUS
<1> PICK p : p = m.msg_iov
  OBVIOUS
<1> PICK len : len = lists.iov[p].iov_len
  OBVIOUS
<1> PICK q : q = lists.msglist
  OBVIOUS
<1>1. /\ res # Idle /\ m.msg_iovlen > 0 /\ res >= len /\ res' = res - len
      /\ state' = state /\ adding' = adding /\ hits' = hits /\ parts' = parts
  BY DEF entry_sent, FirstDone, FirstEntry
<1>2. /\ BeingSent /\ Fits(lists) /\ res \in Nat
      /\ c \in 1 .. L(lists) /\ m = q[c] /\ m \in Message /\ m.msg_iovlen \in Nat
      /\ res <= NumBytes(lists, m) /\ q \in Seq(Message) /\ lists \in Lists /\ L(lists) = Len(q)
  <2>1. lists \in Lists /\ L(lists) = Len(q)
    BY InvParts DEF L
  <2>2. q \in Seq(Message)
    BY <2>1, ListsTypes
  <2>3. /\ BeingSent /\ Fits(lists) /\ res \in Nat
        /\ c \in 1 .. L(lists) /\ m = q[c] /\ m \in Message /\ m.msg_iovlen \in Nat
        /\ res <= NumBytes(lists, m)
    BY <1>1, InLoop
  <2>4. QED
    BY <2>1, <2>2, <2>3
<1>3. Rest(m) \in Message /\ lists.sent + len \in Nat /\ len \in Nat
  <2>1. Rest(m) \in Message /\ p \in 1 .. Len(lists.iov)
    <3>1. Whole(lists) /\ m = lists.msglist[lists.msgcurr] /\ m.msg_iovlen > 0
      BY <1>1, <1>2, InvParts
    <3>2. lists.msgcurr <= L(lists)
      BY InLoop, <1>1, <3>1, WholeTypes
    <3>3. QED
      BY <3>1, <3>2, CurrentFirst
  <2>2. len \in Nat /\ lists.sent \in Nat
    BY <1>2, <2>1, ListsTypes
  <2>3. \A x, y \in Nat : x + y \in Nat
    OBVIOUS
  <2>4. QED
    BY <2>1, <2>2, <2>3
<1> PICK f : f = Rest(m)
  OBVIOUS
<1> PICK n : n = lists.sent + len
  OBVIOUS
<1>4. lists' = [lists EXCEPT !.msglist = [q EXCEPT ![c] = f], !.sent = n]
  <2>1. lists' = [lists EXCEPT !.msglist[c] = f, !.sent = n]
    BY <1>2 DEF entry_sent, FirstEntry, Rest
  <2>2. QED
    BY <2>1
<1>5. [q EXCEPT ![c] = f] \in Seq(Message)
  BY <1>2, <1>3, ExceptSeq DEF L
<1>6. /\ lists' \in Lists /\ lists'.iov = lists.iov /\ lists'.msglist = [q EXCEPT ![c] = f]
      /\ lists'.msgcurr = c /\ lists'.iovsize = lists.iovsize /\ lists'.msgsize = lists.msgsize
      /\ lists'.sent = n /\ lists'.added = lists.added /\ lists'.oom = lists.oom
  BY <1>2, <1>3, <1>4, <1>5 DEF Lists
<1>7. L(lists') = L(lists) /\ \A k \in 1 .. L(lists) : lists'.msglist[k] = IF k = c THEN f ELSE q[k]
  <2> PICK x : x = [q EXCEPT ![c] = f]
    OBVIOUS
  <2>1. c \in 1 .. Len(q) /\ f \in Message
    BY <1>2, <1>3
  <2>2. Len(x) = Len(q) /\ \A k \in 1 .. Len(q) : x[k] = IF k = c THEN f ELSE q[k]
    <3>1. q \in Seq(Message)
      BY <1>2
    <3>2. QED
      BY <2>1, <3>1, ExceptSeq
  <2>3. QED
    BY <1>2, <1>6, <2>2 DEF L
<1>8. Whole(lists') /\ NumBytes(lists, m) = len + NumBytes(lists', lists'.msglist[c])
  <2>1. SameBut(lists, lists', len)
    BY <1>6 DEF SameBut
  <2>2. c <= L(lists) /\ m = lists.msglist[c] /\ Whole(lists)
    <3>1. c <= L(lists)
      <4>1. L(lists) \in Nat
        BY InvParts, WholeTypes
      <4>2. QED
        BY <1>2, <4>1
    <3>2. QED
      BY <1>2, <3>1, InvParts
  <2>3. lists'.msglist[c] = Rest(m)
    BY <1>2, <1>7
  <2>4. \A k \in 1 .. L(lists) : k # c => lists'.msglist[k] = lists.msglist[k]
    BY <1>7
  <2>5. FirstSent(lists, lists', len)
    BY <1>1, <1>6, <1>7, <2>1, <2>2, <2>3, <2>4 DEF FirstSent
  <2>6. QED
    BY <2>2, <2>5, FirstSentWhole
<1>9. res' \in Nat /\ res' <= NumBytes(lists', lists'.msglist[c])
  <2>1. NumBytes(lists', lists'.msglist[c]) \in Nat
    <3>1. c \in 1 .. L(lists')
      BY <1>2, <1>7
    <3>2. lists'.msglist[c] \in Message /\ Within(lists', lists'.msglist[c])
      BY <1>8, <3>1, WholeTypes
    <3>3. QED
      BY <1>6, <3>2, NumBytesType
  <2>2. res <= len + NumBytes(lists', lists'.msglist[c])
    BY <1>2, <1>8
  <2>3. \A x, y, z \in Nat : x >= y /\ x <= y + z => x - y \in Nat /\ x - y <= z
    OBVIOUS
  <2>4. QED
    BY <1>1, <1>2, <1>3, <2>1, <2>2, <2>3
<1>10. TypeOK'
  BY <1>1, <1>6, <1>9, InvParts DEF TypeOK
<1>11. Phases' /\ BeingSent' /\ ~ BeingBuilt'
  BY <1>1, <1>2, <1>6 DEF IInv, Phases, BeingSent, BeingBuilt
<1>12. Fits(lists')
  BY <1>2, <1>6, <1>7 DEF Fits
<1>13. Taken'
  <2>1. Current' = lists'.msglist[c]
    BY <1>6 DEF Current
  <2>2. lists'.msgcurr <= L(lists')
    <3>1. c \in 1 .. L(lists') /\ L(lists') \in Nat
      BY <1>2, <1>7, <1>8, WholeTypes
    <3>2. c <= L(lists')
      BY <3>1
    <3>3. QED
      BY <1>6, <3>2
  <2>3. QED
    BY <1>9, <1>11, <2>1, <2>2 DEF Taken
<1>14. QED
  BY <1>8, <1>10, <1>11, <1>12, <1>13 DEF IInv

LEMMA EntryAdjustedIInv == IInv /\ entry_adjusted => IInv'
<1> SUFFICES ASSUME IInv, entry_adjusted PROVE IInv'
  OBVIOUS
<1> PICK c : c = lists.msgcurr
  OBVIOUS
<1> PICK m : m = Current
  OBVIOUS
<1> PICK p : p = m.msg_iov
  OBVIOUS
<1> PICK q : q = lists.iov
  OBVIOUS
<1> PICK n : n = res
  OBVIOUS
<1>1. /\ n # Idle /\ ~ (m.msg_iovlen > 0 /\ n >= q[p].iov_len) /\ res' = Idle
      /\ state' = state /\ adding' = adding /\ hits' = hits /\ parts' = parts
  BY DEF entry_adjusted, FirstDone, FirstEntry
<1>2. /\ BeingSent /\ Fits(lists) /\ n \in Nat
      /\ c \in 1 .. L(lists) /\ m = lists.msglist[c] /\ m \in Message /\ m.msg_iovlen \in Nat
      /\ n <= NumBytes(lists, m) /\ q \in Seq(Entry) /\ lists \in Lists /\ Whole(lists)
  BY <1>1, InLoop, InvParts, ListsTypes
<1>3. Whole(lists') /\ Len(lists'.iov) = Len(q) /\ lists'.msglist = lists.msglist
      /\ lists'.iovsize = lists.iovsize /\ lists'.msgsize = lists.msgsize
  <2>1. CASE n = 0
    BY <1>2, <2>1 DEF entry_adjusted
  <2>2. CASE n # 0
    <3>1. m.msg_iovlen > 0
      <4>1. Within(lists, m)
        BY <1>2, WholeTypes
      <4>2. m.msg_iovlen = 0 => NumBytes(lists, m) = 0
        BY <1>2, <4>1, NumBytesType
      <4>3. QED
        BY <1>2, <2>2, <4>2
    <3>2. c <= L(lists)
      BY <1>2, WholeTypes
    <3>3. p \in 1 .. Len(q)
      BY <1>2, <3>1, <3>2, CurrentFirst
    <3>4. q[p].iov_base \in Nat /\ q[p].iov_len \in Nat
      BY <1>2, <3>3, WholeTypes
    <3>5. n < q[p].iov_len
      BY <1>1, <1>2, <3>1, <3>4
    <3> PICK e : e = [iov_base |-> q[p].iov_base + n, iov_len |-> q[p].iov_len - n]
      OBVIOUS
    <3> PICK b : b = lists.sent + n
      OBVIOUS
    <3>6. e \in Entry /\ b \in Nat
      <4>1. \A x, y \in Nat : x + y \in Nat /\ (x < y => y - x \in Nat)
        OBVIOUS
      <4>2. lists.sent \in Nat
        BY <1>2, ListsTypes
      <4>3. q[p].iov_base + n \in Nat /\ q[p].iov_len - n \in Nat /\ b \in Nat
        BY <1>2, <3>4, <3>5, <4>1, <4>2
      <4>4. QED
        BY <4>3 DEF Entry
    <3>7. lists' = [lists EXCEPT !.iov = [q EXCEPT ![p] = e], !.sent = b]
      <4>1. lists' = [lists EXCEPT !.iov[p] = e, !.sent = b]
        BY <2>2 DEF entry_adjusted
      <4>2. [lists EXCEPT !.iov[p] = e, !.sent = b] = [lists EXCEPT !.iov = [q EXCEPT ![p] = e], !.sent = b]
        OBVIOUS
      <4>3. QED
        BY <4>1, <4>2
    <3>8. [q EXCEPT ![p] = e] \in Seq(Entry)
      BY <1>2, <3>3, <3>6, ExceptSeq
    <3>9. /\ lists' \in Lists /\ lists'.iov = [q EXCEPT ![p] = e] /\ lists'.msglist = lists.msglist
          /\ lists'.msgcurr = lists.msgcurr /\ lists'.iovsize = lists.iovsize
          /\ lists'.msgsize = lists.msgsize
          /\ lists'.sent = b /\ lists'.added = lists.added /\ lists'.oom = lists.oom
      BY <1>2, <3>6, <3>7, <3>8 DEF Lists
    <3>10. Len(lists'.iov) = Len(q) /\ \A k \in 1 .. Len(q) : lists'.iov[k] = IF k = p THEN e ELSE q[k]
      <4>1. q \in Seq(Entry) /\ lists'.iov \in Seq(Entry)
        BY <1>2, <3>8, <3>9
      <4>2. DOMAIN q = 1 .. Len(q) /\ DOMAIN lists'.iov = 1 .. Len(lists'.iov)
        BY <4>1
      <4>3. DOMAIN lists'.iov = DOMAIN q /\ \A k \in DOMAIN q : lists'.iov[k] = IF k = p THEN e ELSE q[k]
        BY <3>9
      <4>4. Len(q) \in Nat /\ Len(lists'.iov) \in Nat
        BY <4>1
      <4>5. \A x, y \in Nat : 1 .. x = 1 .. y => x = y
        OBVIOUS
      <4>6. Len(lists'.iov) = Len(q)
        BY <4>2, <4>3, <4>4, <4>5
      <4>7. QED
        BY <4>2, <4>3, <4>6
    <3>11. SameBut(lists, lists', n)
      BY <3>9 DEF SameBut
    <3>12. lists'.iov[p].iov_base = q[p].iov_base + n /\ lists'.iov[p].iov_len = q[p].iov_len - n
      BY <3>3, <3>10
    <3>13. \A k \in 1 .. Len(q) : k # p => lists'.iov[k] = q[k]
      BY <3>10
    <3>14. n \in Nat \ {0}
      BY <1>2, <2>2
    <3>15. Whole(lists')
      <4> PICK t : t = lists'
        OBVIOUS
      <4>1. /\ Whole(lists) /\ lists.msgcurr <= L(lists) /\ n \in Nat \ {0} /\ n <= NumBytes(lists, m)
            /\ t \in Lists /\ SameBut(lists, t, n) /\ t.msglist = lists.msglist /\ Len(t.iov) = Len(lists.iov)
            /\ m = lists.msglist[lists.msgcurr]
        BY <1>2, <3>2, <3>9, <3>10, <3>11, <3>14
      <4>2. /\ ~ (m.msg_iovlen > 0 /\ n >= lists.iov[p].iov_len)
            /\ t.iov[p].iov_base = lists.iov[p].iov_base + n
            /\ t.iov[p].iov_len = lists.iov[p].iov_len - n
            /\ \A k \in 1 .. Len(lists.iov) : k # p => t.iov[k] = lists.iov[k]
        BY <1>1, <3>12, <3>13
      <4>3. PartSent(lists, t, n)
        BY <4>1, <4>2, Zenon DEF PartSent
      <4>4. QED
        BY <4>3, PartSentWhole
    <3>16. QED
      BY <3>9, <3>10, <3>15
  <2>3. QED
    BY <2>1, <2>2
<1>4. lists' \in Lists /\ Fits(lists')
  BY <1>2, <1>3 DEF Whole, Fits, L
<1>5. q = <<>> <=> lists'.iov = <<>>
  <2>1. lists'.iov \in Seq(Entry)
    BY <1>4, ListsTypes
  <2>2. QED
    BY <1>2, <1>3, <2>1, EmptySeq
<1>6. TypeOK'
  BY <1>1, <1>4, InvParts DEF TypeOK
<1>7. Phases' /\ BeingSent' /\ ~ BeingBuilt'
  BY <1>1, <1>2, <1>5 DEF IInv, Phases, BeingSent, BeingBuilt
<1>8. Taken'
  BY <1>1 DEF Taken
<1>9. QED
  BY <1>3, <1>4, <1>6, <1>7, <1>8 DEF IInv

\* The end of a response, and of a connection.
LEMMA EndIInv == IInv /\ (transmit_complete \/ broken \/ conn_close) => IInv'
<1> SUFFICES ASSUME IInv, transmit_complete \/ broken \/ conn_close PROVE IInv'
  OBVIOUS
<1>1. /\ adding' = adding /\ hits' = hits /\ parts' = parts /\ res' = res
      /\ state' \in {"conn_read", "conn_closing"}
  BY DEF transmit_complete, broken, conn_close
<1>2. adding = "nothing" /\ res = Idle /\ parts = <<>>
  <2>1. adding = "nothing" /\ res = Idle
    <3>1. CASE Writing
      BY <3>1 DEF Writing
    <3>2. CASE state \in {"conn_read", "conn_closing"}
      BY <3>2, InvParts DEF IInv, Phases
    <3>3. QED
      BY <3>1, <3>2 DEF transmit_complete, broken, conn_close
  <2>2. QED
    BY <2>1 DEF IInv, Phases
<1>3. Whole(lists')
  <2>1. CASE transmit_complete
    <3>1. PICK r, m, v : /\ r = Advanced(lists)
                         /\ m \in Shrunk(r.msgsize, MSG_LIST_HIGHWAT, MSG_LIST_INITIAL)
                         /\ v \in Shrunk(r.iovsize, IOV_LIST_HIGHWAT, IOV_LIST_INITIAL)
                         /\ lists' = [r EXCEPT !.msgsize = m, !.iovsize = v]
      BY <2>1 DEF transmit_complete
    <3>2. Whole(r)
      BY <3>1, InvParts, AdvancedWhole
    <3>3. QED
      BY <3>1, <3>2, ShrunkWhole
  <2>2. CASE broken
    BY <2>2, InvParts DEF broken
  <2>3. CASE conn_close
    <3>1. PICK q \in Seq(Message) : q = <<>> /\ Len(q) = 0
      BY EmptySeq
    <3>2. PICK v, m : lists' = Fresh(v, q, m) /\ v \in Nat /\ m \in Nat /\ v > 0 /\ m > 0
      <4>1. CASE lists' = NewLists
        BY <3>1, <4>1, ConstantTypes DEF NewLists
      <4>2. CASE lists' = Fresh(lists.iovsize, <<>>, lists.msgsize)
        BY <3>1, <4>2, InvParts, ListsTypes DEF Whole, Good
      <4>3. QED
        BY <2>3, <4>1, <4>2 DEF conn_close
    <3>3. QED
      BY <3>1, <3>2, NewWhole
  <2>4. QED
    BY <2>1, <2>2, <2>3
<1>4. TypeOK'
  BY <1>1, <1>3, InvParts DEF TypeOK, Whole
<1>5. Phases' /\ Taken' /\ ~ BeingBuilt' /\ ~ BeingSent'
  BY <1>1, <1>2 DEF Phases, Taken, BeingBuilt, BeingSent
<1>6. QED
  BY <1>3, <1>4, <1>5 DEF IInv

LEMMA StutterIInv == IInv /\ UNCHANGED vars => IInv'
BY DEF vars, IInv, TypeOK, Phases, Taken, Current, BeingBuilt, BeingSent

\* The invariant holds in every reachable state.
LEMMA Invariant == Spec => []IInv
<1>1. IInv /\ [Next]_vars => IInv'
  BY CommandIInv, AddingIInv, AddPartIInv, TransmitIInv, EntrySentIInv, EntryAdjustedIInv,
     EndIInv, StutterIInv DEF Next
<1>2. QED
  BY <1>1, InitIInv, PTL DEF Spec

-----------------------------------------------------------------------------
(* The theorems *)

\* No size and no count goes below zero, whatever the limits and the sizes.
THEOREM TypeCorrect == Spec => []TypeOK
<1>1. IInv => TypeOK
  BY DEF IInv
<1>2. QED
  BY <1>1, Invariant, PTL

\* What is still to be sent is what was added and not sent yet, each byte once
\* and in order (connection.c:233-329, memcached.c:985-1046).
THEOREM ResponseIsExact == Spec => []ResponseExact
<1>1. IInv => ResponseExact
  BY DEF IInv, Whole, Exact, ResponseExact
<1>2. QED
  BY <1>1, Invariant, PTL

\* A response whose lists could grow is one that sendmsg takes (connection.c:278,
\* 285-298).
THEOREM AlwaysSendable == Spec => []MessagesSendable
<1>1. IInv => MessagesSendable
  <2> SUFFICES ASSUME IInv, ~ lists.oom
               PROVE  /\ \A m \in DOMAIN lists.msglist :
                           /\ lists.msglist[m].msg_iovlen <= IOV_MAX
                           /\ m > lists.msgcurr => NumBytes(lists, lists.msglist[m]) > 0
                      /\ lists.msglist # <<>> => NumBytes(lists, lists.msglist[1]) <= UDP_MAX_PAYLOAD_SIZE
    BY DEF MessagesSendable
  <2>1. Whole(lists) /\ lists.msglist \in Seq(Message)
    BY InvParts, ListsTypes
  <2>2. Small(lists) /\ Filled(lists, L(lists))
    BY <2>1 DEF Whole, Sendable
  <2>3. DOMAIN lists.msglist = 1 .. L(lists) /\ (lists.msglist # <<>> => L(lists) > 0)
    BY <2>1, WholeTypes, EmptySeq DEF L
  <2>4. QED
    BY <2>2, <2>3 DEF Small, Filled
<1>2. QED
  BY <1>1, Invariant, PTL

\* While a response is built or sent, what is used of the arrays is inside them
\* (connection.c:217-231, memcached.c:111-129).
THEOREM StaysInsideArrays == Spec => []ListsInsideArrays
<1>1. IInv => ListsInsideArrays
  <2> SUFFICES ASSUME IInv, adding # "nothing" \/ Writing \/ res # Idle
               PROVE  Fits(lists)
    BY DEF ListsInsideArrays, Fits, L
  <2>1. BeingBuilt \/ BeingSent
    BY WritingIsSending DEF BeingBuilt, IInv, Taken
  <2>2. QED
    BY <2>1 DEF IInv, Building, Frame
<1>2. QED
  BY <1>1, Invariant, PTL


=============================================================================
