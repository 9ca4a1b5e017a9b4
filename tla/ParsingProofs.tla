---------------------------- MODULE ParsingProofs -----------------------------
(***************************************************************************)
(* Proofs about what the servers make of text from the network, for any    *)
(* pieces of any stream of messages, and for any tokens of a filter:       *)
(* messages are handled once, whole and in order, and none waits for the   *)
(* next; the nodes of a filter form a tree, and no filter that compares    *)
(* only numbers takes the process down.                                    *)
(*                                                                         *)
(* Three recursions are behind this: a message starts where the one before *)
(* it ends, a chain of operators is climbed to its end, and a node is      *)
(* evaluated after its items.  What they yield is shown by the least       *)
(* counterexample: see Least.                                              *)
(***************************************************************************)
EXTENDS Streams, Filter, FiniteSetTheorems, FunctionTheorems, SequenceTheorems, WellFoundedInduction, TLAPS

\* The order of the naturals as a relation.
Precedes == {ss \in Nat \X Nat : ss[1] < ss[2]}

LEMMA LessWellFounded == IsWellFoundedOn(Precedes, Nat)
BY NatLessThanWellFounded DEF OpToRel, Precedes

\* Every set of naturals has a least element: what proofs by induction rest on.
LEMMA Least == ASSUME NEW T \in SUBSET Nat, T # {} PROVE \E x \in T : \A y \in T : x <= y
<1>1. PICK x \in T : \A y \in T : ~(<<y, x>> \in Precedes)
  BY LessWellFounded, WFMin
<1>2. \A y \in T : ~(y < x)
  BY <1>1 DEF Precedes
<1> QED BY <1>2

-----------------------------------------------------------------------------
(* Streams: where messages begin and end *)

\* The fields of the messages of a stream.
LEMMA StreamIsTyped ==
  ASSUME NEW ms, IsStream(ms)
  PROVE  /\ DOMAIN ms = 1 .. Len(ms) /\ Len(ms) \in Nat
         /\ \A k \in DOMAIN ms : ms[k].from \in Nat /\ ms[k].len \in Nat /\ ms[k].len >= 2
<1>1. /\ DOMAIN ms = 1 .. Len(ms) /\ Len(ms) \in Nat
      /\ \A k \in DOMAIN ms : ms[k] \in Message
  BY DEF IsStream
<1>2. \A x \in Message : x.from \in Nat /\ x.len \in Nat /\ x.len >= 2
  BY DEF Message
<1> QED BY <1>1, <1>2

\* Messages do not overlap.
LEMMA FollowEachOther ==
  ASSUME NEW ms, IsStream(ms), NEW k \in DOMAIN ms, NEW l \in DOMAIN ms, k < l
  PROVE  ms[k].from + ms[k].len <= ms[l].from
<1> DEFINE bad == {j \in Nat : j \in DOMAIN ms /\ k < j /\ ~(ms[k].from + ms[k].len <= ms[j].from)}
<1>0. /\ DOMAIN ms = 1 .. Len(ms) /\ Len(ms) \in Nat
      /\ \A j \in DOMAIN ms : ms[j].from \in Nat /\ ms[j].len \in Nat
  BY StreamIsTyped
<1>1. SUFFICES ASSUME bad # {} PROVE FALSE
  BY <1>0
<1>2. PICK j \in bad : \A i \in bad : j <= i
  <2> HIDE DEF bad
  <2> QED BY <1>1, Least, bad \in SUBSET Nat DEF bad
<1>3. j - 1 \in DOMAIN ms /\ j # 1 /\ j \in DOMAIN ms
  BY <1>0
<1>a. ms[j].from = ms[j - 1].from + ms[j - 1].len
  BY <1>3 DEF IsStream
<1>4. CASE k = j - 1
  BY <1>0, <1>3, <1>a, <1>4
<1>5. CASE k < j - 1
  <2>1. j - 1 \notin bad
    BY <1>0, <1>2
  <2> QED BY <2>1, <1>0, <1>3, <1>a, <1>5, SMTT(30)
<1> QED BY <1>0, <1>4, <1>5, SMTT(30)

\* Where messages begin and end, in the terms of End.
LEMMA EndsAreTyped ==
  ASSUME IsStream(messages)
  PROVE  /\ DOMAIN messages = 1 .. Len(messages) /\ Len(messages) \in Nat
         /\ \A k \in 0 .. Len(messages) : End(k) \in Nat
         /\ \A k \in DOMAIN messages : messages[k].from = End(k - 1) /\ messages[k].from \in Nat
         /\ \A k \in DOMAIN messages : messages[k].len \in Nat /\ messages[k].len >= 2
         /\ \A k \in DOMAIN messages : End(k) = End(k - 1) + messages[k].len
<1>1. /\ DOMAIN messages = 1 .. Len(messages) /\ Len(messages) \in Nat
      /\ \A k \in DOMAIN messages : messages[k].from \in Nat /\ messages[k].len \in Nat /\ messages[k].len >= 2
  BY StreamIsTyped
<1>2. \A k \in DOMAIN messages : messages[k].from = End(k - 1)
  <2> SUFFICES ASSUME NEW k \in DOMAIN messages PROVE messages[k].from = End(k - 1)
    OBVIOUS
  <2>1. messages[k].from = IF k = 1 THEN 0 ELSE messages[k - 1].from + messages[k - 1].len
    BY DEF IsStream
  <2> QED BY <1>1, <2>1 DEF End
<1>3. \A k \in 0 .. Len(messages) : End(k) \in Nat
  BY <1>1 DEF End
<1>4. \A k \in DOMAIN messages : End(k) = End(k - 1) + messages[k].len
  <2>1. \A k \in DOMAIN messages : k # 0 /\ End(k) = messages[k].from + messages[k].len
    BY <1>1 DEF End
  <2> QED BY <1>2, <2>1
<1> QED BY <1>1, <1>2, <1>3, <1>4

\* Later messages end later, ...
LEMMA EndsAscend ==
  ASSUME IsStream(messages), NEW k \in 0 .. Len(messages), NEW l \in 0 .. Len(messages), k < l
  PROVE  End(k) < End(l)
<1>1. l \in DOMAIN messages /\ messages[l].from \in Nat /\ End(l) >= messages[l].from + 2
  BY EndsAreTyped, SMTT(30)
<1>2. CASE k = 0
  <2>1. End(k) = 0
    BY <1>2 DEF End
  <2> QED BY <1>1, <2>1, EndsAreTyped
<1>3. CASE k # 0
  <2>1. k \in DOMAIN messages /\ End(k) = messages[k].from + messages[k].len /\ End(k) \in Nat
    BY <1>3, EndsAreTyped DEF End
  <2>2. messages[k].from + messages[k].len <= messages[l].from
    BY <2>1, <1>1, FollowEachOther
  <2> QED BY <1>1, <2>1, <2>2, EndsAreTyped
<1> QED BY <1>2, <1>3

\* ... so that an end is that of one message.
LEMMA EndsAreDistinct ==
  ASSUME IsStream(messages), NEW k \in 0 .. Len(messages), NEW l \in 0 .. Len(messages), End(k) = End(l)
  PROVE  k = l
<1>1. End(k) \in Nat /\ End(l) \in Nat
  BY EndsAreTyped
<1>2. ~(k < l) /\ ~(l < k)
  BY <1>1, EndsAscend
<1> QED BY <1>2

\* The message of a cell is the one it lies in.
LEMMA OfIsUnique ==
  ASSUME IsStream(messages), NEW k \in DOMAIN messages, NEW n \in Nat, End(k - 1) < n, n <= End(k)
  PROVE  Of(n) = k
<1>0. messages[k].from < n /\ n <= End(k) /\ \A j \in DOMAIN messages : j \in 1 .. Len(messages)
  BY EndsAreTyped
<1> DEFINE l == Of(n)
<1>1. l \in DOMAIN messages /\ messages[l].from < n /\ n <= End(l)
  BY <1>0 DEF Of
<1> HIDE DEF l
<1>2. /\ k \in 0 .. Len(messages) /\ l \in 0 .. Len(messages) /\ k - 1 \in 0 .. Len(messages) /\ l - 1 \in 0 .. Len(messages)
      /\ messages[l].from = End(l - 1)
  BY <1>1, EndsAreTyped
<1>3. End(k) \in Nat /\ End(l) \in Nat /\ End(k - 1) \in Nat /\ End(l - 1) \in Nat
  BY <1>2, EndsAreTyped
<1>4. ~(k <= l - 1)
  <2> SUFFICES ASSUME k <= l - 1 PROVE FALSE
    OBVIOUS
  <2>1. End(k) <= End(l - 1)
    BY <1>2, <1>3, EndsAscend, SMTT(30)
  <2> QED BY <2>1, <1>1, <1>2, <1>3
<1>5. ~(l <= k - 1)
  <2> SUFFICES ASSUME l <= k - 1 PROVE FALSE
    OBVIOUS
  <2>1. End(l) <= End(k - 1)
    BY <1>2, <1>3, EndsAscend, SMTT(30)
  <2> QED BY <2>1, <1>1, <1>2, <1>3, SMTT(30)
<1>6. k = l
  BY <1>2, <1>4, <1>5
<1> QED BY <1>6 DEF l

\* Every cell lies in a message.
LEMMA CellIsOfMessage ==
  ASSUME IsStream(messages), NEW n \in 1 .. End(Len(messages))
  PROVE  Of(n) \in DOMAIN messages /\ End(Of(n) - 1) < n /\ n <= End(Of(n))
<1>0. End(Len(messages)) \in Nat /\ Len(messages) \in Nat
  BY EndsAreTyped
<1> DEFINE after == {k \in 0 .. Len(messages) : n <= End(k)}
<1>1. Len(messages) \in after /\ after \in SUBSET Nat
  BY <1>0
<1>2. PICK k \in after : \A l \in after : k <= l
  <2> HIDE DEF after
  <2> QED BY <1>1, Least
<1>3. k # 0
  BY <1>0 DEF End
<1>4. k \in DOMAIN messages /\ k - 1 \in 0 .. Len(messages) /\ k - 1 \notin after
  BY <1>0, <1>2, <1>3, EndsAreTyped
<1>5. End(k - 1) < n /\ n <= End(k)
  BY <1>0, <1>4, EndsAreTyped
<1>6. Of(n) = k
  BY <1>0, <1>4, <1>5, OfIsUnique
<1> QED BY <1>4, <1>5, <1>6

\* The cell that ends a message, and no other, ends its message.
LEMMA EndsIsEnd ==
  ASSUME IsStream(messages), NEW n \in 1 .. End(Len(messages))
  PROVE  Ends(n) <=> \E k \in DOMAIN messages : n = End(k)
<1>1. ASSUME NEW k \in DOMAIN messages, n = End(k) PROVE Ends(n)
  <2>1. End(k - 1) < n
    BY <1>1, EndsAscend, EndsAreTyped
  <2>2. Of(n) = k
    BY <1>1, <2>1, EndsAreTyped, OfIsUnique
  <2> QED BY <1>1, <2>2 DEF Ends
<1>2. ASSUME Ends(n) PROVE \E k \in DOMAIN messages : n = End(k)
  BY <1>2, CellIsOfMessage DEF Ends
<1> QED BY <1>1, <1>2

-----------------------------------------------------------------------------
(* The members of a finite set of numbers, in their order *)

UpTo(T, n) == {m \in T : m <= n}

\* Counting the members of T up to n, which is how NthEnd finds its place:
LEMMA UpToIsFinite ==
  ASSUME NEW N \in Nat, NEW T \in SUBSET (1 .. N), NEW n \in Int
  PROVE  IsFiniteSet(T) /\ IsFiniteSet(UpTo(T, n)) /\ Cardinality(T) \in Nat /\ Cardinality(UpTo(T, n)) \in Nat
<1>1. IsFiniteSet(1 .. N)
  BY FS_Interval
<1>2. T \subseteq 1 .. N /\ UpTo(T, n) \subseteq 1 .. N
  BY DEF UpTo
<1>3. IsFiniteSet(T) /\ IsFiniteSet(UpTo(T, n))
  BY <1>1, <1>2, FS_Subset
<1> QED BY <1>3, FS_CardinalityType

\* the count grows with n, by one at each member, ...
LEMMA UpToAscends ==
  ASSUME NEW N \in Nat, NEW T \in SUBSET (1 .. N), NEW m \in T, NEW n \in T, m < n
  PROVE  Cardinality(UpTo(T, m)) < Cardinality(UpTo(T, n))
<1>0. \A x \in T : x \in Int
  OBVIOUS
<1>1. UpTo(T, m) \subseteq UpTo(T, n) /\ n \in UpTo(T, n) /\ n \notin UpTo(T, m) /\ m \in Int /\ n \in Int
  <2>1. m \in Int /\ n \in Int
    BY <1>0
  <2>2. n \in UpTo(T, n) /\ n \notin UpTo(T, m)
    BY <2>1 DEF UpTo
  <2>3. \A x \in T : x <= m => x <= n
    BY <1>0, <2>1
  <2> QED BY <2>1, <2>2, <2>3 DEF UpTo
<1>2. IsFiniteSet(UpTo(T, n)) /\ UpTo(T, m) # UpTo(T, n)
  BY <1>1, UpToIsFinite
<1>3. Cardinality(UpTo(T, m)) <= Cardinality(UpTo(T, n)) /\ Cardinality(UpTo(T, m)) # Cardinality(UpTo(T, n))
  BY <1>1, <1>2, FS_Subset
<1>4. Cardinality(UpTo(T, m)) \in Nat /\ Cardinality(UpTo(T, n)) \in Nat
  BY <1>1, UpToIsFinite
<1> QED BY <1>3, <1>4

\* ... and so takes every value up to the size of T.
LEMMA NthExists ==
  ASSUME NEW N \in Nat, NEW T \in SUBSET (1 .. N), NEW j \in 1 .. Cardinality(T)
  PROVE  \E n \in T : Cardinality(UpTo(T, n)) = j
<1> DEFINE reach == {n \in Nat : Cardinality(UpTo(T, n)) >= j}
<1>0. Cardinality(T) \in Nat /\ IsFiniteSet(T) /\ \A x \in T : x \in Int /\ 1 <= x /\ x <= N
  <2>1. \A x \in 1 .. N : x \in Int /\ 1 <= x /\ x <= N
    OBVIOUS
  <2>2. T \subseteq 1 .. N
    OBVIOUS
  <2>3. Cardinality(T) \in Nat /\ IsFiniteSet(T)
    BY N \in Int, UpToIsFinite
  <2> QED BY <2>1, <2>2, <2>3
<1>1. N \in reach
  <2>1. UpTo(T, N) = T
    BY <1>0 DEF UpTo
  <2> QED BY <2>1, <1>0
<1>2. PICK n \in reach : \A m \in reach : n <= m
  <2>1. reach # {} /\ reach \in SUBSET Nat
    BY <1>1
  <2> HIDE DEF reach
  <2> QED BY <2>1, Least
<1>3. n # 0
  <2>0. \A x \in T : ~(x <= 0)
    BY <1>0
  <2>1. UpTo(T, 0) = {}
    BY <2>0 DEF UpTo
  <2>2. Cardinality(UpTo(T, 0)) = 0
    BY <2>1, FS_EmptySet
  <2> QED BY <2>2
<1>4. n - 1 \in Nat /\ ~(Cardinality(UpTo(T, n - 1)) >= j)
  BY <1>2, <1>3
<1>5. Cardinality(UpTo(T, n - 1)) \in Nat /\ Cardinality(UpTo(T, n)) \in Nat /\ IsFiniteSet(UpTo(T, n - 1))
  BY <1>4, UpToIsFinite
<1>6. n \in T
  <2> SUFFICES ASSUME n \notin T PROVE FALSE
    OBVIOUS
  <2>0. \A x \in T : x <= n <=> x <= n - 1
    BY <1>0
  <2>1. UpTo(T, n) = UpTo(T, n - 1)
    BY <2>0 DEF UpTo
  <2> QED BY <2>1, <1>4
<1>7. UpTo(T, n) = UpTo(T, n - 1) \cup {n} /\ n \notin UpTo(T, n - 1)
  <2>1. \A x \in T : x <= n <=> x <= n - 1 \/ x = n
    BY <1>0
  <2>2. n \notin UpTo(T, n - 1)
    BY <1>0, <1>6 DEF UpTo
  <2>3. \A x : x \in UpTo(T, n) <=> x \in UpTo(T, n - 1) \/ x = n
    BY <1>6, <2>1 DEF UpTo
  <2> QED BY <2>2, <2>3
<1>8. Cardinality(UpTo(T, n)) = Cardinality(UpTo(T, n - 1)) + 1
  BY <1>5, <1>7, FS_AddElement
<1> QED BY <1>4, <1>5, <1>6, <1>8

-----------------------------------------------------------------------------
(* strings.SplitAfter *)

\* What a piece of text that lies in the stream has of the ends of messages.
LEMMA NthEndIsEnd ==
  ASSUME NEW S, NEW text \in Seq(S), NEW j \in 1 .. Cardinality(EndsIn(text))
  PROVE  NthEnd(text, j) \in 1 .. Len(text)
<1>1. Len(text) \in Nat /\ EndsIn(text) \in SUBSET (1 .. Len(text))
  BY DEF EndsIn
<1>2. PICK n \in EndsIn(text) : Cardinality(UpTo(EndsIn(text), n)) = j
  BY <1>1, NthExists
<1>3. NthEnd(text, j) \in EndsIn(text)
  BY <1>2 DEF NthEnd, UpTo
<1> QED BY <1>1, <1>3

\* The pieces SplitAfter makes are pieces of the text.
LEMMA PartsAreTyped ==
  ASSUME NEW S, NEW text \in Seq(S)
  PROVE  SplitAfter(text) \in Seq(Seq(S))
<1> DEFINE c == Cardinality(EndsIn(text))
           part(j) == SubSeq(text, IF j = 1 THEN 1 ELSE NthEnd(text, j - 1) + 1, NthEnd(text, j))
<1>1. Len(text) \in Nat /\ EndsIn(text) \in SUBSET (1 .. Len(text))
  BY DEF EndsIn
<1>2. c \in Nat
  BY <1>1, UpToIsFinite, 0 \in Int
<1>3. ASSUME NEW j \in 1 .. c PROVE part(j) \in Seq(S)
  <2>1. NthEnd(text, j) \in 1 .. Len(text)
    BY NthEndIsEnd
  <2>2. (IF j = 1 THEN 1 ELSE NthEnd(text, j - 1) + 1) \in 1 .. Len(text) + 1
    <3>1. CASE j = 1
      BY <3>1, <1>1
    <3>2. CASE j # 1
      <4>1. j - 1 \in 1 .. c
        BY <3>2, <1>2
      <4>2. NthEnd(text, j - 1) \in 1 .. Len(text)
        BY <4>1, NthEndIsEnd
      <4> QED BY <3>2, <4>2, <1>1
    <3> QED BY <3>1, <3>2
  <2> QED BY <2>1, <2>2, <1>1
<1>4. SplitAfter(text) = [j \in 1 .. c |-> part(j)]
  BY DEF SplitAfter
<1> HIDE DEF part, c
<1> QED BY <1>2, <1>3, <1>4

\* A text of the messages h + 1 to k is split into them.
LEMMA SplitIsWhole ==
  ASSUME IsStream(messages), NEW h \in 0 .. Len(messages), NEW k \in h .. Len(messages), NEW text,
         text = [i \in 1 .. End(k) - End(h) |-> End(h) + i]
  PROVE  SplitAfter(text) = [j \in 1 .. k - h |-> Cells(h + j)]
<1> DEFINE L == End(k) - End(h)
           place(j) == End(h + j) - End(h)
<1>1. Len(messages) \in Nat /\ h \in Nat /\ k \in Nat /\ k <= Len(messages) /\ h <= k /\ k \in 0 .. Len(messages)
  BY EndsAreTyped
<1>2. End(h) \in Nat /\ End(k) \in Nat /\ End(h) <= End(k) /\ End(k) <= End(Len(messages)) /\ End(Len(messages)) \in Nat
  BY <1>1, EndsAreTyped, EndsAscend
<1>3. L \in Nat /\ Len(text) = L /\ DOMAIN text = 1 .. L /\ \A i \in 1 .. L : text[i] = End(h) + i
  BY <1>2
<1>4. \A j \in 0 .. k - h :
        h + j \in 0 .. Len(messages) /\ End(h + j) \in Nat /\ place(j) \in Int /\ End(h + j) = End(h) + place(j)
  BY <1>1, <1>2, EndsAreTyped
<1>6. place(0) = 0 /\ place(k - h) = L
  BY <1>1, <1>2
<1>12. L = place(k - h) /\ End(h) + L = End(k)
  BY <1>2, <1>6
<1> HIDE DEF place, L
<1>5. ASSUME NEW i \in 0 .. k - h, NEW j \in 0 .. k - h, i < j PROVE place(i) < place(j)
  <2>1. h + i < h + j
    BY <1>1, <1>5
  <2>2. End(h + i) < End(h + j)
    BY <1>4, <2>1, EndsAscend
  <2>3. /\ place(i) \in Int /\ End(h + i) = End(h) + place(i)
        /\ place(j) \in Int /\ End(h + j) = End(h) + place(j)
    BY <1>4
  <2> QED BY <2>2, <2>3, <1>2
<1>13. \A j \in 0 .. k - h : place(j) \in Int /\ 0 <= place(j) /\ place(j) <= L /\ (j # 0 => 1 <= place(j))
  <2> SUFFICES ASSUME NEW j \in 0 .. k - h
               PROVE  place(j) \in Int /\ 0 <= place(j) /\ place(j) <= L /\ (j # 0 => 1 <= place(j))
    OBVIOUS
  <2>1. 0 \in 0 .. k - h /\ k - h \in 0 .. k - h /\ (j = 0 \/ 0 < j) /\ (j = k - h \/ j < k - h)
    BY <1>1
  <2>2. place(j) \in Int /\ (j = 0 \/ place(0) < place(j)) /\ (j = k - h \/ place(j) < place(k - h))
    BY <2>1, <1>4, <1>5
  <2> QED BY <2>1, <2>2, <1>3, <1>6
<1>7. EndsIn(text) = {place(j) : j \in 1 .. k - h}
  <2>1. ASSUME NEW j \in 1 .. k - h PROVE place(j) \in EndsIn(text)
    <3>1. place(j) \in 1 .. L
      <4>1. j \in 0 .. k - h /\ j # 0
        BY <1>1
      <4>2. place(j) \in Int /\ 1 <= place(j) /\ place(j) <= L
        BY <4>1, <1>13
      <4> QED BY <4>2, <1>3
    <3>2. text[place(j)] = End(h + j)
      <4>1. text[place(j)] = End(h) + place(j) /\ j \in 0 .. k - h
        BY <3>1, <1>3
      <4> QED BY <4>1, <1>4
    <3>3. h + j \in DOMAIN messages /\ End(h + j) \in 1 .. End(Len(messages))
      <4>1. j \in 0 .. k - h /\ j \in Nat /\ j >= 1
        BY <1>1
      <4>2. h + j \in 0 .. Len(messages) /\ End(h + j) = End(h) + place(j)
        BY <4>1, <1>4
      <4>3. End(h + j) <= End(k) /\ End(h + j) >= 1
        BY <3>1, <4>2, <1>2, <1>3, <1>12, SMTT(30)
      <4>4. h + j \in 1 .. Len(messages)
        BY <4>1, <4>2, <1>1
      <4> QED BY <4>2, <4>3, <4>4, <1>2, EndsAreTyped
    <3>4. Ends(text[place(j)])
      BY <3>2, <3>3, EndsIsEnd
    <3> QED BY <3>1, <3>4, <1>3 DEF EndsIn
  <2>2. ASSUME NEW n \in EndsIn(text) PROVE \E j \in 1 .. k - h : n = place(j)
    <3>1. n \in 1 .. L /\ text[n] = End(h) + n /\ Ends(End(h) + n) /\ End(h) + n \in 1 .. End(Len(messages))
      BY <1>2, <1>3 DEF EndsIn
    <3>2. PICK l \in DOMAIN messages : End(h) + n = End(l)
      BY <3>1, EndsIsEnd
    <3>3. l \in 0 .. Len(messages) /\ End(h) < End(l) /\ End(l) <= End(k) /\ End(l) \in Nat
      <4>1. l \in 0 .. Len(messages) /\ End(l) \in Nat
        BY EndsAreTyped
      <4>2. n \in Nat /\ 1 <= n /\ n <= L
        BY <3>1, <1>3
      <4> QED BY <4>1, <4>2, <3>2, <1>2, <1>3, <1>12, SMTT(30)
    <3>4. ~(l <= h) /\ ~(k < l)
      BY <3>3, <1>1, <1>2, EndsAscend
    <3>5. l - h \in 1 .. k - h /\ h + (l - h) = l
      BY <3>3, <3>4, <1>1
    <3>6. n = place(l - h)
      <4>1. l - h \in 0 .. k - h /\ n \in Int
        BY <3>1, <3>5, <1>3
      <4>2. End(h + (l - h)) = End(h) + place(l - h) /\ place(l - h) \in Int
        BY <4>1, <1>4
      <4> QED BY <4>1, <4>2, <3>2, <3>5, <1>2, SMTT(30)
    <3> QED BY <3>5, <3>6
  <2> QED BY <2>1, <2>2
<1>8. ASSUME NEW j \in 1 .. k - h PROVE Cardinality(UpTo(EndsIn(text), place(j))) = j
  <2> DEFINE f == [i \in 1 .. j |-> place(i)]
             T == UpTo(EndsIn(text), place(j))
  <2>1. \A i \in 1 .. k - h : place(i) <= place(j) <=> i <= j
    <3> SUFFICES ASSUME NEW i \in 1 .. k - h PROVE place(i) <= place(j) <=> i <= j
      OBVIOUS
    <3>1. i \in 0 .. k - h /\ j \in 0 .. k - h /\ place(i) \in Int /\ place(j) \in Int /\ i \in Int /\ j \in Int
      BY <1>1, <1>4
    <3>2. i < j => place(i) < place(j)
      BY <3>1, <1>5
    <3>3. j < i => place(j) < place(i)
      BY <3>1, <1>5
    <3> QED BY <3>1, <3>2, <3>3
  <2>2. 1 .. j \subseteq 1 .. k - h /\ \A i \in 1 .. k - h : i <= j => i \in 1 .. j
    BY <1>1
  <2>3. T = {place(i) : i \in 1 .. j}
    <3>1. \A i \in 1 .. j : place(i) \in T
      BY <1>7, <2>1, <2>2 DEF UpTo
    <3>2. \A x \in T : \E i \in 1 .. j : x = place(i)
      BY <1>7, <2>1, <2>2 DEF UpTo
    <3> HIDE DEF T
    <3> QED BY <3>1, <3>2
  <2>4. \A i, l \in 1 .. j : place(i) = place(l) => i = l
    <3> SUFFICES ASSUME NEW i \in 1 .. j, NEW l \in 1 .. j, place(i) = place(l) PROVE i = l
      OBVIOUS
    <3>1. i \in 0 .. k - h /\ l \in 0 .. k - h /\ place(i) \in Int /\ place(l) \in Int /\ i \in Int /\ l \in Int
      BY <1>1, <1>4
    <3>2. ~(i < l) /\ ~(l < i)
      BY <3>1, <1>5
    <3> QED BY <3>1, <3>2
  <2>5. f \in Bijection(1 .. j, T)
    <3> HIDE DEF T
    <3>1. f \in [1 .. j -> T] /\ \A i \in 1 .. j : f[i] = place(i)
      BY <2>3
    <3>2. \A x \in T : \E i \in 1 .. j : f[i] = x
      BY <2>3
    <3>3. \A i, l \in 1 .. j : f[i] = f[l] => i = l
      BY <3>1, <2>4
    <3> HIDE DEF f
    <3> QED BY <3>1, <3>2, <3>3, Fun_IsBij
  <2>6. ExistsBijection(1 .. j, T)
    BY <2>5 DEF ExistsBijection
  <2>7. IsFiniteSet(1 .. j) /\ Cardinality(1 .. j) = j
    <3>1. j \in Int /\ 1 \in Int /\ ~(1 > j) /\ j - 1 + 1 = j
      OBVIOUS
    <3> QED BY <3>1, FS_Interval
  <2> HIDE DEF T
  <2>8. Cardinality(T) = j
    BY <2>6, <2>7, FS_Bijection
  <2> QED BY <2>8 DEF T
<1>9. Cardinality(EndsIn(text)) = k - h
  <2>1. CASE k = h
    <3>1. EndsIn(text) = {}
      <4>1. \A j \in 1 .. k - h : FALSE
        BY <1>1, <2>1
      <4> QED BY <4>1, <1>7
    <3>2. Cardinality({}) = 0
      BY FS_EmptySet
    <3>3. Cardinality(EndsIn(text)) = 0
      BY <3>1, <3>2
    <3>4. k - h = 0
      BY <1>1, <2>1
    <3> QED BY <3>3, <3>4
  <2>2. CASE k # h
    <3>1. k - h \in 1 .. k - h
      BY <1>1, <2>2
    <3>2. UpTo(EndsIn(text), place(k - h)) = EndsIn(text)
      <4>1. \A n \in EndsIn(text) : n <= place(k - h)
        <5>1. \A n \in EndsIn(text) : n \in 1 .. L
          BY <1>3 DEF EndsIn
        <5> QED BY <5>1, <1>3, <1>12
      <4> QED BY <4>1 DEF UpTo
    <3> QED BY <3>1, <3>2, <1>8
  <2> QED BY <2>1, <2>2
<1>10. ASSUME NEW j \in 1 .. k - h PROVE NthEnd(text, j) = place(j)
  <2>1. place(j) \in EndsIn(text) /\ EndsIn(text) \in SUBSET (1 .. L)
    BY <1>3, <1>7 DEF EndsIn
  <2>2. NthEnd(text, j) \in EndsIn(text) /\ Cardinality(UpTo(EndsIn(text), NthEnd(text, j))) = j
    <3>1. NthEnd(text, j) = CHOOSE n \in EndsIn(text) : Cardinality(UpTo(EndsIn(text), n)) = j
      BY DEF NthEnd, UpTo
    <3>2. \E n \in EndsIn(text) : Cardinality(UpTo(EndsIn(text), n)) = j
      BY <1>8, <2>1
    <3> QED BY <3>1, <3>2
  <2>5. Cardinality(UpTo(EndsIn(text), place(j))) = j /\ ~(j < j)
    BY <1>8
  <2>3. ~(NthEnd(text, j) < place(j)) /\ ~(place(j) < NthEnd(text, j))
    BY <1>3, <2>1, <2>2, <2>5, UpToAscends
  <2>4. \A x \in EndsIn(text) : x \in Int
    BY <2>1
  <2> QED BY <2>1, <2>2, <2>3, <2>4
<1>11. ASSUME NEW j \in 1 .. k - h
       PROVE  SubSeq(text, IF j = 1 THEN 1 ELSE NthEnd(text, j - 1) + 1, NthEnd(text, j)) = Cells(h + j)
  <2>1. j \in 0 .. k - h /\ j - 1 \in 0 .. k - h /\ h + j \in DOMAIN messages /\ h + (j - 1) = (h + j) - 1
    BY <1>1, EndsAreTyped
  <2>2. (IF j = 1 THEN 1 ELSE NthEnd(text, j - 1) + 1) = place(j - 1) + 1
    <3>1. j # 1 => j - 1 \in 1 .. k - h
      BY <2>1, <1>1
    <3> QED BY <3>1, <1>6, <1>10
  <2>3. place(j) = place(j - 1) + messages[h + j].len /\ messages[h + j].len \in Nat /\ messages[h + j].from = End(h) + place(j - 1)
    <3>1. End(h + j) = End(h + (j - 1)) + messages[h + j].len /\ messages[h + j].from = End(h + (j - 1)) /\ messages[h + j].len \in Nat
      BY <2>1, EndsAreTyped
    <3>2. /\ End(h + j) = End(h) + place(j) /\ place(j) \in Int
          /\ End(h + (j - 1)) = End(h) + place(j - 1) /\ place(j - 1) \in Int
      BY <2>1, <1>4
    <3>3. messages[h + j].len \in Int
      BY <3>1
    <3>4. End(h) \in Int
      BY <1>2
    <3>5. End(h) + place(j) = (End(h) + place(j - 1)) + messages[h + j].len
      BY <3>1, <3>2
    <3>6. place(j) = place(j - 1) + messages[h + j].len
      <4>1. place(j) \in Int /\ place(j - 1) \in Int
        BY <3>2
      <4> QED BY <4>1, <3>3, <3>4, <3>5, SMTT(30)
    <3> QED BY <3>1, <3>2, <3>6
  <2>4. place(j - 1) \in Nat /\ place(j) \in Nat /\ place(j) <= L
    BY <2>1, <1>13
  <2> DEFINE a == place(j - 1)
             n == messages[h + j].len
  <2>5. SubSeq(text, a + 1, a + n) = [i \in 1 .. n |-> text[a + i]]
    <3>1. a \in Nat /\ n \in Nat
      BY <2>3, <2>4
    <3> HIDE DEF a, n
    <3> QED BY <3>1
  <2>6. \A i \in 1 .. n : text[a + i] = messages[h + j].from + i
    <3> SUFFICES ASSUME NEW i \in 1 .. n PROVE text[a + i] = messages[h + j].from + i
      OBVIOUS
    <3>1. a \in Nat /\ n \in Nat /\ a + n <= L /\ i \in Nat
      BY <2>3, <2>4
    <3>2. a + i \in 1 .. L
      <4> HIDE DEF a, n
      <4> QED BY <3>1, <1>3
    <3>3. text[a + i] = End(h) + (a + i)
      BY <3>2, <1>3
    <3> QED BY <3>1, <3>3, <2>3, <1>2
  <2>7. SubSeq(text, a + 1, a + n) = [i \in 1 .. n |-> messages[h + j].from + i]
    <3> HIDE DEF a, n
    <3> QED BY <2>5, <2>6
  <2> QED BY <1>10, <2>2, <2>3, <2>7 DEF Cells
<1> QED BY <1>9, <1>11 DEF SplitAfter

-----------------------------------------------------------------------------
(* The invariant of streams *)

\* A buffer of a console that has waited for every answer is a part of one message.
InOneMessage ==
  status = "open" /\ mishaps = {} =>
    buffer = <<>> \/ (Len(handled) < Len(messages) /\ arrived < End(Len(handled) + 1))

StreamsInv == StreamsTypeOK /\ Whole /\ HandledAtEnd /\ FitsIsKept /\ InOneMessage

\* What a read delivers.
Piece(n) == [i \in 1 .. n |-> arrived + i]

\* The connection is as it should be, and n more cells arrive.
Delivers(n) ==
  /\ StreamsInv /\ IsStream(messages) /\ MaxBuffer \in Nat
  /\ n \in Nat /\ n >= 1 /\ status = "open" /\ arrived + n <= End(Len(messages))

\* What a read delivers are the cells after those that have arrived.
LEMMA PieceIsTyped ==
  ASSUME NEW n, Delivers(n)
  PROVE  /\ arrived \in Nat /\ End(Len(messages)) \in Nat /\ arrived + n \in 1 .. End(Len(messages))
         /\ arrived + 1 \in 1 .. End(Len(messages))
         /\ Piece(n) \in Seq(1 .. arrived + n) /\ Len(Piece(n)) = n
         /\ Piece(n)[1] = arrived + 1 /\ Piece(n)[Len(Piece(n))] = arrived + n
         /\ buffer \in Seq(1 .. arrived + n)
         /\ buffer \o Piece(n) \in Seq(1 .. arrived + n) /\ Len(buffer \o Piece(n)) = Len(buffer) + n
         /\ Len(buffer) \in Nat /\ Len(buffer) <= MaxBuffer
<1>1. n \in Nat /\ n >= 1 /\ End(Len(messages)) \in Nat /\ arrived \in 0 .. End(Len(messages)) /\ arrived + n <= End(Len(messages))
  BY EndsAreTyped DEF Delivers, StreamsInv, StreamsTypeOK
<1>2. Piece(n) \in Seq(1 .. arrived + n) /\ Len(Piece(n)) = n
  BY <1>1 DEF Piece
<1>3. Piece(n)[1] = arrived + 1 /\ Piece(n)[n] = arrived + n
  BY <1>1 DEF Piece
<1>4. buffer \in Seq(1 .. arrived) /\ Len(buffer) <= MaxBuffer
  BY DEF Delivers, StreamsInv, StreamsTypeOK
<1>5. buffer \in Seq(1 .. arrived + n)
  <2>1. 1 .. arrived \subseteq 1 .. arrived + n
    BY <1>1
  <2> QED BY <1>4, <2>1, SeqMonotonic
<1>6. buffer \o Piece(n) \in Seq(1 .. arrived + n) /\ Len(buffer \o Piece(n)) = Len(buffer) + n /\ Len(buffer) \in Nat
  BY <1>2, <1>5
<1>7. arrived \in Nat /\ arrived + n \in 1 .. End(Len(messages)) /\ arrived + 1 \in 1 .. End(Len(messages))
  BY <1>1
<1> QED BY <1>1, <1>2, <1>3, <1>4, <1>5, <1>6, <1>7

\* If nothing was lost, the text is what has arrived since the last message that was handled.
LEMMA TextIsRest ==
  ASSUME NEW n, Delivers(n), mishaps \cap {"dropped", "panicked"} = {}
  PROVE  /\ Len(handled) \in 0 .. Len(messages) /\ End(Len(handled)) \in Nat /\ End(Len(handled)) <= arrived
         /\ buffer \o Piece(n) = [i \in 1 .. (arrived + n) - End(Len(handled)) |-> End(Len(handled)) + i]
         /\ Len(buffer) = arrived - End(Len(handled))
<1> DEFINE done == End(Len(handled))
<1>1. Len(handled) \in 0 .. Len(messages) /\ done \in Nat /\ done <= arrived
  <2>1. Len(handled) <= Len(messages) /\ done <= arrived /\ Len(handled) \in Nat /\ IsStream(messages)
    BY DEF Delivers, StreamsInv, Whole, StreamsTypeOK
  <2>2. Len(messages) \in Nat /\ \A k \in 0 .. Len(messages) : End(k) \in Nat
    BY <2>1, EndsAreTyped
  <2> QED BY <2>1, <2>2
<1>2. buffer = [i \in 1 .. arrived - done |-> done + i]
  BY DEF Delivers, StreamsInv, Whole
<1>3. arrived \in Nat /\ n \in Nat
  BY PieceIsTyped DEF Delivers
<1> HIDE DEF done
<1>4. Len(buffer) = arrived - done
  BY <1>1, <1>2, <1>3
<1>5. buffer \o Piece(n) = [i \in 1 .. (arrived + n) - done |-> done + i]
  <2> DEFINE text == buffer \o Piece(n)
             whole == [i \in 1 .. (arrived + n) - done |-> done + i]
  <2>1. Len(Piece(n)) = n /\ \A i \in 1 .. n : Piece(n)[i] = arrived + i
    BY <1>3 DEF Piece
  <2>2. Len(text) = (arrived + n) - done /\ text \in Seq(1 .. arrived + n)
    <3>1. Len(text) = Len(buffer) + n /\ text \in Seq(1 .. arrived + n)
      BY PieceIsTyped
    <3>2. Len(buffer) + n = (arrived + n) - done
      BY <1>1, <1>3, <1>4
    <3> QED BY <3>1, <3>2
  <2>3. ASSUME NEW i \in 1 .. (arrived + n) - done PROVE text[i] = done + i
    <3>1. \A l \in 1 .. Len(buffer) + n : text[l] = IF l <= Len(buffer) THEN buffer[l] ELSE Piece(n)[l - Len(buffer)]
      BY <2>1, PieceIsTyped, ConcatProperties
    <3>2. text[i] = IF i <= arrived - done THEN buffer[i] ELSE Piece(n)[i - (arrived - done)]
      <4>1. i \in 1 .. Len(buffer) + n
        BY <1>1, <1>3, <1>4
      <4> HIDE DEF text
      <4> QED BY <3>1, <4>1, <1>4
    <3>3. CASE i <= arrived - done
      <4>1. i \in 1 .. arrived - done
        BY <3>3
      <4> QED BY <3>2, <3>3, <4>1, <1>2
    <3>4. CASE ~(i <= arrived - done)
      <4>1. i - (arrived - done) \in 1 .. n
        BY <3>4, <1>1, <1>3
      <4>2. text[i] = arrived + (i - (arrived - done))
        <5> HIDE DEF text
        <5> QED BY <2>1, <3>2, <3>4, <4>1
      <4> HIDE DEF text
      <4> QED BY <4>2, <1>1, <1>3
    <3> QED BY <3>3, <3>4
  <2>4. text = [i \in 1 .. Len(text) |-> text[i]]
    BY <2>2, LenProperties
  <2>5. text = whole
    <3> HIDE DEF text
    <3> QED BY <2>2, <2>3, <2>4
  <2> QED BY <2>5
<1> QED BY <1>1, <1>4, <1>5 DEF done

\* A piece that is not pipelined lies in one message.
LEMMA PieceInOne ==
  ASSUME NEW n, Delivers(n), Pipelined(Piece(n)) = {}
  PROVE  \E k \in DOMAIN messages : End(k - 1) <= arrived /\ arrived + n <= End(k)
<1>1. IsStream(messages) /\ arrived + n \in 1 .. End(Len(messages)) /\ arrived + 1 \in 1 .. End(Len(messages)) /\ arrived \in Nat
  BY PieceIsTyped DEF Delivers
<1>2. Of(arrived + 1) = Of(arrived + n)
  BY PieceIsTyped DEF Pipelined
<1>3. /\ Of(arrived + 1) \in DOMAIN messages /\ End(Of(arrived + 1) - 1) < arrived + 1
      /\ arrived + n <= End(Of(arrived + n))
  BY <1>1, CellIsOfMessage
<1>4. End(Of(arrived + 1) - 1) \in Nat
  <2>1. Of(arrived + 1) - 1 \in 0 .. Len(messages)
    BY <1>1, <1>3, EndsAreTyped
  <2> QED BY <1>1, <2>1, EndsAreTyped
<1> QED BY <1>1, <1>2, <1>3, <1>4

\* A console that has waited for its answers sends the message that comes next.
LEMMA PieceIsOfNext ==
  ASSUME NEW n, Delivers(n), mishaps = {}, Pipelined(Piece(n)) = {}
  PROVE  Len(handled) + 1 \in DOMAIN messages /\ arrived + n <= End(Len(handled) + 1)
<1> DEFINE h == Len(handled)
<1>1. PICK k \in DOMAIN messages : End(k - 1) <= arrived /\ arrived + n <= End(k)
  BY PieceInOne
<1>2. h \in 0 .. Len(messages) /\ End(h) <= arrived /\ End(h) \in Nat /\ Len(buffer) = arrived - End(h) /\ IsStream(messages)
  BY TextIsRest DEF Delivers
<1>3. k \in 1 .. Len(messages) /\ k - 1 \in 0 .. Len(messages) /\ End(k - 1) \in Nat /\ End(k) \in Nat /\ Len(messages) \in Nat
  <2>1. k \in 1 .. Len(messages) /\ Len(messages) \in Nat
    BY <1>2, EndsAreTyped
  <2>2. k - 1 \in 0 .. Len(messages) /\ k \in 0 .. Len(messages)
    BY <2>1
  <2> QED BY <1>2, <2>1, <2>2, EndsAreTyped
<1>4. arrived \in Nat /\ n \in Nat /\ n >= 1
  BY PieceIsTyped DEF Delivers
<1>5. h < k
  <2>1. ~(k <= h)
    <3> SUFFICES ASSUME k <= h PROVE FALSE
      OBVIOUS
    <3>1. End(k) <= End(h)
      BY <1>2, <1>3, EndsAscend
    <3> QED BY <3>1, <1>1, <1>2, <1>3, <1>4
  <2> QED BY <2>1, <1>2, <1>3
<1>6. ~(h + 1 < k)
  <2> SUFFICES ASSUME h + 1 < k PROVE FALSE
    OBVIOUS
  <2>1. h + 1 \in 0 .. Len(messages) /\ End(h + 1) \in Nat /\ h + 1 <= k - 1
    BY <1>2, <1>3, EndsAreTyped
  <2>2. End(h + 1) <= End(k - 1)
    BY <2>1, <1>2, <1>3, EndsAscend
  <2>3. End(h) < End(h + 1)
    BY <2>1, <1>2, EndsAscend
  <2>4. buffer # <<>>
    BY <1>1, <1>2, <1>3, <1>4, <2>1, <2>2, <2>3, SMTT(30)
  <2>5. arrived < End(h + 1)
    BY <2>4 DEF Delivers, StreamsInv, InOneMessage
  <2> QED BY <2>1, <2>2, <2>5, <1>1, <1>3, <1>4
<1>7. k = h + 1
  BY <1>2, <1>3, <1>5, <1>6
<1> QED BY <1>1, <1>7

\* What a step leaves alone stays as it is.
LEMMA SameStream ==
  ASSUME messages' = messages
  PROVE  /\ \A k : End(k)' = End(k) /\ Cells(k)' = Cells(k) /\ Ends(k)' = Ends(k)
         /\ IsStream(messages)' = IsStream(messages)
<1>1. \A k : End(k)' = End(k) /\ Cells(k)' = Cells(k) /\ Of(k)' = Of(k)
  BY DEF End, Cells, Of
<1>2. \A k : Ends(k)' = Ends(k)
  BY <1>1 DEF Ends
<1> QED BY <1>1, <1>2

\* The handlers are called for the messages in the text, up to the first that panics.
LEMMA HandledParts ==
  ASSUME NEW S, NEW text \in Seq(S), handled \in Seq(Seq(S)), NEW data, HandleAll(text, data)
  PROVE  /\ handled' \in Seq(Seq(S))
         /\ buffer' = <<>> \/ buffer' = text
         /\ mishaps \cup Pipelined(data) \subseteq mishaps'
         /\ mishaps' \subseteq mishaps \cup Pipelined(data) \cup {"panicked"}
         /\ "panicked" \notin mishaps' => buffer' = <<>> /\ handled' = handled \o SplitAfter(text)
<1> DEFINE parts == SplitAfter(text)
           bad == {j \in 1 .. Len(parts) : Panics(parts[j])}
           n == IF bad = {} THEN Len(parts) ELSE (CHOOSE j \in bad : \A l \in bad : j <= l) - 1
<1>1. parts \in Seq(Seq(S)) /\ Len(parts) \in Nat
  BY PartsAreTyped
<1>2. n \in 0 .. Len(parts)
  <2>1. CASE bad = {}
    BY <1>1, <2>1
  <2>2. CASE bad # {}
    <3> DEFINE j == CHOOSE j \in bad : \A l \in bad : j <= l
    <3>1. bad \in SUBSET Nat
      OBVIOUS
    <3>2. \E k \in bad : \A l \in bad : k <= l
      <4> HIDE DEF bad
      <4> QED BY <2>2, <3>1, Least
    <3>3. j \in bad
      <4> HIDE DEF bad
      <4> QED BY <3>2
    <3>4. j \in 1 .. Len(parts)
      BY <3>3
    <3>5. n = j - 1
      BY <2>2
    <3> HIDE DEF j, n, bad
    <3> QED BY <1>1, <3>4, <3>5
  <2> QED BY <2>1, <2>2
<1>3. /\ handled' = handled \o SubSeq(parts, 1, n)
      /\ buffer' = IF bad = {} THEN <<>> ELSE text
      /\ mishaps' = mishaps \cup Pipelined(data) \cup (IF bad = {} THEN {} ELSE {"panicked"})
  BY DEF HandleAll
<1>4. bad = {} => n = Len(parts)
  OBVIOUS
<1> HIDE DEF parts, bad, n
<1>5. SubSeq(parts, 1, n) \in Seq(Seq(S))
  BY <1>1, <1>2
<1>6. n = Len(parts) => SubSeq(parts, 1, n) = parts
  BY <1>1
<1>7. handled' \in Seq(Seq(S))
  BY <1>3, <1>5, ConcatProperties
<1>8. bad = {} => handled' = handled \o parts
  BY <1>3, <1>4, <1>6
<1> QED BY <1>3, <1>7, <1>8 DEF parts

\* What was of the right type when fewer cells had arrived still is.
LEMMA TypesGrow ==
  ASSUME NEW n, Delivers(n), arrived' = arrived + n, UNCHANGED <<server, messages>>
  PROVE  /\ server' \in StreamServers /\ IsStream(messages)' /\ arrived' \in 0 .. End(Len(messages))'
         /\ status \in {"open", "closed"} /\ mishaps \subseteq Mishaps /\ Pipelined(Piece(n)) \subseteq Mishaps
         /\ handled \in Seq(Seq(1 .. arrived + n))
<1>1. /\ server \in StreamServers /\ IsStream(messages) /\ status \in {"open", "closed"}
      /\ handled \in Seq(Seq(1 .. arrived)) /\ mishaps \subseteq Mishaps /\ arrived \in Nat /\ n \in Nat
  BY PieceIsTyped DEF Delivers, StreamsInv, StreamsTypeOK
<1>2. 1 .. arrived \subseteq 1 .. arrived + n
  BY <1>1
<1>3. handled \in Seq(Seq(1 .. arrived + n))
  <2>1. Seq(1 .. arrived) \subseteq Seq(1 .. arrived + n)
    BY <1>2, SeqMonotonic
  <2> QED BY <1>1, <2>1, SeqMonotonic
<1>4. arrived' \in 0 .. End(Len(messages))'
  <2>1. arrived + n \in 0 .. End(Len(messages))
    BY PieceIsTyped
  <2>2. End(Len(messages))' = End(Len(messages))
    BY SameStream
  <2> QED BY <2>1, <2>2
<1>5. Pipelined(Piece(n)) \subseteq Mishaps
  BY DEF Pipelined, Mishaps
<1> QED BY <1>1, <1>3, <1>4, <1>5

\* The packet of gpcm and gamestats: the buffer keeps to its bound, ...
LEMMA GameSpyKeepsTypes ==
  ASSUME NEW n, Delivers(n), GameSpyPacket(Piece(n)), arrived' = arrived + n, UNCHANGED <<server, messages>>
  PROVE  StreamsTypeOK'
<1> DEFINE text == buffer \o Piece(n)
<1>1. /\ text \in Seq(1 .. arrived + n) /\ Len(text) = Len(buffer) + n
      /\ buffer \in Seq(1 .. arrived + n) /\ Len(buffer) <= MaxBuffer
      /\ MaxBuffer \in Nat /\ Len(<<>>) = 0
  BY PieceIsTyped DEF Delivers
<1>2. handled \in Seq(Seq(1 .. arrived + n)) /\ mishaps \subseteq Mishaps /\ Pipelined(Piece(n)) \subseteq Mishaps
  BY TypesGrow
<1>3. "dropped" \in Mishaps /\ "panicked" \in Mishaps
  BY DEF Mishaps
<1>4. /\ buffer' \in Seq(1 .. arrived + n) /\ Len(buffer') <= MaxBuffer
      /\ handled' \in Seq(Seq(1 .. arrived + n)) /\ mishaps' \subseteq Mishaps
  <2>1. CASE Overflows(Piece(n))
    <3>1. buffer' = buffer /\ handled' = handled /\ mishaps' = mishaps \cup Pipelined(Piece(n)) \cup {"dropped"}
      BY <2>1 DEF GameSpyPacket
    <3> QED BY <3>1, <1>1, <1>2, <1>3
  <2>2. CASE ~Overflows(Piece(n))
    <3>1. Len(text) <= MaxBuffer
      BY <2>2, PieceIsTyped, <1>1 DEF Overflows
    <3>2. CASE Ends(Piece(n)[Len(Piece(n))])
      <4>1. HandleAll(text, Piece(n))
        BY <2>2, <3>2 DEF GameSpyPacket
      <4> HIDE DEF text
      <4>2. /\ handled' \in Seq(Seq(1 .. arrived + n)) /\ (buffer' = <<>> \/ buffer' = text)
            /\ mishaps' \subseteq mishaps \cup Pipelined(Piece(n)) \cup {"panicked"}
        BY <4>1, <1>1, <1>2, HandledParts
      <4>3. mishaps' \subseteq Mishaps
        BY <4>2, <1>2, <1>3
      <4>4. <<>> \in Seq(1 .. arrived + n) /\ Len(<<>>) <= MaxBuffer
        BY <1>1, EmptySeq
      <4>5. buffer' \in Seq(1 .. arrived + n) /\ Len(buffer') <= MaxBuffer
        <5>1. CASE buffer' = <<>>
          BY <4>4, <5>1
        <5>2. CASE buffer' = text
          BY <3>1, <1>1, <5>2
        <5> QED BY <4>2, <5>1, <5>2
      <4> QED BY <4>2, <4>3, <4>5
    <3>3. CASE ~Ends(Piece(n)[Len(Piece(n))])
      <4>1. buffer' = text /\ handled' = handled /\ mishaps' = mishaps \cup Pipelined(Piece(n))
        BY <2>2, <3>3 DEF GameSpyPacket
      <4> QED BY <4>1, <3>1, <1>1, <1>2
    <3> QED BY <3>2, <3>3
  <2> QED BY <2>1, <2>2
<1>5. status' = status
  BY DEF GameSpyPacket
<1> QED BY <1>4, <1>5, TypesGrow DEF StreamsTypeOK

\* Nothing was lost before if nothing is lost now.
LEMMA MishapsGrow ==
  ASSUME NEW n, Delivers(n), GameSpyPacket(Piece(n))
  PROVE  /\ mishaps \cup Pipelined(Piece(n)) \subseteq mishaps'
         /\ "dropped" \notin mishaps' => ~Overflows(Piece(n))
         /\ ~Overflows(Piece(n)) => mishaps' \subseteq mishaps \cup Pipelined(Piece(n)) \cup {"panicked"}
         /\ Overflows(Piece(n)) => mishaps' = mishaps \cup Pipelined(Piece(n)) \cup {"dropped"}
<1> DEFINE text == buffer \o Piece(n)
<1>1. text \in Seq(1 .. arrived + n)
  BY PieceIsTyped
<1>2. handled \in Seq(Seq(1 .. arrived))
  BY DEF Delivers, StreamsInv, StreamsTypeOK
<1>3. handled \in Seq(Seq(Nat)) /\ text \in Seq(Nat)
  <2>1. arrived \in Nat /\ n \in Nat
    BY PieceIsTyped DEF Delivers
  <2>2. 1 .. arrived \subseteq Nat /\ 1 .. arrived + n \subseteq Nat
    BY <2>1
  <2>3. Seq(1 .. arrived) \subseteq Seq(Nat)
    BY <2>2, SeqMonotonic
  <2> HIDE DEF text
  <2> QED BY <1>1, <1>2, <2>2, <2>3, SeqMonotonic
<1>4. CASE Overflows(Piece(n))
  BY <1>4 DEF GameSpyPacket
<1>5. CASE ~Overflows(Piece(n)) /\ Ends(Piece(n)[Len(Piece(n))])
  <2>1. HandleAll(text, Piece(n))
    BY <1>5 DEF GameSpyPacket
  <2> HIDE DEF text
  <2> QED BY <2>1, <1>3, <1>5, HandledParts
<1>6. CASE ~Overflows(Piece(n)) /\ ~Ends(Piece(n)[Len(Piece(n))])
  BY <1>6 DEF GameSpyPacket
<1> QED BY <1>4, <1>5, <1>6

\* If nothing is lost, a call handles the messages that its text ends, or keeps the text.
LEMMA GameSpyHandles ==
  ASSUME NEW n, Delivers(n), GameSpyPacket(Piece(n)), mishaps' \cap {"dropped", "panicked"} = {}
  PROVE  \/ Ends(arrived + n) /\ buffer' = <<>> /\ handled' = handled \o SplitAfter(buffer \o Piece(n))
         \/ ~Ends(arrived + n) /\ buffer' = buffer \o Piece(n) /\ handled' = handled
<1> DEFINE text == buffer \o Piece(n)
<1>1. ~Overflows(Piece(n)) /\ Piece(n)[Len(Piece(n))] = arrived + n
  BY MishapsGrow, PieceIsTyped
<1>2. CASE Ends(arrived + n)
  <2>1. HandleAll(text, Piece(n)) /\ text \in Seq(1 .. arrived + n) /\ handled \in Seq(Seq(1 .. arrived)) /\ arrived \in Nat /\ n \in Nat
    BY <1>1, <1>2, PieceIsTyped DEF GameSpyPacket, Delivers, StreamsInv, StreamsTypeOK
  <2>2. 1 .. arrived \subseteq 1 .. arrived + n
    BY <2>1
  <2>3. Seq(1 .. arrived) \subseteq Seq(1 .. arrived + n)
    BY <2>2, SeqMonotonic
  <2> HIDE DEF text
  <2>4. handled \in Seq(Seq(1 .. arrived + n))
    BY <2>1, <2>3, SeqMonotonic
  <2>5. buffer' = <<>> /\ handled' = handled \o SplitAfter(text)
    BY <2>1, <2>4, HandledParts
  <2> QED BY <2>5, <1>2 DEF text
<1>3. CASE ~Ends(arrived + n)
  BY <1>1, <1>3 DEF GameSpyPacket
<1> QED BY <1>2, <1>3

\* ... what is handled are the next messages, ...
LEMMA GameSpyKeepsWhole ==
  ASSUME NEW n, Delivers(n), GameSpyPacket(Piece(n)), arrived' = arrived + n, UNCHANGED <<server, messages>>
  PROVE  Whole'
<1> SUFFICES ASSUME mishaps' \cap {"dropped", "panicked"} = {}
             PROVE  /\ Len(handled') <= Len(messages)
                    /\ \A j \in DOMAIN handled' : handled'[j] = Cells(j)
                    /\ End(Len(handled')) <= arrived'
                    /\ buffer' = [i \in 1 .. arrived' - End(Len(handled')) |-> End(Len(handled')) + i]
  BY SameStream DEF Whole
<1> DEFINE h == Len(handled)
           text == buffer \o Piece(n)
<1>1. mishaps \cap {"dropped", "panicked"} = {}
  BY MishapsGrow
<1>2. /\ h \in 0 .. Len(messages) /\ End(h) \in Nat /\ End(h) <= arrived
      /\ text = [i \in 1 .. (arrived + n) - End(h) |-> End(h) + i]
  BY <1>1, TextIsRest
<1>3. /\ IsStream(messages) /\ arrived \in Nat /\ n \in Nat /\ n >= 1 /\ arrived + n \in 1 .. End(Len(messages))
      /\ Len(messages) \in Nat /\ handled \in Seq(Seq(1 .. arrived)) /\ DOMAIN handled = 1 .. h
      /\ text \in Seq(1 .. arrived + n)
  <2>1. IsStream(messages) /\ n \in Nat /\ n >= 1 /\ handled \in Seq(Seq(1 .. arrived))
    BY DEF Delivers, StreamsInv, StreamsTypeOK
  <2>2. DOMAIN handled = 1 .. h
    BY <2>1, LenProperties
  <2>3. Len(messages) \in Nat
    BY <2>1, EndsAreTyped
  <2> QED BY <2>1, <2>2, <2>3, PieceIsTyped
<1>4. \A j \in 1 .. h : handled[j] = Cells(j)
  BY <1>1, <1>3 DEF Delivers, StreamsInv, Whole
<1>5. CASE ~Ends(arrived + n)
  <2>1. buffer' = text /\ handled' = handled
    BY <1>5, GameSpyHandles
  <2> HIDE DEF text
  <2> QED BY <2>1, <1>2, <1>3, <1>4
<1>6. CASE Ends(arrived + n)
  <2>1. buffer' = <<>> /\ handled' = handled \o SplitAfter(text)
    BY <1>6, GameSpyHandles
  <2>2. PICK k \in DOMAIN messages : arrived + n = End(k)
    BY <1>3, <1>6, EndsIsEnd
  <2>3. k \in 0 .. Len(messages) /\ k \in h .. Len(messages)
    <3>1. k \in 1 .. Len(messages)
      BY <1>3, EndsAreTyped
    <3>2. ~(k < h)
      <4> SUFFICES ASSUME k < h PROVE FALSE
        OBVIOUS
      <4>1. End(k) < End(h)
        BY <3>1, <1>2, <1>3, EndsAscend
      <4> QED BY <4>1, <2>2, <1>2, <1>3
    <3> QED BY <3>1, <3>2, <1>2
  <2>4. SplitAfter(text) = [j \in 1 .. k - h |-> Cells(h + j)]
    BY <2>2, <2>3, <1>2, <1>3, SplitIsWhole
  <2> DEFINE parts == SplitAfter(text)
  <2>5. parts \in Seq(Seq(1 .. arrived + n)) /\ handled \in Seq(Seq(1 .. arrived + n))
    <3>1. 1 .. arrived \subseteq 1 .. arrived + n
      BY <1>3
    <3>2. Seq(1 .. arrived) \subseteq Seq(1 .. arrived + n)
      BY <3>1, SeqMonotonic
    <3> HIDE DEF text
    <3> QED BY <3>2, <1>3, PartsAreTyped, SeqMonotonic
  <2>6. k - h \in Nat /\ h \in Nat /\ k \in Nat /\ k <= Len(messages)
    BY <2>3, <1>2, <1>3
  <2>7. Len(parts) = k - h /\ \A j \in 1 .. k - h : parts[j] = Cells(h + j)
    BY <2>4, <2>6
  <2> HIDE DEF parts, text, h
  <2>8. handled' = handled \o parts
    BY <2>1 DEF parts
  <2>9. /\ Len(handled') = h + (k - h) /\ DOMAIN handled' = 1 .. h + (k - h)
        /\ \A j \in 1 .. h + (k - h) : handled'[j] = IF j <= h THEN handled[j] ELSE parts[j - h]
    <3>1. Len(handled) = h
      BY DEF h
    <3>2. /\ handled \o parts \in Seq(Seq(1 .. arrived + n)) /\ Len(handled \o parts) = h + (k - h)
          /\ \A j \in 1 .. h + (k - h) : (handled \o parts)[j] = IF j <= h THEN handled[j] ELSE parts[j - h]
      <4>1. /\ handled \o parts \in Seq(Seq(1 .. arrived + n)) /\ Len(handled \o parts) = Len(handled) + Len(parts)
            /\ \A j \in 1 .. Len(handled) + Len(parts) :
                 (handled \o parts)[j] = IF j <= Len(handled) THEN handled[j] ELSE parts[j - Len(handled)]
        BY <2>5, ConcatProperties
      <4>2. Len(parts) = k - h
        BY <2>7
      <4> QED BY <4>1, <4>2, <3>1
    <3>3. DOMAIN (handled \o parts) = 1 .. h + (k - h)
      BY <3>2, LenProperties
    <3> QED BY <2>8, <3>2, <3>3
  <2>10. Len(handled') = k /\ DOMAIN handled' = 1 .. k
    BY <2>6, <2>9
  <2>11. ASSUME NEW j \in 1 .. k PROVE handled'[j] = Cells(j)
    <3>1. handled'[j] = IF j <= h THEN handled[j] ELSE parts[j - h]
      BY <2>6, <2>9
    <3>2. CASE j <= h
      BY <3>1, <3>2, <1>4, <2>6
    <3>3. CASE ~(j <= h)
      <4>1. j - h \in 1 .. k - h /\ h + (j - h) = j
        BY <3>3, <2>6
      <4> QED BY <3>1, <3>3, <4>1, <2>7
    <3> QED BY <3>2, <3>3
  <2>12. End(k) = arrived' /\ arrived' - End(k) = 0 /\ arrived' \in Nat
    BY <2>2, <1>3
  <2>13. buffer' = [i \in 1 .. 0 |-> End(k) + i]
    BY <2>1
  <2> QED BY <2>6, <2>10, <2>11, <2>12, <2>13
<1> QED BY <1>5, <1>6

\* ... the buffer is empty where a message ends, and what fits is kept.
LEMMA GameSpyKeepsRest ==
  ASSUME NEW n, Delivers(n), GameSpyPacket(Piece(n)), arrived' = arrived + n, UNCHANGED <<server, messages>>,
         server # "serverbrowser"
  PROVE  HandledAtEnd' /\ FitsIsKept' /\ InOneMessage'
<1>0. IsStream(messages) /\ arrived \in Nat /\ n \in Nat /\ n >= 1 /\ arrived + n \in 1 .. End(Len(messages))
  BY PieceIsTyped DEF Delivers
<1>1. HandledAtEnd'
  <2>1. Ends(arrived)' = Ends(arrived + n)
    BY DEF Ends, Of, End
  <2> SUFFICES ASSUME mishaps' \subseteq {"pipelined"}, Ends(arrived + n) PROVE buffer' = <<>>
    BY <2>1 DEF HandledAtEnd
  <2>2. mishaps' \cap {"dropped", "panicked"} = {}
    OBVIOUS
  <2> QED BY <2>2, GameSpyHandles
<1>2. FitsIsKept'
  <2> SUFFICES ASSUME "dropped" \in mishaps', mishaps' = {"dropped"}
               PROVE  \E k \in DOMAIN messages : messages[k].len > MaxBuffer
    BY DEF FitsIsKept
  <2>1. mishaps \subseteq {"dropped"} /\ Pipelined(Piece(n)) = {}
    <3>1. mishaps \cup Pipelined(Piece(n)) \subseteq mishaps'
      BY MishapsGrow
    <3>2. "pipelined" \notin Pipelined(Piece(n))
      BY <3>1
    <3> QED BY <3>1, <3>2 DEF Pipelined
  <2>2. CASE "dropped" \in mishaps
    <3>1. mishaps = {"dropped"}
      BY <2>1, <2>2
    <3> QED BY <3>1 DEF Delivers, StreamsInv, FitsIsKept
  <2>3. CASE "dropped" \notin mishaps
    <3>1. mishaps = {}
      BY <2>1, <2>3
    <3>2. Overflows(Piece(n))
      <4> SUFFICES ASSUME ~Overflows(Piece(n)) PROVE FALSE
        OBVIOUS
      <4>1. mishaps' \subseteq mishaps \cup Pipelined(Piece(n)) \cup {"panicked"}
        BY MishapsGrow
      <4> QED BY <4>1, <2>1, <3>1
    <3> DEFINE h == Len(handled)
    <3>3. h + 1 \in DOMAIN messages /\ arrived + n <= End(h + 1)
      BY <2>1, <3>1, PieceIsOfNext
    <3>4. Len(buffer) = arrived - End(h) /\ End(h) \in Nat /\ h \in Nat
      BY <3>1, TextIsRest
    <3>5. End(h + 1) = End((h + 1) - 1) + messages[h + 1].len /\ messages[h + 1].len \in Nat /\ (h + 1) - 1 = h
      BY <3>3, <3>4, <1>0, EndsAreTyped, SMTT(30)
    <3>6. Len(buffer) + n > MaxBuffer /\ MaxBuffer \in Nat
      BY <3>2, PieceIsTyped DEF Overflows, Delivers
    <3>7. messages[h + 1].len > MaxBuffer
      <4> HIDE DEF h
      <4> QED BY <3>3, <3>4, <3>5, <3>6, <1>0, SMTT(30)
    <3> QED BY <3>3, <3>7
  <2> QED BY <2>2, <2>3
<1>3. InOneMessage'
  <2> SUFFICES ASSUME mishaps' = {}
               PROVE  buffer' = <<>> \/ (Len(handled') < Len(messages) /\ arrived' < End(Len(handled') + 1))
    BY SameStream DEF InOneMessage
  <2>1. mishaps = {} /\ Pipelined(Piece(n)) = {}
    BY MishapsGrow
  <2>2. Len(handled) + 1 \in DOMAIN messages /\ arrived + n <= End(Len(handled) + 1)
    BY <2>1, PieceIsOfNext
  <2>3. buffer' = <<>> \/ (~Ends(arrived + n) /\ handled' = handled)
    BY GameSpyHandles
  <2>4. CASE ~Ends(arrived + n) /\ handled' = handled
    <3>1. arrived + n # End(Len(handled) + 1)
      BY <2>2, <2>4, <1>0, EndsIsEnd
    <3>2. Len(handled) + 1 \in 1 .. Len(messages) /\ Len(messages) \in Nat /\ End(Len(handled) + 1) \in Nat
      BY <2>2, <1>0, EndsAreTyped
    <3>3. Len(handled) \in Nat
      BY DEF Delivers, StreamsInv, StreamsTypeOK
    <3> QED BY <3>1, <3>2, <3>3, <2>2, <2>4, <1>0
  <2> QED BY <2>3, <2>4
<1> QED BY <1>1, <1>2, <1>3

\* What a call of serverbrowser does with a text that starts with message k.
LEMMA BrowserHandles ==
  ASSUME NEW n, Delivers(n), BrowserPacket(Piece(n))
  PROVE  LET text == buffer \o Piece(n)
         IN /\ mishaps' = mishaps \cup Pipelined(Piece(n))
            /\ \/ status' = "closed" /\ handled' = handled /\ buffer' = buffer
               \/ status' = "closed" /\ handled' = handled /\ buffer' = text /\ Len(text) <= MaxBuffer
               \/ /\ status' = status /\ Len(text) >= 2 /\ HasPacket(text) /\ Len(text) <= MaxBuffer
                  /\ handled' = Append(handled, SubSeq(text, 1, PacketSize(text))) /\ buffer' = Rest(text)
               \/ /\ status' = status /\ (Len(text) < 2 \/ ~HasPacket(text)) /\ Len(text) <= MaxBuffer
                  /\ handled' = handled /\ buffer' = text
<1> DEFINE text == buffer \o Piece(n)
<1>1. Len(text) = Len(buffer) + n /\ Len(Piece(n)) = n /\ Len(buffer) \in Nat /\ n \in Nat /\ MaxBuffer \in Nat
  BY PieceIsTyped DEF Delivers
<1>2. ~Overflows(Piece(n)) => Len(text) <= MaxBuffer
  BY <1>1 DEF Overflows
<1>3. Len(text) >= 2 \/ Len(text) < 2
  BY <1>1
<1> QED BY <1>2, <1>3 DEF BrowserPacket

\* The text starts in a message.
LEMMA PacketIsMessage ==
  ASSUME NEW n, Delivers(n)
  PROVE  /\ PacketSize(buffer \o Piece(n)) \in Nat /\ PacketSize(buffer \o Piece(n)) >= 2
         /\ mishaps \cap {"dropped", "panicked"} = {} =>
              /\ Len(handled) + 1 \in DOMAIN messages
              /\ PacketSize(buffer \o Piece(n)) = messages[Len(handled) + 1].len
              /\ End(Len(handled) + 1) = End(Len(handled)) + PacketSize(buffer \o Piece(n))
              /\ messages[Len(handled) + 1].from = End(Len(handled))
<1> DEFINE text == buffer \o Piece(n)
           h == Len(handled)
<1>1. /\ IsStream(messages) /\ n \in Nat /\ n >= 1 /\ arrived \in Nat /\ arrived + n \in 1 .. End(Len(messages))
      /\ Len(messages) \in Nat /\ End(Len(messages)) \in Nat
  BY PieceIsTyped, EndsAreTyped DEF Delivers
<1>2. text[1] \in 1 .. End(Len(messages))
  <2>1. text \in Seq(1 .. arrived + n) /\ 1 \in 1 .. Len(text)
    BY PieceIsTyped, <1>1
  <2> HIDE DEF text
  <2>2. text[1] \in 1 .. arrived + n
    BY <2>1, ElementOfSeq
  <2> QED BY <2>2, <1>1
<1>3. Of(text[1]) \in DOMAIN messages
  <2> HIDE DEF text
  <2> QED BY <1>1, <1>2, CellIsOfMessage
<1>4. PacketSize(text) \in Nat /\ PacketSize(text) >= 2
  <2> HIDE DEF text
  <2> QED BY <1>1, <1>3, EndsAreTyped DEF PacketSize
<1>5. ASSUME mishaps \cap {"dropped", "panicked"} = {}
      PROVE  /\ h + 1 \in DOMAIN messages /\ PacketSize(text) = messages[h + 1].len
             /\ End(h + 1) = End(h) + PacketSize(text)
             /\ messages[h + 1].from = End(h)
  <2>1. /\ h \in 0 .. Len(messages) /\ End(h) \in Nat /\ End(h) <= arrived
        /\ text = [i \in 1 .. (arrived + n) - End(h) |-> End(h) + i]
    BY <1>5, TextIsRest
  <2>2. text[1] = End(h) + 1
    BY <2>1, <1>1
  <2>3. h # Len(messages)
    BY <2>1, <1>1
  <2>4. h + 1 \in DOMAIN messages /\ (h + 1) - 1 = h
    BY <2>1, <2>3, <1>1, EndsAreTyped
  <2>5. /\ End(h + 1) = End((h + 1) - 1) + messages[h + 1].len /\ messages[h + 1].from = End((h + 1) - 1)
        /\ messages[h + 1].len \in Nat /\ messages[h + 1].len >= 2
    BY <2>4, <1>1, EndsAreTyped
  <2>6. Of(End(h) + 1) = h + 1
    <3>1. End(h) + 1 \in Nat /\ End((h + 1) - 1) < End(h) + 1 /\ End(h) + 1 <= End(h + 1)
      BY <2>1, <2>4, <2>5
    <3> QED BY <3>1, <2>4, <1>1, OfIsUnique
  <2>7. PacketSize(text) = messages[h + 1].len
    <3> HIDE DEF text, h
    <3> QED BY <2>2, <2>6 DEF PacketSize
  <2> QED BY <2>4, <2>5, <2>7
<1> QED BY <1>4, <1>5

\* The packet of serverbrowser, likewise.
LEMMA BrowserKeepsTypes ==
  ASSUME NEW n, Delivers(n), BrowserPacket(Piece(n)), arrived' = arrived + n, UNCHANGED <<server, messages>>
  PROVE  StreamsTypeOK'
<1> DEFINE text == buffer \o Piece(n)
           size == PacketSize(text)
<1>1. /\ text \in Seq(1 .. arrived + n) /\ Len(text) \in Nat
      /\ buffer \in Seq(1 .. arrived + n) /\ Len(buffer) <= MaxBuffer /\ MaxBuffer \in Nat
  BY PieceIsTyped DEF Delivers
<1>2. size \in Nat /\ size >= 2
  BY PacketIsMessage
<1>3. /\ handled \in Seq(Seq(1 .. arrived + n)) /\ mishaps \subseteq Mishaps /\ Pipelined(Piece(n)) \subseteq Mishaps
      /\ status \in {"open", "closed"}
  BY TypesGrow
<1>4. mishaps' \subseteq Mishaps /\ status' \in {"open", "closed"}
  BY <1>3, BrowserHandles
<1>5. /\ buffer' \in Seq(1 .. arrived + n) /\ Len(buffer') <= MaxBuffer
      /\ handled' \in Seq(Seq(1 .. arrived + n))
  <2>1. CASE handled' = handled /\ (buffer' = buffer \/ (buffer' = text /\ Len(text) <= MaxBuffer))
    BY <2>1, <1>1, <1>3
  <2>2. CASE /\ HasPacket(text) /\ Len(text) <= MaxBuffer
             /\ handled' = Append(handled, SubSeq(text, 1, size)) /\ buffer' = Rest(text)
    <3>1. Len(text) >= size /\ buffer' = SubSeq(text, size + 1, Len(text))
      BY <2>2 DEF HasPacket, Rest
    <3> HIDE DEF text, size
    <3>2. SubSeq(text, 1, size) \in Seq(1 .. arrived + n)
      BY <1>1, <1>2, <3>1
    <3>3. SubSeq(text, size + 1, Len(text)) \in Seq(1 .. arrived + n) /\ Len(SubSeq(text, size + 1, Len(text))) <= Len(text)
      BY <1>1, <1>2, <3>1, SMTT(30)
    <3>4. Append(handled, SubSeq(text, 1, size)) \in Seq(Seq(1 .. arrived + n))
      BY <1>3, <3>2
    <3>5. Len(buffer') <= MaxBuffer
      BY <1>1, <2>2, <3>1, <3>3
    <3> QED BY <2>2, <3>1, <3>3, <3>4, <3>5
  <2> QED BY <2>1, <2>2, BrowserHandles
<1> QED BY <1>4, <1>5, TypesGrow DEF StreamsTypeOK

LEMMA BrowserKeepsWhole ==
  ASSUME NEW n, Delivers(n), BrowserPacket(Piece(n)), arrived' = arrived + n, UNCHANGED <<server, messages>>
  PROVE  Whole'
<1> SUFFICES ASSUME mishaps' \cap {"dropped", "panicked"} = {}
             PROVE  /\ Len(handled') <= Len(messages)
                    /\ \A j \in DOMAIN handled' : handled'[j] = Cells(j)
                    /\ status' = "open" =>
                         /\ End(Len(handled')) <= arrived'
                         /\ buffer' = [i \in 1 .. arrived' - End(Len(handled')) |-> End(Len(handled')) + i]
  BY SameStream DEF Whole
<1> DEFINE h == Len(handled)
           text == buffer \o Piece(n)
           size == PacketSize(text)
<1>1. mishaps \cap {"dropped", "panicked"} = {}
  BY BrowserHandles
<1>2. /\ h \in 0 .. Len(messages) /\ End(h) \in Nat /\ End(h) <= arrived
      /\ text = [i \in 1 .. (arrived + n) - End(h) |-> End(h) + i]
  BY <1>1, TextIsRest
<1>3. arrived \in Nat /\ n \in Nat /\ n >= 1 /\ Len(messages) \in Nat /\ handled \in Seq(Seq(1 .. arrived)) /\ IsStream(messages)
  <2>1. IsStream(messages) /\ n \in Nat /\ n >= 1 /\ handled \in Seq(Seq(1 .. arrived))
    BY DEF Delivers, StreamsInv, StreamsTypeOK
  <2> QED BY <2>1, PieceIsTyped, EndsAreTyped
<1>4. DOMAIN handled = 1 .. h /\ h \in Nat /\ \A j \in 1 .. h : handled[j] = Cells(j)
  <2>1. DOMAIN handled = 1 .. h
    BY <1>3, LenProperties
  <2> QED BY <2>1, <1>1, <1>2 DEF Delivers, StreamsInv, Whole
<1>5. CASE handled' = handled /\ (status' = "closed" \/ buffer' = text)
  <2> HIDE DEF text
  <2> QED BY <1>2, <1>3, <1>4, <1>5
<1>6. CASE HasPacket(text) /\ handled' = Append(handled, SubSeq(text, 1, size)) /\ buffer' = Rest(text)
  <2>1. /\ h + 1 \in DOMAIN messages /\ size = messages[h + 1].len /\ size \in Nat
        /\ End(h + 1) = End(h) + size /\ messages[h + 1].from = End(h)
    BY <1>1, PacketIsMessage
  <2>2. Len(text) >= size /\ buffer' = SubSeq(text, size + 1, Len(text))
    BY <1>6 DEF HasPacket, Rest
  <2>3. Len(text) = (arrived + n) - End(h) /\ \A i \in 1 .. Len(text) : text[i] = End(h) + i
    BY <1>2, <1>3
  <2> HIDE DEF text, size
  <2>4. SubSeq(text, 1, size) = Cells(h + 1)
    <3>1. SubSeq(text, 1, size) = [i \in 1 .. size |-> text[i]]
      BY <2>1
    <3>2. \A i \in 1 .. size : text[i] = messages[h + 1].from + i
      BY <2>1, <2>2, <2>3
    <3> QED BY <3>1, <3>2, <2>1 DEF Cells
  <2>5. buffer' = [i \in 1 .. arrived' - End(h + 1) |-> End(h + 1) + i] /\ End(h + 1) <= arrived'
    <3>0. Len(text) \in Nat /\ End(h) \in Nat /\ arrived \in Nat /\ n \in Nat /\ size \in Nat /\ Len(text) >= size
      BY <2>1, <2>2, <1>2, <1>3, <2>3, SMTT(30)
    <3> DEFINE rest == Len(text) - size
    <3>1. rest \in Nat /\ rest = arrived' - End(h + 1) /\ size + rest = Len(text)
      <4>1. rest \in Nat /\ size + rest = Len(text)
        BY <3>0
      <4>2. arrived' - End(h + 1) = ((arrived + n) - End(h)) - size
        BY <3>0, <2>1
      <4> QED BY <4>1, <4>2, <2>3
    <3>4. \A i \in 1 .. rest : text[size + i] = End(h + 1) + i
      <4> SUFFICES ASSUME NEW i \in 1 .. rest PROVE text[size + i] = End(h + 1) + i
        OBVIOUS
      <4>1. size + i \in 1 .. Len(text) /\ i \in Nat
        <5>1. i \in Nat /\ i >= 1 /\ i <= rest
          BY <3>1
        <5> HIDE DEF rest
        <5> QED BY <5>1, <3>0, <3>1
      <4>2. text[size + i] = End(h) + (size + i)
        BY <4>1, <2>3
      <4> QED BY <4>1, <4>2, <2>1, <3>0
    <3> HIDE DEF rest
    <3>2. SubSeq(text, size + 1, size + rest) = [i \in 1 .. rest |-> text[size + i]]
      <4>1. \A s, a, b : a \in Nat /\ b \in Nat => SubSeq(s, a + 1, a + b) = [i \in 1 .. b |-> s[a + i]]
        OBVIOUS
      <4> QED BY <4>1, <3>0, <3>1
    <3>5. End(h + 1) <= arrived'
      <4>1. End(h + 1) \in Nat
        BY <3>0, <2>1
      <4>2. arrived' \in Nat
        BY <3>0
      <4>3. arrived' - End(h + 1) \in Nat
        BY <3>1
      <4> QED BY <4>1, <4>2, <4>3
    <3> QED BY <2>2, <3>1, <3>2, <3>4, <3>5
  <2>6. Len(handled') = h + 1 /\ \A j \in DOMAIN handled' : handled'[j] = Cells(j)
    <3>1. SubSeq(text, 1, size) \in Seq(Nat)
      <4>1. \A i \in 1 .. size : text[i] \in Nat
        <5>1. Len(text) \in Nat
          BY <2>3, <1>2, <1>3, <2>2
        <5>2. \A i \in 1 .. size : i \in 1 .. Len(text)
          BY <5>1, <2>1, <2>2
        <5> QED BY <5>2, <2>3, <1>2
      <4> QED BY <4>1, <2>1, SubSeqProperties
    <3> DEFINE m == SubSeq(text, 1, size)
    <3> HIDE DEF m
    <3>2. Len(Append(handled, m)) = h + 1 /\ DOMAIN Append(handled, m) = 1 .. h + 1
          /\ \A j \in 1 .. h + 1 : Append(handled, m)[j] = IF j = h + 1 THEN m ELSE handled[j]
      BY <1>3, <1>4
    <3> QED BY <3>2, <1>4, <1>6, <2>4 DEF m
  <2>7. h + 1 <= Len(messages)
    BY <2>1, <1>3, EndsAreTyped
  <2> QED BY <2>5, <2>6, <2>7
<1> QED BY <1>5, <1>6, BrowserHandles

LEMMA BrowserKeepsRest ==
  ASSUME NEW n, Delivers(n), BrowserPacket(Piece(n)), arrived' = arrived + n, UNCHANGED <<server, messages>>,
         server = "serverbrowser"
  PROVE  HandledAtEnd' /\ FitsIsKept' /\ InOneMessage'
<1> DEFINE h == Len(handled)
           text == buffer \o Piece(n)
           size == PacketSize(text)
<1>0. IsStream(messages) /\ arrived \in Nat /\ n \in Nat /\ n >= 1 /\ arrived + n \in 1 .. End(Len(messages))
  BY PieceIsTyped DEF Delivers
<1>1. mishaps' = mishaps \cup Pipelined(Piece(n))
  BY BrowserHandles
<1>2. FitsIsKept'
  <2>1. "dropped" \notin mishaps
    BY DEF Delivers, StreamsInv, FitsIsKept
  <2>2. "dropped" \notin Pipelined(Piece(n))
    BY DEF Pipelined
  <2> QED BY <1>1, <2>1, <2>2 DEF FitsIsKept
<1>3. ASSUME mishaps' = {}, status' = "open"
      PROVE  buffer' = <<>> \/ (Len(handled') < Len(messages) /\ arrived' < End(Len(handled') + 1))
  <2>1. mishaps = {} /\ Pipelined(Piece(n)) = {} /\ mishaps \cap {"dropped", "panicked"} = {}
    BY <1>1, <1>3
  <2>2. h + 1 \in DOMAIN messages /\ arrived + n <= End(h + 1)
    BY <2>1, PieceIsOfNext
  <2>3. size \in Nat /\ size >= 2 /\ End(h + 1) = End(h) + size
    BY <2>1, PacketIsMessage
  <2>4. h \in Nat /\ h < Len(messages) /\ Len(messages) \in Nat /\ End(h) \in Nat /\ End(h) <= arrived /\ h \in 0 .. Len(messages)
        /\ h + 1 \in 0 .. Len(messages)
    BY <2>1, <2>2, <1>0, TextIsRest, EndsAreTyped, SMTT(30)
  <2>5. Len(text) = (arrived + n) - End(h)
    <3>1. text = [i \in 1 .. (arrived + n) - End(h) |-> End(h) + i]
      BY <2>1, TextIsRest
    <3>2. (arrived + n) - End(h) \in Nat
      BY <1>0, <2>4
    <3> HIDE DEF text
    <3> QED BY <3>1, <3>2
  <2>6. Len(text) \in Nat /\ Len(text) <= size /\ (Len(text) = size <=> arrived + n = End(h + 1))
    <3> HIDE DEF text, size, h
    <3> QED BY <2>2, <2>3, <2>4, <2>5, <1>0
  <2>7. Ends(arrived + n) => arrived + n = End(h + 1)
    <3> SUFFICES ASSUME Ends(arrived + n) PROVE arrived + n = End(h + 1)
      OBVIOUS
    <3>1. PICK k \in DOMAIN messages : arrived + n = End(k)
      BY <1>0, EndsIsEnd
    <3>2. k \in 0 .. Len(messages) /\ k \in Nat
      BY <1>0, EndsAreTyped
    <3>3. ~(k <= h)
      <4> SUFFICES ASSUME k <= h PROVE FALSE
        OBVIOUS
      <4>1. End(k) <= End(h)
        <5>1. CASE k = h
          BY <5>1, <2>4
        <5>2. CASE k # h
          <6>1. k < h
            <7> HIDE DEF h
            <7> QED BY <5>2, <3>2, <2>4
          <6>2. End(k) < End(h) /\ End(k) \in Nat
            <7> HIDE DEF h
            <7> QED BY <6>1, <3>2, <2>4, <1>0, EndsAscend, EndsAreTyped
          <6> HIDE DEF h
          <6> QED BY <6>2, <2>4
        <5> QED BY <5>1, <5>2
      <4> QED BY <4>1, <3>1, <2>4, <1>0
    <3>4. ~(h + 1 < k)
      <4> SUFFICES ASSUME h + 1 < k PROVE FALSE
        OBVIOUS
      <4>1. End(h + 1) < End(k)
        BY <3>2, <2>4, <1>0, EndsAscend
      <4> QED BY <4>1, <3>1, <2>2, <2>3, <2>4, <1>0
    <3>5. k = h + 1
      BY <3>2, <3>3, <3>4, <2>4
    <3> QED BY <3>1, <3>5
  <2>8. CASE HasPacket(text) /\ buffer' = Rest(text)
    <3>1. Len(text) = size /\ buffer' = SubSeq(text, size + 1, Len(text))
      <4>1. Len(text) >= size /\ buffer' = SubSeq(text, size + 1, Len(text))
        BY <2>8 DEF HasPacket, Rest
      <4> HIDE DEF text, size
      <4> QED BY <4>1, <2>3, <2>6
    <3>2. buffer' = <<>>
      <4> HIDE DEF text, size
      <4> QED BY <3>1, <2>3, SubSeqEmpty
    <3> QED BY <3>2
  <2>9. CASE (Len(text) < 2 \/ ~HasPacket(text)) /\ handled' = handled
    <3>1. text # <<>>
      <4>1. Len(text) # 0
        BY <2>4, <2>5, <1>0
      <4> HIDE DEF text
      <4> QED BY <4>1
    <3>2. Len(text) # size
      <4>1. ~HasPacket(text) => ~(Len(text) >= size)
        BY <3>1 DEF HasPacket
      <4> HIDE DEF text, size
      <4> QED BY <4>1, <2>3, <2>6, <2>9
    <3>3. arrived + n < End(h + 1)
      <4> HIDE DEF text, size
      <4> QED BY <3>2, <2>2, <2>3, <2>4, <2>6, <2>7, <1>0
    <3> QED BY <3>3, <2>4, <2>9
  <2> QED BY <2>8, <2>9, <1>3, BrowserHandles
<1>4. HandledAtEnd'
  BY DEF HandledAtEnd
<1>5. InOneMessage'
  BY <1>3, SameStream DEF InOneMessage
<1> QED BY <1>2, <1>4, <1>5

LEMMA StreamsInitially == StreamsInit => StreamsInv
<1> SUFFICES ASSUME StreamsInit PROVE StreamsInv
  OBVIOUS
<1>1. IsStream(messages) /\ MaxBuffer \in Nat
  BY StreamsAssumption DEF StreamsInit
<1>2. Len(messages) \in Nat /\ End(Len(messages)) \in Nat
  BY <1>1, EndsAreTyped
<1>3. StreamsTypeOK
  BY <1>1, <1>2 DEF StreamsInit, StreamsTypeOK
<1>4. Whole
  BY <1>2 DEF StreamsInit, Whole, End
<1>5. HandledAtEnd /\ FitsIsKept /\ InOneMessage
  BY DEF StreamsInit, HandledAtEnd, FitsIsKept, InOneMessage
<1> QED BY <1>3, <1>4, <1>5 DEF StreamsInv

LEMMA ReceiveKeepsStreams == ASSUME StreamsInv, NEW n \in 1 .. MaxPiece, Receive(n) PROVE StreamsInv'
<1>1. IsStream(messages) /\ MaxBuffer \in Nat /\ n \in Nat /\ n >= 1
  BY StreamsAssumption DEF StreamsInv, StreamsTypeOK
<1>2. Delivers(n)
  BY <1>1 DEF Delivers, Receive
<1>3. arrived' = arrived + n /\ UNCHANGED <<server, messages>>
  BY DEF Receive
<1>4. CASE server = "serverbrowser"
  <2>1. BrowserPacket(Piece(n))
    BY <1>4 DEF Receive, Piece
  <2> QED BY <1>2, <1>3, <1>4, <2>1, BrowserKeepsTypes, BrowserKeepsWhole, BrowserKeepsRest DEF StreamsInv
<1>5. CASE server # "serverbrowser"
  <2>1. GameSpyPacket(Piece(n))
    BY <1>5 DEF Receive, Piece
  <2> QED BY <1>2, <1>3, <1>5, <2>1, GameSpyKeepsTypes, GameSpyKeepsWhole, GameSpyKeepsRest DEF StreamsInv
<1> QED BY <1>4, <1>5

LEMMA StreamsAreKept == StreamsInv /\ [StreamsNext]_streamVars => StreamsInv'
<1>1. ASSUME StreamsInv, UNCHANGED streamVars PROVE StreamsInv'
  <2>1. StreamsTypeOK'
    BY <1>1 DEF streamVars, StreamsInv, StreamsTypeOK, End
  <2>2. Whole' /\ InOneMessage'
    BY <1>1, SameStream DEF streamVars, StreamsInv, Whole, InOneMessage
  <2>3. HandledAtEnd' /\ FitsIsKept'
    BY <1>1 DEF streamVars, StreamsInv, HandledAtEnd, FitsIsKept, Ends, Of, End
  <2> QED BY <2>1, <2>2, <2>3 DEF StreamsInv
<1> QED BY <1>1, ReceiveKeepsStreams DEF StreamsNext

LEMMA StreamsInvariant == StreamsSpec => []StreamsInv
<1> QED BY StreamsInitially, StreamsAreKept, PTL DEF StreamsSpec

\* The buffers keep to their bound and hold what was delivered (HandlePacket of gpcm, gamestats and serverbrowser).
THEOREM StreamsType == StreamsSpec => []StreamsTypeOK
<1>1. StreamsInv => StreamsTypeOK
  BY DEF StreamsInv
<1> QED BY <1>1, StreamsInvariant, PTL

\* Where a console waits for each answer, no complete message is in the buffer.
LEMMA NoCompleteWaits == StreamsInv => HandledAtOnce
<1> SUFFICES ASSUME StreamsInv, status = "open", mishaps = {}, NEW k \in DOMAIN messages, End(k) <= arrived
             PROVE  k \in DOMAIN handled
  BY DEF HandledAtOnce
<1> DEFINE h == Len(handled)
<1>1. IsStream(messages) /\ handled \in Seq(Seq(1 .. arrived)) /\ arrived \in 0 .. End(Len(messages))
  BY DEF StreamsInv, StreamsTypeOK
<1>2. Len(messages) \in Nat /\ DOMAIN messages = 1 .. Len(messages)
  BY <1>1, EndsAreTyped
<1>3. h \in Nat /\ DOMAIN handled = 1 .. h /\ k \in 1 .. Len(messages) /\ Len(messages) \in 0 .. Len(messages)
  BY <1>1, <1>2
<1>4. End(Len(messages)) \in Nat
  BY <1>1, <1>3, EndsAreTyped
<1>a. arrived \in Nat
  BY <1>1, <1>4
<1>b. h <= Len(messages) /\ End(h) <= arrived /\ buffer = [i \in 1 .. arrived - End(h) |-> End(h) + i]
  BY DEF StreamsInv, Whole
<1> SUFFICES ASSUME h < k PROVE FALSE
  BY <1>3
<1>c. h \in 0 .. Len(messages) /\ h + 1 \in 0 .. Len(messages) /\ k \in 0 .. Len(messages) /\ h < h + 1
      /\ (h + 1 < k \/ h + 1 = k)
  BY <1>2, <1>3
<1> HIDE DEF h
<1>d. End(h) \in Nat /\ End(h + 1) \in Nat /\ End(k) \in Nat
  BY <1>1, <1>c, EndsAreTyped
<1>e. End(h) < End(h + 1)
  BY <1>1, <1>c, EndsAscend
<1>f. h + 1 = k \/ End(h + 1) < End(k)
  BY <1>1, <1>c, EndsAscend
<1>5. End(h) < End(h + 1) /\ End(h + 1) <= End(k)
  BY <1>d, <1>e, <1>f
<1>6. CASE buffer = <<>>
  <2>1. arrived - End(h) \in Nat
    BY <1>a, <1>b, <1>d
  <2>2. Len(buffer) = arrived - End(h)
    BY <1>b, <2>1
  <2>3. Len(buffer) = 0
    BY <1>6
  <2> QED BY <1>a, <1>d, <1>5, <2>2, <2>3
<1>7. CASE buffer # <<>>
  <2>1. arrived < End(h + 1)
    BY <1>7 DEF StreamsInv, InOneMessage, h
  <2> QED BY <1>a, <1>d, <1>5, <2>1
<1> QED BY <1>6, <1>7

\* The messages are handled once, whole and in order, however the stream is cut, unless something was dropped or a
\* handler panicked; by the call that brings their end if the console waits for the answers, and otherwise, at gpcm
\* and gamestats, by the first that ends where a message ends; and data is dropped only from a console that does not
\* wait, sends what does not fit, or has met a handler that panicked (HandlePacket of gpcm, gamestats and serverbrowser).
THEOREM StreamsAreCutRight == StreamsSpec => []MessagesAreCut
<1>1. StreamsInv => MessagesAreCut
  BY NoCompleteWaits DEF StreamsInv, MessagesAreCut
<1> QED BY <1>1, StreamsInvariant, PTL

-----------------------------------------------------------------------------
(* Filters: the tree *)

NodeType == [tok : Tokens \cup {[t |-> "empty", n |-> 0, s |-> ""]}, parent : Nat, items : Seq(Nat)]

\* Nodes refer to nodes.  All but the root have tokens that were read.
NodesTyped ==
  /\ read \in Seq(Tokens)
  /\ tree \in Seq(NodeType) /\ Len(tree) >= 1
  /\ tree[1].tok.t = "empty"
  /\ \A i \in DOMAIN tree : \A j \in DOMAIN tree[i].items : tree[i].items[j] \in 2 .. Len(tree)
  /\ \A i \in 2 .. Len(tree) : tree[i].parent \in DOMAIN tree /\ \E n \in DOMAIN read : tree[i].tok = read[n]

\* Items and parents agree.
Linked ==
  /\ \A i \in DOMAIN tree : \A j \in DOMAIN tree[i].items : tree[tree[i].items[j]].parent = i
  /\ \A i \in 2 .. Len(tree) :
       \E j \in DOMAIN tree[tree[i].parent].items :
         \A k \in DOMAIN tree[tree[i].parent].items : tree[tree[i].parent].items[k] = i <=> k = j

\* h numbers the nodes so that each comes after its items: nothing is below itself.
Numbers(h) ==
  /\ h \in [DOMAIN tree -> 1 .. Len(tree)]
  /\ \A i \in DOMAIN tree : \A j \in DOMAIN tree[i].items : h[tree[i].items[j]] < h[i]

\* An operator has an operand on its left.
HasOperand == phase = "operator" => tree[curr].items # <<>>

Tree == NodesTyped /\ Linked /\ \E h : Numbers(h)

\* The functions whose arguments are being read are nodes.
CallsAreNodes == calls \in Seq(Nat) /\ \A j \in DOMAIN calls : calls[j] \in DOMAIN tree

TreeInv == Tree /\ curr \in DOMAIN tree /\ phase \in {"value", "operator", "panic"} /\ HasOperand /\ CallsAreNodes

\* What the invariant says of the nodes, item by item.
LEMMA TreeIsTyped ==
  ASSUME NodesTyped
  PROVE  /\ Len(tree) \in Nat /\ DOMAIN tree = 1 .. Len(tree) /\ 1 \in DOMAIN tree /\ New \in Nat
         /\ \A i \in DOMAIN tree :
              /\ tree[i] \in NodeType
              /\ tree[i].items \in Seq(Nat) /\ DOMAIN tree[i].items = 1 .. Len(tree[i].items)
              /\ Len(tree[i].items) \in Nat
<1>1. tree \in Seq(NodeType) /\ Len(tree) >= 1
  BY DEF NodesTyped
<1>2. Len(tree) \in Nat /\ DOMAIN tree = 1 .. Len(tree) /\ \A i \in DOMAIN tree : tree[i] \in NodeType
  BY <1>1
<1>3. \A n \in NodeType : n.items \in Seq(Nat)
  BY DEF NodeType
<1>4. \A i \in DOMAIN tree : tree[i].items \in Seq(Nat)
  BY <1>2, <1>3
<1>5. \A s \in Seq(Nat) : DOMAIN s = 1 .. Len(s) /\ Len(s) \in Nat
  OBVIOUS
<1>6. 1 \in DOMAIN tree /\ New \in Nat
  BY <1>1, <1>2 DEF New
<1> QED BY <1>2, <1>4, <1>5, <1>6

LEMMA NodeIsTyped ==
  ASSUME NEW tok \in Tokens, NEW p \in Nat, NEW s \in Seq(Nat)
  PROVE  [tok |-> tok, parent |-> p, items |-> s] \in NodeType
  BY DEF NodeType

\* What Add changes.
LEMMA AddPoints ==
  ASSUME NodesTyped, NEW i \in DOMAIN tree, NEW tok \in Tokens, tree' = Add(i, tok)
  PROVE  /\ tree' \in Seq(NodeType) /\ Len(tree') = New /\ DOMAIN tree' = 1 .. New
         /\ tree'[New] = [tok |-> tok, parent |-> i, items |-> <<>>]
         /\ \A k \in DOMAIN tree :
              /\ tree'[k].tok = tree[k].tok /\ tree'[k].parent = tree[k].parent
              /\ tree'[k].items = IF k = i THEN Append(tree[k].items, New) ELSE tree[k].items
<1> DEFINE changed == [tree EXCEPT ![i].items = Append(@, New)]
<1>1. Len(tree) \in Nat /\ DOMAIN tree = 1 .. Len(tree) /\ New \in Nat /\ New = Len(tree) + 1
      /\ \A k \in DOMAIN tree : tree[k] \in NodeType /\ tree[k].items \in Seq(Nat)
  BY TreeIsTyped DEF New
<1>2. changed \in Seq(NodeType) /\ Len(changed) = Len(tree) /\ DOMAIN changed = DOMAIN tree
  <2>1. Append(tree[i].items, New) \in Seq(Nat)
    BY <1>1
  <2>2. [tree[i] EXCEPT !.items = Append(@, New)] \in NodeType
    BY <2>1, <1>1 DEF NodeType
  <2>3. tree \in Seq(NodeType)
    BY DEF NodesTyped
  <2>4. changed = [tree EXCEPT ![i] = [tree[i] EXCEPT !.items = Append(@, New)]]
    OBVIOUS
  <2> HIDE DEF changed
  <2> QED BY <2>2, <2>3, <2>4, ExceptSeq
<1>3. \A k \in DOMAIN tree :
        /\ changed[k].tok = tree[k].tok /\ changed[k].parent = tree[k].parent
        /\ changed[k].items = IF k = i THEN Append(tree[k].items, New) ELSE tree[k].items
  BY <1>1 DEF NodeType
<1>4. [tok |-> tok, parent |-> i, items |-> <<>>] \in NodeType
  <2>1. <<>> \in Seq(Nat) /\ i \in Nat
    BY <1>1
  <2> QED BY <2>1, NodeIsTyped
<1>5. tree' = Append(changed, [tok |-> tok, parent |-> i, items |-> <<>>])
  BY DEF Add, Node
<1> HIDE DEF changed
<1>6. /\ tree' \in Seq(NodeType) /\ Len(tree') = New
      /\ tree'[New] = [tok |-> tok, parent |-> i, items |-> <<>>]
      /\ \A k \in 1 .. Len(changed) : tree'[k] = changed[k]
  BY <1>1, <1>2, <1>4, <1>5, AppendProperties
<1>7. DOMAIN tree' = 1 .. New
  BY <1>6
<1> QED BY <1>1, <1>2, <1>3, <1>6, <1>7

\* What Push does to the parent of node i, and to node i.
Renamed(s, i) == [j \in DOMAIN s |-> IF s[j] = i THEN New ELSE s[j]]

WithItems(x, s) == [x EXCEPT !.items = s]

WithParent(x, q) == [x EXCEPT !.parent = q]

LEMMA RenamedIsTyped ==
  ASSUME NEW s \in Seq(Nat), NEW i, New \in Nat
  PROVE  Renamed(s, i) \in Seq(Nat)
<1>1. DOMAIN s = 1 .. Len(s) /\ Len(s) \in Nat /\ \A j \in 1 .. Len(s) : s[j] \in Nat
  OBVIOUS
<1>2. Renamed(s, i) \in [1 .. Len(s) -> Nat]
  BY <1>1 DEF Renamed
<1> QED BY <1>1, <1>2

LEMMA ItemsChange ==
  ASSUME NEW x \in NodeType, NEW s \in Seq(Nat)
  PROVE  /\ WithItems(x, s) \in NodeType /\ WithItems(x, s).tok = x.tok
         /\ WithItems(x, s).parent = x.parent /\ WithItems(x, s).items = s
  BY DEF NodeType, WithItems

LEMMA ParentChange ==
  ASSUME NEW x \in NodeType, NEW q \in Nat
  PROVE  /\ WithParent(x, q) \in NodeType /\ WithParent(x, q).tok = x.tok
         /\ WithParent(x, q).parent = q /\ WithParent(x, q).items = x.items
  BY DEF NodeType, WithParent

\* What Push changes.
LEMMA PushPoints ==
  ASSUME NodesTyped, NEW i \in 2 .. Len(tree), tree[i].parent # i,
         NEW tok \in Tokens, tree' = Push(i, tok)
  PROVE  /\ tree' \in Seq(NodeType) /\ Len(tree') = New /\ DOMAIN tree' = 1 .. New
         /\ tree'[New] = [tok |-> tok, parent |-> tree[i].parent, items |-> <<i>>]
         /\ \A k \in DOMAIN tree :
              /\ tree'[k].tok = tree[k].tok /\ tree'[k].parent = IF k = i THEN New ELSE tree[k].parent
              /\ tree'[k].items = IF k = tree[i].parent THEN Renamed(tree[k].items, i) ELSE tree[k].items
<1> DEFINE p == tree[i].parent
           items == Renamed(tree[p].items, i)
           one == [tree EXCEPT ![p] = WithItems(tree[p], items)]
           changed == [one EXCEPT ![i] = WithParent(one[i], New)]
           last == [tok |-> tok, parent |-> p, items |-> <<i>>]
<1>1. Len(tree) \in Nat /\ DOMAIN tree = 1 .. Len(tree) /\ New \in Nat /\ New = Len(tree) + 1
      /\ \A k \in DOMAIN tree : tree[k] \in NodeType /\ tree[k].items \in Seq(Nat)
  BY TreeIsTyped DEF New
<1>2. i \in DOMAIN tree /\ p \in DOMAIN tree /\ p \in Nat /\ i \in Nat /\ p # i /\ tree \in Seq(NodeType)
  BY <1>1 DEF NodesTyped
<1>3. tree' = Append(changed, last)
  BY <1>1, <1>2 DEF Push, Renamed, WithItems, WithParent
<1> HIDE DEF p
<1>4. items \in Seq(Nat)
  BY <1>1, <1>2, RenamedIsTyped
<1>5. last \in NodeType
  <2>1. <<i>> \in Seq(Nat)
    BY <1>2
  <2> QED BY <2>1, <1>2, NodeIsTyped
<1> HIDE DEF items
<1>6. /\ one \in Seq(NodeType) /\ Len(one) = Len(tree) /\ DOMAIN one = DOMAIN tree
      /\ \A k \in DOMAIN tree : one[k] = IF k = p THEN WithItems(tree[p], items) ELSE tree[k]
  <2>1. WithItems(tree[p], items) \in NodeType
    BY <1>1, <1>2, <1>4, ItemsChange
  <2> QED BY <1>1, <1>2, <2>1, ExceptSeq
<1> HIDE DEF one
<1>7. one[i] = tree[i] /\ one[i] \in NodeType
  BY <1>1, <1>2, <1>6
<1>8. /\ changed \in Seq(NodeType) /\ Len(changed) = Len(tree) /\ DOMAIN changed = DOMAIN tree
      /\ \A k \in DOMAIN tree : changed[k] = IF k = i THEN WithParent(tree[i], New) ELSE one[k]
  <2>1. WithParent(one[i], New) \in NodeType
    BY <1>1, <1>7, ParentChange
  <2>2. i \in 1 .. Len(one) /\ DOMAIN one = 1 .. Len(one)
    BY <1>1, <1>2, <1>6
  <2> QED BY <1>6, <1>7, <2>1, <2>2, ExceptSeq
<1> HIDE DEF changed, last
<1>9. /\ tree' \in Seq(NodeType) /\ Len(tree') = New /\ tree'[New] = last
      /\ \A k \in DOMAIN tree : tree'[k] = changed[k]
  <2>1. /\ Append(changed, last) \in Seq(NodeType) /\ Len(Append(changed, last)) = Len(changed) + 1
        /\ Append(changed, last)[Len(changed) + 1] = last
        /\ \A k \in 1 .. Len(changed) : Append(changed, last)[k] = changed[k]
    BY <1>5, <1>8, AppendProperties
  <2>2. Len(changed) + 1 = New /\ DOMAIN tree = 1 .. Len(changed)
    BY <1>1, <1>8
  <2> QED BY <1>3, <2>1, <2>2
<1>10. ASSUME NEW k \in DOMAIN tree
       PROVE  /\ tree'[k].tok = tree[k].tok /\ tree'[k].parent = IF k = i THEN New ELSE tree[k].parent
              /\ tree'[k].items = IF k = p THEN Renamed(tree[k].items, i) ELSE tree[k].items
  <2>1. tree'[k] = IF k = i THEN WithParent(tree[i], New) ELSE one[k]
    BY <1>8, <1>9
  <2>2. one[k] = IF k = p THEN WithItems(tree[p], items) ELSE tree[k]
    BY <1>6
  <2>3. tree[i] \in NodeType /\ tree[p] \in NodeType /\ New \in Nat
    BY <1>1, <1>2
  <2>4. CASE k = i
    <3>1. tree'[k] = WithParent(tree[i], New)
      BY <2>1, <2>4
    <3>2. /\ WithParent(tree[i], New).tok = tree[i].tok /\ WithParent(tree[i], New).parent = New
          /\ WithParent(tree[i], New).items = tree[i].items
      BY <2>3, ParentChange
    <3> QED BY <3>1, <3>2, <2>4, <1>2
  <2>5. CASE k = p
    <3>1. tree'[k] = WithItems(tree[p], items)
      BY <2>1, <2>2, <2>5, <1>2
    <3>2. items = Renamed(tree[k].items, i)
      BY <2>5 DEF items
    <3>3. /\ WithItems(tree[p], items).tok = tree[p].tok /\ WithItems(tree[p], items).parent = tree[p].parent
          /\ WithItems(tree[p], items).items = items
      BY <2>3, <1>4, ItemsChange
    <3> QED BY <3>1, <3>2, <3>3, <2>5, <1>2
  <2>6. CASE k # i /\ k # p
    BY <2>1, <2>2, <2>6
  <2> QED BY <2>4, <2>5, <2>6
<1>11. DOMAIN tree' = 1 .. New
  BY <1>1, <1>9
<1> QED BY <1>9, <1>10, <1>11 DEF p, last

\* The items after Add and Push: those from before, the new node, and for Push the old one below it.
LEMMA AddItems ==
  ASSUME NodesTyped, NEW i \in DOMAIN tree, NEW tok \in Tokens, tree' = Add(i, tok)
  PROVE  /\ \A k \in DOMAIN tree' : \A j \in DOMAIN tree'[k].items :
              \/ k \in DOMAIN tree /\ j \in DOMAIN tree[k].items /\ tree'[k].items[j] = tree[k].items[j]
              \/ k = i /\ j = Len(tree[i].items) + 1 /\ tree'[k].items[j] = New
         /\ \A k \in DOMAIN tree : \A j \in DOMAIN tree[k].items :
              j \in DOMAIN tree'[k].items /\ tree'[k].items[j] = tree[k].items[j]
         /\ Len(tree[i].items) + 1 \in DOMAIN tree'[i].items /\ tree'[i].items[Len(tree[i].items) + 1] = New
<1>1. /\ DOMAIN tree' = 1 .. New /\ tree'[New].items = <<>>
      /\ \A k \in DOMAIN tree : tree'[k].items = IF k = i THEN Append(tree[k].items, New) ELSE tree[k].items
  <2>1. tree'[New] = [tok |-> tok, parent |-> i, items |-> <<>>]
    BY AddPoints
  <2>2. DOMAIN tree' = 1 .. New
    BY AddPoints
  <2>3. \A k \in DOMAIN tree : tree'[k].items = IF k = i THEN Append(tree[k].items, New) ELSE tree[k].items
    BY AddPoints
  <2> QED BY <2>1, <2>2, <2>3
<1>2. Len(tree) \in Nat /\ DOMAIN tree = 1 .. Len(tree) /\ New \in Nat /\ New = Len(tree) + 1
      /\ \A k \in DOMAIN tree : tree[k].items \in Seq(Nat) /\ DOMAIN tree[k].items = 1 .. Len(tree[k].items)
                                /\ Len(tree[k].items) \in Nat
  BY TreeIsTyped DEF New
<1> DEFINE old == tree[i].items
           n == Len(old)
<1>3. /\ DOMAIN Append(old, New) = 1 .. n + 1 /\ n \in Nat /\ DOMAIN old = 1 .. n
      /\ Append(old, New)[n + 1] = New /\ \A j \in 1 .. n : Append(old, New)[j] = old[j]
  <2>1. old \in Seq(Nat) /\ n \in Nat /\ DOMAIN old = 1 .. n
    BY <1>2
  <2> HIDE DEF old
  <2> QED BY <2>1, <1>2, AppendProperties
<1>4. tree'[i].items = Append(old, New)
  BY <1>1
<1>5. ASSUME NEW k \in DOMAIN tree', NEW j \in DOMAIN tree'[k].items
      PROVE  \/ k \in DOMAIN tree /\ j \in DOMAIN tree[k].items /\ tree'[k].items[j] = tree[k].items[j]
             \/ k = i /\ j = n + 1 /\ tree'[k].items[j] = New
  <2>1. CASE k = New
    BY <1>1, <2>1, <1>5
  <2>2. CASE k \in DOMAIN tree /\ k # i
    BY <1>1, <2>2
  <2>3. CASE k = i
    <3>1. j \in 1 .. n + 1
      BY <1>3, <1>4, <2>3
    <3> HIDE DEF old, n
    <3>2. j \in 1 .. n \/ j = n + 1
      BY <3>1, <1>3
    <3> QED BY <3>2, <1>3, <1>4, <2>3 DEF old
  <2> QED BY <1>1, <1>2, <2>1, <2>2, <2>3
<1>6. ASSUME NEW k \in DOMAIN tree, NEW j \in DOMAIN tree[k].items
      PROVE  j \in DOMAIN tree'[k].items /\ tree'[k].items[j] = tree[k].items[j]
  <2>1. CASE k # i
    BY <1>1, <2>1
  <2>2. CASE k = i
    <3>1. j \in 1 .. n
      BY <2>2, <1>3
    <3> HIDE DEF n
    <3>2. j \in 1 .. n + 1
      BY <3>1, <1>3
    <3> QED BY <3>1, <3>2, <2>2, <1>3, <1>4
  <2> QED BY <2>1, <2>2
<1>7. n + 1 \in DOMAIN tree'[i].items /\ tree'[i].items[n + 1] = New
  <2> HIDE DEF n, old
  <2> QED BY <1>3, <1>4
<1> QED BY <1>5, <1>6, <1>7

LEMMA PushItems ==
  ASSUME NodesTyped, NEW i \in 2 .. Len(tree), tree[i].parent # i,
         NEW tok \in Tokens, tree' = Push(i, tok)
  PROVE  /\ \A k \in DOMAIN tree' : \A j \in DOMAIN tree'[k].items :
              \/ /\ k \in DOMAIN tree /\ j \in DOMAIN tree[k].items /\ tree'[k].items[j] = tree[k].items[j]
                 /\ tree[k].items[j] # i \/ k # tree[i].parent
              \/ /\ k = tree[i].parent /\ j \in DOMAIN tree[k].items
                 /\ tree[k].items[j] = i /\ tree'[k].items[j] = New
              \/ k = New /\ j = 1 /\ tree'[k].items[j] = i
         /\ \A k \in DOMAIN tree :
              /\ DOMAIN tree'[k].items = DOMAIN tree[k].items
              /\ \A j \in DOMAIN tree[k].items :
                   tree'[k].items[j] = IF k = tree[i].parent /\ tree[k].items[j] = i THEN New ELSE tree[k].items[j]
         /\ DOMAIN tree'[New].items = {1} /\ tree'[New].items[1] = i
<1> DEFINE p == tree[i].parent
<1>1. /\ DOMAIN tree' = 1 .. New /\ tree'[New].items = <<i>>
      /\ \A k \in DOMAIN tree : tree'[k].items = IF k = p THEN Renamed(tree[k].items, i) ELSE tree[k].items
  <2>1. tree'[New] = [tok |-> tok, parent |-> p, items |-> <<i>>]
    BY PushPoints
  <2>2. DOMAIN tree' = 1 .. New
    BY PushPoints
  <2>3. \A k \in DOMAIN tree :
          /\ tree'[k].tok = tree[k].tok /\ tree'[k].parent = IF k = i THEN New ELSE tree[k].parent
          /\ tree'[k].items = IF k = tree[i].parent THEN Renamed(tree[k].items, i) ELSE tree[k].items
    BY PushPoints
  <2> QED BY <2>1, <2>2, <2>3
<1>2. Len(tree) \in Nat /\ DOMAIN tree = 1 .. Len(tree) /\ New \in Nat /\ New = Len(tree) + 1
  BY TreeIsTyped DEF New
<1>3. DOMAIN tree'[New].items = {1} /\ tree'[New].items[1] = i
  BY <1>1
<1>4. ASSUME NEW k \in DOMAIN tree
      PROVE  /\ DOMAIN tree'[k].items = DOMAIN tree[k].items
             /\ \A j \in DOMAIN tree[k].items :
                  tree'[k].items[j] = IF k = p /\ tree[k].items[j] = i THEN New ELSE tree[k].items[j]
  <2>1. tree'[k].items = IF k = p THEN Renamed(tree[k].items, i) ELSE tree[k].items
    BY <1>1
  <2> HIDE DEF p
  <2>2. CASE k = p
    BY <2>1, <2>2 DEF Renamed
  <2>3. CASE k # p
    BY <2>1, <2>3
  <2> QED BY <2>2, <2>3
<1>5. ASSUME NEW k \in DOMAIN tree', NEW j \in DOMAIN tree'[k].items
      PROVE  \/ /\ k \in DOMAIN tree /\ j \in DOMAIN tree[k].items /\ tree'[k].items[j] = tree[k].items[j]
                /\ tree[k].items[j] # i \/ k # p
             \/ /\ k = p /\ j \in DOMAIN tree[k].items
                /\ tree[k].items[j] = i /\ tree'[k].items[j] = New
             \/ k = New /\ j = 1 /\ tree'[k].items[j] = i
  <2>1. CASE k = New
    BY <1>3, <2>1, <1>5
  <2>2. CASE k \in DOMAIN tree
    <3> HIDE DEF p
    <3> QED BY <1>4, <2>2, <1>5
  <2> QED BY <1>1, <1>2, <2>1, <2>2
<1> QED BY <1>3, <1>4, <1>5

\* The order of the nodes is one of parents and children, too.
LEMMA ParentIsAbove ==
  ASSUME NodesTyped, Linked, NEW h, Numbers(h), NEW i \in 2 .. Len(tree)
  PROVE  /\ tree[i].parent \in DOMAIN tree /\ h[i] < h[tree[i].parent] /\ tree[i].parent # i
         /\ h[i] \in 1 .. Len(tree) /\ h[tree[i].parent] \in 1 .. Len(tree) /\ Len(tree) \in Nat
<1>1. Len(tree) \in Nat /\ DOMAIN tree = 1 .. Len(tree)
  BY TreeIsTyped
<1>2. tree[i].parent \in DOMAIN tree /\ i \in DOMAIN tree
  BY <1>1 DEF NodesTyped
<1>3. h[i] \in 1 .. Len(tree) /\ h[tree[i].parent] \in 1 .. Len(tree)
  BY <1>2 DEF Numbers
<1>4. PICK j \in DOMAIN tree[tree[i].parent].items : tree[tree[i].parent].items[j] = i
  BY DEF Linked
<1>5. h[i] < h[tree[i].parent]
  BY <1>2, <1>4 DEF Numbers
<1> QED BY <1>1, <1>2, <1>3, <1>5

\* Add and Push keep the invariant: the types, ...
LEMMA AddKeepsNodes ==
  ASSUME NodesTyped, NEW i \in DOMAIN tree, NEW tok \in Tokens,
         read' = Append(read, tok), tree' = Add(i, tok)
  PROVE  NodesTyped'
<1>1. Len(tree) \in Nat /\ DOMAIN tree = 1 .. Len(tree) /\ New \in Nat /\ New = Len(tree) + 1 /\ 1 \in DOMAIN tree
  BY TreeIsTyped DEF New
<1>2. /\ tree' \in Seq(NodeType) /\ Len(tree') = New /\ DOMAIN tree' = 1 .. New
      /\ \A k \in DOMAIN tree : tree'[k].tok = tree[k].tok /\ tree'[k].parent = tree[k].parent
  BY AddPoints
<1>3. tree'[New].tok = tok /\ tree'[New].parent = i
  <2>1. tree'[New] = [tok |-> tok, parent |-> i, items |-> <<>>]
    BY AddPoints
  <2> QED BY <2>1
<1>4. /\ read' \in Seq(Tokens) /\ Len(read) + 1 \in DOMAIN read' /\ read'[Len(read) + 1] = tok
      /\ \A n \in DOMAIN read : n \in DOMAIN read' /\ read'[n] = read[n]
  BY AppendProperties DEF NodesTyped
<1>5. tree'[1].tok.t = "empty"
  BY <1>1, <1>2 DEF NodesTyped
<1>6. ASSUME NEW k \in DOMAIN tree', NEW j \in DOMAIN tree'[k].items
      PROVE  tree'[k].items[j] \in 2 .. New
  <2>1. CASE k \in DOMAIN tree /\ j \in DOMAIN tree[k].items /\ tree'[k].items[j] = tree[k].items[j]
    <3>1. tree[k].items[j] \in 2 .. Len(tree)
      BY <2>1 DEF NodesTyped
    <3> QED BY <3>1, <2>1, <1>1
  <2>2. CASE tree'[k].items[j] = New
    BY <2>2, <1>1
  <2> QED BY <2>1, <2>2, <1>6, AddItems
<1>7. ASSUME NEW k \in 2 .. New
      PROVE  tree'[k].parent \in DOMAIN tree' /\ \E n \in DOMAIN read' : tree'[k].tok = read'[n]
  <2>1. CASE k = New
    BY <2>1, <1>1, <1>2, <1>3, <1>4
  <2>2. CASE k \in 2 .. Len(tree)
    <3>1. k \in DOMAIN tree /\ tree[k].parent \in DOMAIN tree /\ \E n \in DOMAIN read : tree[k].tok = read[n]
      BY <2>2, <1>1 DEF NodesTyped
    <3>2. tree'[k].tok = tree[k].tok /\ tree'[k].parent = tree[k].parent
      BY <3>1, <1>2
    <3>3. tree'[k].parent \in DOMAIN tree'
      BY <3>1, <3>2, <1>1, <1>2
    <3>4. PICK n \in DOMAIN read : tree[k].tok = read[n]
      BY <3>1
    <3>5. n \in DOMAIN read' /\ tree'[k].tok = read'[n]
      BY <3>2, <3>4, <1>4
    <3> QED BY <3>3, <3>5
  <2> QED BY <2>1, <2>2, <1>1
<1>8. Len(tree') >= 1
  BY <1>1, <1>2
<1>9. \A k \in DOMAIN tree' : \A j \in DOMAIN tree'[k].items : tree'[k].items[j] \in 2 .. Len(tree')
  BY <1>2, <1>6
<1>10. \A k \in 2 .. Len(tree') : tree'[k].parent \in DOMAIN tree' /\ \E n \in DOMAIN read' : tree'[k].tok = read'[n]
  BY <1>2, <1>7
<1> QED BY <1>2, <1>4, <1>5, <1>8, <1>9, <1>10 DEF NodesTyped

LEMMA PushKeepsNodes ==
  ASSUME NodesTyped, NEW i \in 2 .. Len(tree), tree[i].parent # i, NEW tok \in Tokens,
         read' = Append(read, tok), tree' = Push(i, tok)
  PROVE  NodesTyped'
<1>1. Len(tree) \in Nat /\ DOMAIN tree = 1 .. Len(tree) /\ New \in Nat /\ New = Len(tree) + 1 /\ 1 \in DOMAIN tree
  BY TreeIsTyped DEF New
<1>2. /\ tree' \in Seq(NodeType) /\ Len(tree') = New /\ DOMAIN tree' = 1 .. New
      /\ \A k \in DOMAIN tree : tree'[k].tok = tree[k].tok
                                /\ tree'[k].parent = IF k = i THEN New ELSE tree[k].parent
  BY PushPoints
<1>3. tree'[New].tok = tok /\ tree'[New].parent = tree[i].parent
  <2>1. tree'[New] = [tok |-> tok, parent |-> tree[i].parent, items |-> <<i>>]
    BY PushPoints
  <2> QED BY <2>1
<1>4. /\ read' \in Seq(Tokens) /\ Len(read) + 1 \in DOMAIN read' /\ read'[Len(read) + 1] = tok
      /\ \A n \in DOMAIN read : n \in DOMAIN read' /\ read'[n] = read[n]
  BY AppendProperties DEF NodesTyped
<1>5. tree'[1].tok.t = "empty"
  BY <1>1, <1>2 DEF NodesTyped
<1>6. ASSUME NEW k \in DOMAIN tree', NEW j \in DOMAIN tree'[k].items
      PROVE  tree'[k].items[j] \in 2 .. New
  <2>1. CASE k \in DOMAIN tree /\ j \in DOMAIN tree[k].items /\ tree'[k].items[j] = tree[k].items[j]
    <3>1. tree[k].items[j] \in 2 .. Len(tree)
      BY <2>1 DEF NodesTyped
    <3> QED BY <3>1, <2>1, <1>1
  <2>2. CASE tree'[k].items[j] = New \/ tree'[k].items[j] = i
    BY <2>2, <1>1
  <2> QED BY <2>1, <2>2, <1>6, PushItems
<1>7. ASSUME NEW k \in 2 .. New
      PROVE  tree'[k].parent \in DOMAIN tree' /\ \E n \in DOMAIN read' : tree'[k].tok = read'[n]
  <2>1. CASE k = New
    <3>1. tree[i].parent \in DOMAIN tree
      BY DEF NodesTyped
    <3> QED BY <3>1, <2>1, <1>1, <1>2, <1>3, <1>4
  <2>2. CASE k \in 2 .. Len(tree)
    <3>1. k \in DOMAIN tree /\ tree[k].parent \in DOMAIN tree /\ \E n \in DOMAIN read : tree[k].tok = read[n]
      BY <2>2, <1>1 DEF NodesTyped
    <3>2. tree'[k].parent \in DOMAIN tree \/ tree'[k].parent = New
      BY <3>1, <1>2
    <3> QED BY <3>1, <3>2, <1>1, <1>2, <1>4
  <2> QED BY <2>1, <2>2, <1>1
<1> QED BY <1>1, <1>2, <1>4, <1>5, <1>6, <1>7 DEF NodesTyped

\* ... the links, ...
LEMMA AddKeepsLinks ==
  ASSUME NodesTyped, Linked, NEW i \in DOMAIN tree, NEW tok \in Tokens, tree' = Add(i, tok)
  PROVE  Linked'
<1>1. Len(tree) \in Nat /\ DOMAIN tree = 1 .. Len(tree) /\ New \in Nat /\ New = Len(tree) + 1
  BY TreeIsTyped DEF New
<1>2. /\ Len(tree') = New /\ DOMAIN tree' = 1 .. New
      /\ \A k \in DOMAIN tree : tree'[k].parent = tree[k].parent
  BY AddPoints
<1>3. tree'[New].parent = i
  <2>1. tree'[New] = [tok |-> tok, parent |-> i, items |-> <<>>]
    BY AddPoints
  <2> QED BY <2>1
<1>4. ASSUME NEW k \in DOMAIN tree', NEW j \in DOMAIN tree'[k].items
      PROVE  tree'[tree'[k].items[j]].parent = k
  <2>1. CASE k \in DOMAIN tree /\ j \in DOMAIN tree[k].items /\ tree'[k].items[j] = tree[k].items[j]
    <3>1. tree[k].items[j] \in DOMAIN tree /\ tree[tree[k].items[j]].parent = k
      BY <2>1, <1>1 DEF NodesTyped, Linked
    <3> QED BY <3>1, <2>1, <1>2
  <2>2. CASE k = i /\ tree'[k].items[j] = New
    BY <2>2, <1>3
  <2> QED BY <2>1, <2>2, <1>4, AddItems
<1>5. ASSUME NEW x \in 2 .. New
      PROVE  \E j \in DOMAIN tree'[tree'[x].parent].items :
               \A k \in DOMAIN tree'[tree'[x].parent].items : tree'[tree'[x].parent].items[k] = x <=> k = j
  <2>1. CASE x = New
    <3>1. Len(tree[i].items) + 1 \in DOMAIN tree'[i].items /\ tree'[i].items[Len(tree[i].items) + 1] = New
      BY AddItems
    <3>2. \A k \in DOMAIN tree'[i].items : tree'[i].items[k] = New => k = Len(tree[i].items) + 1
      <4> SUFFICES ASSUME NEW k \in DOMAIN tree'[i].items, tree'[i].items[k] = New, k # Len(tree[i].items) + 1 PROVE FALSE
        OBVIOUS
      <4>1. i \in DOMAIN tree'
        BY <1>1, <1>2
      <4>2. k \in DOMAIN tree[i].items /\ tree'[i].items[k] = tree[i].items[k]
        BY <4>1, AddItems
      <4>3. tree[i].items[k] \in 2 .. Len(tree)
        BY <4>2 DEF NodesTyped
      <4>4. tree[i].items[k] = New
        BY <4>2
      <4>5. New \in 2 .. Len(tree)
        BY <4>3, <4>4
      <4> QED BY <4>5, <1>1
    <3> QED BY <3>1, <3>2, <2>1, <1>3
  <2>2. CASE x \in 2 .. Len(tree)
    <3> DEFINE p == tree[x].parent
    <3>0. x \in DOMAIN tree
      BY <2>2, <1>1
    <3>1. p \in DOMAIN tree /\ tree'[x].parent = p
      BY <2>2, <3>0, <1>2 DEF NodesTyped
    <3>2. PICK j \in DOMAIN tree[p].items : \A k \in DOMAIN tree[p].items : tree[p].items[k] = x <=> k = j
      BY <2>2 DEF Linked
    <3>3. p \in DOMAIN tree'
      BY <3>1, <1>1, <1>2
    <3> HIDE DEF p
    <3>4. j \in DOMAIN tree'[p].items /\ tree'[p].items[j] = x
      BY <3>1, <3>2, AddItems
    <3>5. ASSUME NEW k \in DOMAIN tree'[p].items, tree'[p].items[k] = x PROVE k = j
      <4>1. tree'[p].items[k] # New
        BY <3>5, <2>2, <1>1
      <4>2. k \in DOMAIN tree[p].items /\ tree'[p].items[k] = tree[p].items[k]
        BY <3>3, <4>1, AddItems
      <4> QED BY <4>2, <3>2, <3>5
    <3> QED BY <3>1, <3>4, <3>5
  <2> QED BY <2>1, <2>2, <1>1
<1> QED BY <1>2, <1>4, <1>5 DEF Linked

LEMMA PushKeepsLinks ==
  ASSUME NodesTyped, Linked, NEW i \in 2 .. Len(tree), tree[i].parent # i,
         NEW tok \in Tokens, tree' = Push(i, tok)
  PROVE  Linked'
<1>1. Len(tree) \in Nat /\ DOMAIN tree = 1 .. Len(tree) /\ New \in Nat /\ New = Len(tree) + 1
  BY TreeIsTyped DEF New
<1>2. /\ Len(tree') = New /\ DOMAIN tree' = 1 .. New
      /\ \A k \in DOMAIN tree : tree'[k].parent = IF k = i THEN New ELSE tree[k].parent
  BY PushPoints
<1>3. tree'[New].parent = tree[i].parent
  <2>1. tree'[New] = [tok |-> tok, parent |-> tree[i].parent, items |-> <<i>>]
    BY PushPoints
  <2> QED BY <2>1
<1>4. ASSUME NEW k \in DOMAIN tree', NEW j \in DOMAIN tree'[k].items
      PROVE  tree'[tree'[k].items[j]].parent = k
  <2>1. CASE /\ k \in DOMAIN tree /\ j \in DOMAIN tree[k].items /\ tree'[k].items[j] = tree[k].items[j]
             /\ tree[k].items[j] # i \/ k # tree[i].parent
    <3>1. tree[k].items[j] \in DOMAIN tree /\ tree[tree[k].items[j]].parent = k
      BY <2>1, <1>1 DEF NodesTyped, Linked
    <3>2. tree[k].items[j] # i
      BY <3>1, <2>1
    <3> QED BY <3>1, <3>2, <2>1, <1>2
  <2>2. CASE k = tree[i].parent /\ tree'[k].items[j] = New
    BY <2>2, <1>3
  <2>3. CASE k = New /\ tree'[k].items[j] = i
    BY <2>3, <1>1, <1>2
  <2> QED BY <2>1, <2>2, <2>3, <1>4, PushItems
<1>5. ASSUME NEW x \in 2 .. New
      PROVE  \E j \in DOMAIN tree'[tree'[x].parent].items :
               \A k \in DOMAIN tree'[tree'[x].parent].items : tree'[tree'[x].parent].items[k] = x <=> k = j
  <2>1. CASE x = i
    <3>1. tree'[x].parent = New
      BY <2>1, <1>1, <1>2
    <3>2. DOMAIN tree'[New].items = {1} /\ tree'[New].items[1] = i
      BY PushItems
    <3> QED BY <3>1, <3>2, <2>1
  <2>2. CASE x = New \/ (x \in 2 .. Len(tree) /\ x # i)
    <3> DEFINE y == IF x = New THEN i ELSE x
               p == tree[y].parent
    <3>1. y \in 2 .. Len(tree) /\ y \in DOMAIN tree
      BY <2>2, <1>1
    <3>2. p \in DOMAIN tree
      BY <3>1 DEF NodesTyped
    <3>3. PICK j \in DOMAIN tree[p].items : \A k \in DOMAIN tree[p].items : tree[p].items[k] = y <=> k = j
      <4>1. \E j \in DOMAIN tree[tree[y].parent].items :
              \A k \in DOMAIN tree[tree[y].parent].items : tree[tree[y].parent].items[k] = y <=> k = j
        <5> HIDE DEF y
        <5> QED BY <3>1 DEF Linked
      <4> QED BY <4>1 DEF p
    <3>4. tree'[x].parent = p
      BY <2>2, <1>1, <1>2, <1>3
    <3>5. ASSUME NEW k \in DOMAIN tree[p].items PROVE tree'[p].items[k] = x <=> tree[p].items[k] = y
      <4>1. tree[p].items[k] \in 2 .. Len(tree)
        BY <3>2 DEF NodesTyped
      <4>2. tree'[p].items[k] = IF p = tree[i].parent /\ tree[p].items[k] = i THEN New ELSE tree[p].items[k]
        BY <3>2, PushItems
      <4>3. CASE x = New
        BY <4>1, <4>2, <4>3, <1>1
      <4>4. CASE x # New
        <5>1. y = x /\ x # i
          BY <4>4, <2>2
        <5> HIDE DEF p, y
        <5> QED BY <4>1, <4>2, <4>4, <5>1, <1>1
      <4> QED BY <4>3, <4>4
    <3>6. DOMAIN tree'[p].items = DOMAIN tree[p].items
      BY <3>2, PushItems
    <3> HIDE DEF p, y
    <3> QED BY <3>3, <3>4, <3>5, <3>6
  <2> QED BY <2>1, <2>2, <1>1
<1> QED BY <1>2, <1>4, <1>5 DEF Linked

\* ... and the numbering, in which the new node gets a number of its own.
LEMMA AddKeepsOrder ==
  ASSUME NodesTyped, NEW h, Numbers(h), NEW i \in DOMAIN tree, NEW tok \in Tokens, tree' = Add(i, tok)
  PROVE  \E g : Numbers(g)'
<1> DEFINE g == [x \in DOMAIN tree' |-> IF x = New THEN 1 ELSE h[x] + 1]
<1>1. Len(tree) \in Nat /\ DOMAIN tree = 1 .. Len(tree) /\ New \in Nat /\ New = Len(tree) + 1
  BY TreeIsTyped DEF New
<1>2. Len(tree') = New /\ DOMAIN tree' = 1 .. New
  BY AddPoints
<1>3. \A x \in DOMAIN tree : h[x] \in 1 .. Len(tree)
  BY DEF Numbers
<1>4. \A x \in DOMAIN tree : x \in DOMAIN tree' /\ g[x] = h[x] + 1 /\ g[x] \in 1 .. New
  BY <1>1, <1>2, <1>3
<1>5. g[New] = 1 /\ New \in DOMAIN tree' /\ 1 \in 1 .. New
  BY <1>1, <1>2
<1>6. g \in [DOMAIN tree' -> 1 .. New]
  <2>1. \A x \in DOMAIN tree' : x = New \/ x \in DOMAIN tree
    BY <1>1, <1>2
  <2>2. \A x \in DOMAIN tree' : g[x] \in 1 .. New
    <3> HIDE DEF g
    <3> QED BY <1>4, <1>5, <2>1
  <2> QED BY <2>2
<1> HIDE DEF g
<1>7. ASSUME NEW k \in DOMAIN tree', NEW j \in DOMAIN tree'[k].items
      PROVE  g[tree'[k].items[j]] < g[k]
  <2>1. CASE k \in DOMAIN tree /\ j \in DOMAIN tree[k].items /\ tree'[k].items[j] = tree[k].items[j]
    <3>1. tree[k].items[j] \in DOMAIN tree /\ h[tree[k].items[j]] < h[k]
      BY <2>1, <1>1 DEF NodesTyped, Numbers
    <3>2. g[tree[k].items[j]] = h[tree[k].items[j]] + 1 /\ g[k] = h[k] + 1
          /\ h[tree[k].items[j]] \in 1 .. Len(tree) /\ h[k] \in 1 .. Len(tree)
      BY <3>1, <2>1, <1>3, <1>4
    <3>3. h[tree[k].items[j]] + 1 < h[k] + 1
      BY <3>1, <3>2, <1>1, SMTT(30)
    <3> QED BY <3>2, <3>3, <2>1
  <2>2. CASE k = i /\ tree'[k].items[j] = New
    <3>1. g[i] = h[i] + 1 /\ h[i] \in 1 .. Len(tree)
      BY <1>3, <1>4
    <3>2. 1 < h[i] + 1
      BY <3>1, <1>1
    <3> QED BY <3>1, <3>2, <2>2, <1>5
  <2> QED BY <2>1, <2>2, <1>7, AddItems
<1>8. PICK f : f = g
  OBVIOUS
<1>9. /\ f \in [DOMAIN tree' -> 1 .. Len(tree')]
      /\ \A k \in DOMAIN tree' : \A j \in DOMAIN tree'[k].items : f[tree'[k].items[j]] < f[k]
  BY <1>2, <1>6, <1>7, <1>8
<1>10. Numbers(f)'
  BY <1>9 DEF Numbers
<1> QED BY <1>10

LEMMA PushKeepsOrder ==
  ASSUME NodesTyped, Linked, NEW h, Numbers(h), NEW i \in 2 .. Len(tree),
         NEW tok \in Tokens, tree' = Push(i, tok)
  PROVE  \E g : Numbers(g)'
<1> DEFINE g == [x \in DOMAIN tree' |-> IF x = New THEN h[i] + 1 ELSE IF h[x] <= h[i] THEN h[x] ELSE h[x] + 1]
           p == tree[i].parent
<1>0. p # i /\ p \in DOMAIN tree /\ h[i] < h[p]
  BY ParentIsAbove
<1>1. Len(tree) \in Nat /\ DOMAIN tree = 1 .. Len(tree) /\ New \in Nat /\ New = Len(tree) + 1 /\ i \in DOMAIN tree
  BY TreeIsTyped DEF New
<1>2. Len(tree') = New /\ DOMAIN tree' = 1 .. New
  BY <1>0, PushPoints
<1>3. \A x \in DOMAIN tree : h[x] \in 1 .. Len(tree)
  BY DEF Numbers
<1>4. \A x \in DOMAIN tree : /\ x \in DOMAIN tree' /\ g[x] \in 1 .. New
                             /\ g[x] = IF h[x] <= h[i] THEN h[x] ELSE h[x] + 1
  BY <1>1, <1>2, <1>3
<1>5. g[New] = h[i] + 1 /\ New \in DOMAIN tree' /\ h[i] + 1 \in 1 .. New
  BY <1>1, <1>2, <1>3
<1>6. g \in [DOMAIN tree' -> 1 .. New]
  <2>1. \A x \in DOMAIN tree' : x = New \/ x \in DOMAIN tree
    BY <1>1, <1>2
  <2>2. \A x \in DOMAIN tree' : g[x] \in 1 .. New
    <3> HIDE DEF g
    <3> QED BY <1>4, <1>5, <2>1
  <2> QED BY <2>2
<1> HIDE DEF g
<1>7. ASSUME NEW k \in DOMAIN tree', NEW j \in DOMAIN tree'[k].items
      PROVE  g[tree'[k].items[j]] < g[k]
  <2>1. CASE k \in DOMAIN tree /\ j \in DOMAIN tree[k].items /\ tree'[k].items[j] = tree[k].items[j]
    <3> DEFINE x == tree[k].items[j]
    <3>1. x \in DOMAIN tree /\ h[x] < h[k]
      BY <2>1, <1>1 DEF NodesTyped, Numbers
    <3>2. g[x] = (IF h[x] <= h[i] THEN h[x] ELSE h[x] + 1) /\ g[k] = (IF h[k] <= h[i] THEN h[k] ELSE h[k] + 1)
      BY <3>1, <2>1, <1>4
    <3>3. h[x] \in Nat /\ h[k] \in Nat /\ h[i] \in Nat
      BY <3>1, <2>1, <1>1, <1>3
    <3> HIDE DEF x
    <3>4. g[x] < g[k]
      BY <3>1, <3>2, <3>3
    <3> QED BY <3>4, <2>1 DEF x
  <2>2. CASE k = p /\ tree'[k].items[j] = New
    <3>1. g[p] = h[p] + 1
      <4>1. h[p] \in Nat /\ h[i] \in Nat /\ ~(h[p] <= h[i])
        BY <1>0, <1>1, <1>3
      <4> HIDE DEF p
      <4> QED BY <4>1, <1>0, <1>4
    <3>2. h[p] \in Nat /\ h[i] \in Nat
      BY <1>0, <1>1, <1>3
    <3> HIDE DEF p
    <3> QED BY <3>1, <3>2, <2>2, <1>0, <1>5
  <2>3. CASE k = New /\ tree'[k].items[j] = i
    <3>1. h[i] \in Nat /\ g[i] = h[i]
      BY <1>1, <1>3, <1>4
    <3>2. h[i] < h[i] + 1
      BY <3>1
    <3> QED BY <3>1, <3>2, <2>3, <1>5
  <2> QED BY <2>1, <2>2, <2>3, <1>0, <1>7, PushItems
<1>8. PICK f : f = g
  OBVIOUS
<1>9. /\ f \in [DOMAIN tree' -> 1 .. Len(tree')]
      /\ \A k \in DOMAIN tree' : \A j \in DOMAIN tree'[k].items : f[tree'[k].items[j]] < f[k]
  BY <1>2, <1>6, <1>7, <1>8
<1>10. Numbers(f)'
  BY <1>9 DEF Numbers
<1> QED BY <1>10

LEMMA AddKeepsTree ==
  ASSUME Tree, NEW i \in DOMAIN tree, NEW tok \in Tokens,
         read' = Append(read, tok), tree' = Add(i, tok)
  PROVE  Tree'
  BY AddKeepsNodes, AddKeepsLinks, AddKeepsOrder DEF Tree

LEMMA PushKeepsTree ==
  ASSUME Tree, NEW i \in 2 .. Len(tree), NEW tok \in Tokens,
         read' = Append(read, tok), tree' = Push(i, tok)
  PROVE  Tree'
<1>1. tree[i].parent # i
  BY ParentIsAbove DEF Tree
<1> QED BY <1>1, PushKeepsNodes, PushKeepsLinks, PushKeepsOrder DEF Tree

-----------------------------------------------------------------------------
(* Filters: the nodes above a node *)

\* f starts with a, and continues from the value before.
Follows(f, S, a, step, m, n) ==
  f \in [m .. n -> S] /\ \A j \in m .. n : f[j] = IF j = m THEN a ELSE step[j][f[j - 1]]

\* Such a function exists.
LEMMA Recursion ==
  ASSUME NEW S, NEW a \in S, NEW step \in [Nat -> [S -> S]], NEW m \in Nat, NEW n \in Nat, m <= n
  PROVE  \E f : Follows(f, S, a, step, m, n)
<1> DEFINE P(k) == \E f \in [m .. k -> S] : \A j \in m .. k : f[j] = IF j = m THEN a ELSE step[j][f[j - 1]]
           bad == {k \in Nat : m <= k /\ ~P(k)}
<1>0. P(n) => \E f : Follows(f, S, a, step, m, n)
  BY DEF Follows
<1>1. SUFFICES ASSUME bad # {} PROVE FALSE
  <2> HIDE DEF P
  <2> QED BY <1>0
<1>2. PICK k \in bad : \A l \in bad : k <= l
  <2>1. bad \in SUBSET Nat
    OBVIOUS
  <2> HIDE DEF bad
  <2> QED BY <1>1, <2>1, Least
<1>3. k \in Nat /\ m <= k /\ ~P(k)
  BY <1>2
<1>4. k # m
  <2>1. P(m)
    <3> DEFINE f == [j \in m .. m |-> a]
    <3>1. f \in [m .. m -> S] /\ \A j \in m .. m : j = m /\ f[j] = a
      OBVIOUS
    <3> HIDE DEF f
    <3> QED BY <3>1
  <2> HIDE DEF P
  <2> QED BY <2>1, <1>3
<1>5. k - 1 \in Nat /\ m <= k - 1 /\ k - 1 < k
  BY <1>3, <1>4
<1>6. P(k - 1)
  <2> HIDE DEF P
  <2>1. k - 1 \notin bad
    BY <1>2, <1>5
  <2> QED BY <2>1, <1>5
<1>7. PICK f \in [m .. k - 1 -> S] : \A j \in m .. k - 1 : f[j] = IF j = m THEN a ELSE step[j][f[j - 1]]
  BY <1>6
<1> DEFINE g == [j \in m .. k |-> IF j = k THEN step[k][f[k - 1]] ELSE f[j]]
<1>8. f[k - 1] \in S /\ step[k][f[k - 1]] \in S
  BY <1>3, <1>5
<1>9. g \in [m .. k -> S]
  <2>1. \A j \in m .. k : j = k \/ j \in m .. k - 1
    BY <1>3
  <2> QED BY <1>8, <2>1
<1>10. ASSUME NEW j \in m .. k PROVE g[j] = IF j = m THEN a ELSE step[j][g[j - 1]]
  <2>1. CASE j = k
    <3>1. k - 1 \in m .. k /\ k - 1 # k
      BY <1>3, <1>5
    <3>2. g[k] = step[k][f[k - 1]] /\ g[k - 1] = f[k - 1]
      BY <3>1, <2>1
    <3> HIDE DEF g
    <3> QED BY <3>2, <2>1, <1>4
  <2>2. CASE j # k
    <3>1. j \in m .. k - 1
      BY <2>2, <1>3
    <3>2. g[j] = f[j]
      BY <2>2
    <3>3. CASE j = m
      BY <3>1, <3>2, <3>3, <1>7
    <3>4. CASE j # m
      <4>1. j - 1 \in m .. k /\ j - 1 # k
        BY <3>1, <3>4, <1>3
      <4>2. g[j - 1] = f[j - 1]
        BY <4>1
      <4>3. f[j] = step[j][f[j - 1]]
        BY <1>7, <3>1, <3>4
      <4> HIDE DEF g
      <4> QED BY <4>2, <4>3, <3>2, <3>4
    <3> QED BY <3>3, <3>4
  <2> QED BY <2>1, <2>2
<1>11. P(k)
  <2> HIDE DEF g
  <2> QED BY <1>9, <1>10
<1> QED BY <1>3, <1>11

\* Climbing stays within the tree.
LEMMA AboveIsNode ==
  ASSUME NodesTyped, NEW k \in DOMAIN tree
  PROVE  Above(k) \in DOMAIN tree /\ (IsOperator(k) => k \in 2 .. Len(tree) /\ Above(k) = tree[k].parent)
<1>1. DOMAIN tree = 1 .. Len(tree) /\ Len(tree) \in Nat
  BY TreeIsTyped
<1>2. IsOperator(k) => k # 1
  BY DEF IsOperator, NodesTyped
<1>3. IsOperator(k) => k \in 2 .. Len(tree)
  BY <1>1, <1>2
<1> QED BY <1>3 DEF Above, NodesTyped

\* A chain of operators is climbed to its end: there is no more to climb than there are nodes.
LEMMA Climb ==
  ASSUME Tree, NEW i \in DOMAIN tree
  PROVE  \E up \in [0 .. Len(tree) -> DOMAIN tree] :
           /\ up[0] = i /\ \A j \in 1 .. Len(tree) : up[j] = Above(up[j - 1])
           /\ Ancestors(i) = {up[j] : j \in 0 .. Len(tree)}
<1> DEFINE N == Len(tree)
           F == CHOOSE up : up = [j \in 0 .. N |-> IF j = 0 THEN i ELSE Above(up[j - 1])]
<1>1. Ancestors(i) = {F[j] : j \in 0 .. N}
  BY DEF Ancestors
<1>2. N \in Nat
  BY TreeIsTyped DEF Tree
<1> DEFINE step == [j \in Nat |-> [k \in DOMAIN tree |-> Above(k)]]
<1>3. step \in [Nat -> [DOMAIN tree -> DOMAIN tree]]
      /\ \A j \in Nat : \A k \in DOMAIN tree : step[j][k] = Above(k)
  <2>1. \A k \in DOMAIN tree : Above(k) \in DOMAIN tree
    BY AboveIsNode DEF Tree
  <2> QED BY <2>1
<1>4. \E f : Follows(f, DOMAIN tree, i, step, 0, N)
  <2> HIDE DEF step, N
  <2> QED BY <1>2, <1>3, Recursion
<1>5. PICK f \in [0 .. N -> DOMAIN tree] : \A j \in 0 .. N : f[j] = IF j = 0 THEN i ELSE step[j][f[j - 1]]
  BY <1>4 DEF Follows
<1>6. ASSUME NEW j \in 0 .. N PROVE f[j] = IF j = 0 THEN i ELSE Above(f[j - 1])
  <2>1. CASE j = 0
    BY <1>5, <2>1
  <2>2. CASE j # 0
    <3>1. j - 1 \in 0 .. N /\ j \in Nat
      BY <2>2, <1>2
    <3>2. f[j - 1] \in DOMAIN tree
      BY <3>1
    <3>3. f[j] = step[j][f[j - 1]]
      BY <2>2, <1>5
    <3>4. step[j][f[j - 1]] = Above(f[j - 1])
      <4> HIDE DEF step
      <4> QED BY <1>3, <3>1, <3>2
    <3> HIDE DEF step
    <3> QED BY <2>2, <3>3, <3>4
  <2> QED BY <2>1, <2>2
<1>7. f = [j \in 0 .. N |-> IF j = 0 THEN i ELSE Above(f[j - 1])]
  BY <1>6
<1>8. F = [j \in 0 .. N |-> IF j = 0 THEN i ELSE Above(F[j - 1])]
  <2> HIDE DEF N
  <2> QED BY <1>7
<1>9. ASSUME NEW j \in 0 .. N PROVE F[j] \in DOMAIN tree /\ (j # 0 => F[j] = Above(F[j - 1]))
  <2> HIDE DEF F
  <2> DEFINE bad == {l \in Nat : l <= N /\ F[l] \notin DOMAIN tree}
  <2>1. bad = {}
    <3> SUFFICES ASSUME bad # {} PROVE FALSE
      OBVIOUS
    <3>1. PICK l \in bad : \A k \in bad : l <= k
      <4>1. bad \in SUBSET Nat
        OBVIOUS
      <4> HIDE DEF bad
      <4> QED BY <4>1, Least
    <3>2. l \in Nat /\ l <= N /\ F[l] \notin DOMAIN tree
      BY <3>1
    <3>3. l # 0
      BY <1>8, <1>2, <3>2
    <3>4. l - 1 \in Nat /\ l - 1 <= N /\ l - 1 < l /\ l \in 0 .. N
      BY <3>2, <3>3, <1>2
    <3>5. F[l - 1] \in DOMAIN tree
      <4> HIDE DEF bad
      <4>1. l - 1 \notin bad
        BY <3>1, <3>4, <3>2
      <4> QED BY <4>1, <3>4 DEF bad
    <3>6. F[l] = Above(F[l - 1])
      <4> HIDE DEF N
      <4> QED BY <1>8, <3>3, <3>4
    <3> QED BY <3>2, <3>5, <3>6, AboveIsNode DEF Tree
  <2>2. F[j] \in DOMAIN tree
    BY <2>1, <1>2
  <2> HIDE DEF N
  <2> QED BY <2>2, <1>8
<1>10. F \in [0 .. N -> DOMAIN tree]
  <2> HIDE DEF F, N
  <2>1. DOMAIN F = 0 .. N /\ F = [j \in 0 .. N |-> F[j]]
    BY <1>8
  <2> QED BY <2>1, <1>9
<1>11. F[0] = i
  <2> HIDE DEF F
  <2> QED BY <1>8, <1>2
<1>12. \A j \in 1 .. N : F[j] = Above(F[j - 1])
  <2> HIDE DEF F
  <2> QED BY <1>9, <1>2
<1> HIDE DEF F
<1> QED BY <1>1, <1>10, <1>11, <1>12

\* The nodes above are ordered, so that the chain ends.
LEMMA ChainEnds ==
  ASSUME Tree, NEW i \in DOMAIN tree, NEW up \in [0 .. Len(tree) -> DOMAIN tree],
         up[0] = i, \A j \in 1 .. Len(tree) : up[j] = Above(up[j - 1])
  PROVE  \E j \in 0 .. Len(tree) : ~IsOperator(up[j]) /\ \A k \in 0 .. Len(tree) : k < j => IsOperator(up[k])
<1>1. Len(tree) \in Nat /\ DOMAIN tree = 1 .. Len(tree)
  BY TreeIsTyped DEF Tree
<1> DEFINE ends == {j \in Nat : j <= Len(tree) /\ ~IsOperator(up[j])}
<1>2. ends # {}
  <2> SUFFICES ASSUME \A j \in 0 .. Len(tree) : IsOperator(up[j]) PROVE FALSE
    BY <1>1
  <2>1. PICK h : Numbers(h)
    BY DEF Tree
  <2>2. \A k \in DOMAIN tree : h[k] \in 1 .. Len(tree) /\ (IsOperator(k) => h[k] < h[Above(k)])
    <3> SUFFICES ASSUME NEW k \in DOMAIN tree PROVE h[k] \in 1 .. Len(tree) /\ (IsOperator(k) => h[k] < h[Above(k)])
      OBVIOUS
    <3>1. h[k] \in 1 .. Len(tree)
      BY <2>1 DEF Numbers
    <3>2. ASSUME IsOperator(k) PROVE h[k] < h[Above(k)]
      <4>1. k \in 2 .. Len(tree) /\ Above(k) = tree[k].parent
        BY <3>2, AboveIsNode DEF Tree
      <4> QED BY <4>1, <2>1, ParentIsAbove DEF Tree
    <3> QED BY <3>1, <3>2
  <2> DEFINE bad == {j \in Nat : j <= Len(tree) /\ ~(h[up[j]] >= j + 1)}
  <2>3. bad = {}
    <3> SUFFICES ASSUME bad # {} PROVE FALSE
      OBVIOUS
    <3>1. PICK l \in bad : \A k \in bad : l <= k
      <4>1. bad \in SUBSET Nat
        OBVIOUS
      <4> HIDE DEF bad
      <4> QED BY <4>1, Least
    <3>2. l \in Nat /\ l <= Len(tree) /\ ~(h[up[l]] >= l + 1)
      BY <3>1
    <3>3. l # 0
      BY <3>2, <2>2, <1>1
    <3>4. l - 1 \in Nat /\ l - 1 <= Len(tree) /\ l - 1 < l /\ l \in 1 .. Len(tree) /\ l - 1 \in 0 .. Len(tree)
      BY <3>2, <3>3, <1>1
    <3>5. h[up[l - 1]] >= (l - 1) + 1
      <4> HIDE DEF bad
      <4>1. l - 1 \notin bad
        BY <3>1, <3>4, <3>2
      <4> QED BY <4>1, <3>4 DEF bad
    <3>6. up[l - 1] \in DOMAIN tree /\ up[l] \in DOMAIN tree /\ up[l] = Above(up[l - 1]) /\ IsOperator(up[l - 1])
      <4>1. l \in 0 .. Len(tree)
        BY <3>4, <1>1
      <4>2. up[l - 1] \in DOMAIN tree /\ up[l] \in DOMAIN tree
        BY <3>4, <4>1
      <4>3. up[l] = Above(up[l - 1])
        BY <3>4
      <4>4. IsOperator(up[l - 1])
        BY <3>4
      <4> QED BY <4>2, <4>3, <4>4
    <3>7. h[up[l - 1]] < h[up[l]] /\ h[up[l - 1]] \in Nat /\ h[up[l]] \in Nat
      <4> DEFINE x == up[l - 1]
      <4>1. x \in DOMAIN tree /\ up[l] = Above(x) /\ IsOperator(x) /\ Above(x) \in DOMAIN tree
        BY <3>6
      <4> HIDE DEF x
      <4>2. h[x] \in 1 .. Len(tree) /\ h[Above(x)] \in 1 .. Len(tree) /\ h[x] < h[Above(x)]
        BY <4>1, <2>2
      <4>3. h[x] \in Nat /\ h[Above(x)] \in Nat
        <5>1. \A y \in 1 .. Len(tree) : y \in Nat
          BY <1>1
        <5> HIDE DEF bad
        <5> QED BY <4>2, <5>1
      <4> QED BY <4>1, <4>2, <4>3 DEF x
    <3> QED BY <3>2, <3>5, <3>7, SMTT(30)
  <2>4. h[up[Len(tree)]] >= Len(tree) + 1
    <3>1. Len(tree) \notin bad
      BY <2>3
    <3> QED BY <3>1, <1>1
  <2>5. h[up[Len(tree)]] \in 1 .. Len(tree)
    BY <1>1, <2>2
  <2> QED BY <2>4, <2>5, <1>1
<1>3. PICK j \in ends : \A k \in ends : j <= k
  <2>1. ends \in SUBSET Nat
    OBVIOUS
  <2> HIDE DEF ends
  <2> QED BY <1>2, <2>1, Least
<1>4. j \in 0 .. Len(tree) /\ ~IsOperator(up[j])
  BY <1>1, <1>3
<1>5. ASSUME NEW k \in 0 .. Len(tree), k < j PROVE IsOperator(up[k])
  <2>1. k \notin ends
    <3> HIDE DEF ends
    <3> QED BY <1>1, <1>3, <1>4, <1>5
  <2> QED BY <2>1, <1>1
<1> QED BY <1>4, <1>5

LEMMA AncestorsAreNodes == ASSUME Tree, NEW i \in DOMAIN tree PROVE Ancestors(i) \subseteq DOMAIN tree
  BY Climb

\* A weaker operator finds a place for itself.
LEMMA HighestIsOperator ==
  ASSUME Tree, NEW i \in DOMAIN tree, IsOperator(i)
  PROVE  Highest(i) \in 2 .. Len(tree)
<1>1. PICK up \in [0 .. Len(tree) -> DOMAIN tree] :
           /\ up[0] = i /\ \A j \in 1 .. Len(tree) : up[j] = Above(up[j - 1])
           /\ Ancestors(i) = {up[j] : j \in 0 .. Len(tree)}
  BY Climb
<1>2. PICK j \in 0 .. Len(tree) : ~IsOperator(up[j]) /\ \A k \in 0 .. Len(tree) : k < j => IsOperator(up[k])
  BY <1>1, ChainEnds
<1>3. Len(tree) \in Nat /\ j \in Nat
  BY TreeIsTyped DEF Tree
<1>4. j # 0
  BY <1>1, <1>2
<1>5. j - 1 \in 0 .. Len(tree) /\ j - 1 < j /\ j \in 1 .. Len(tree)
  BY <1>3, <1>4
<1>6. IsOperator(up[j - 1]) /\ up[j - 1] \in DOMAIN tree
  BY <1>2, <1>5
<1>7. up[j] = tree[up[j - 1]].parent
  BY <1>1, <1>5, <1>6 DEF Above
<1>8. \E k \in Ancestors(i) : IsOperator(k) /\ ~IsOperator(tree[k].parent)
  BY <1>1, <1>2, <1>5, <1>6, <1>7
<1>9. Highest(i) \in Ancestors(i) /\ IsOperator(Highest(i))
  BY <1>8 DEF Highest
<1> QED BY <1>9, AncestorsAreNodes, AboveIsNode DEF Tree

-----------------------------------------------------------------------------
(* Filters: the parser *)

LEMMA ReadGrows ==
  ASSUME NodesTyped, NEW tok \in Tokens, Read(tok), UNCHANGED tree
  PROVE  NodesTyped'
<1>1. read' = Append(read, tok)
  BY DEF Read
<1>2. /\ read' \in Seq(Tokens)
      /\ \A n \in DOMAIN read : n \in DOMAIN read' /\ read'[n] = read[n]
  BY <1>1, AppendProperties DEF NodesTyped
<1>3. \A i \in 2 .. Len(tree) : \E n \in DOMAIN read' : tree[i].tok = read'[n]
  BY <1>2 DEF NodesTyped
<1> QED BY <1>2, <1>3 DEF NodesTyped

\* Each branch of the parser keeps the tree.
LEMMA ReadKeepsTree ==
  ASSUME Tree, NEW tok \in Tokens, Read(tok), UNCHANGED tree
  PROVE  Tree'
<1>1. NodesTyped'
  BY ReadGrows DEF Tree
<1>2. Linked'
  BY DEF Tree, Linked
<1>3. \A h : Numbers(h)' <=> Numbers(h)
  BY DEF Numbers
<1> QED BY <1>1, <1>2, <1>3 DEF Tree

LEMMA CallsAreKept ==
  ASSUME CallsAreNodes, DOMAIN tree \subseteq DOMAIN tree', UNCHANGED calls
  PROVE  CallsAreNodes'
  BY DEF CallsAreNodes

LEMMA CallBegins ==
  ASSUME CallsAreNodes, DOMAIN tree \subseteq DOMAIN tree', NEW i \in Nat, i \in DOMAIN tree', calls' = Append(calls, i)
  PROVE  CallsAreNodes'
<1>1. calls \in Seq(Nat)
  BY DEF CallsAreNodes
<1>2. /\ calls' \in Seq(Nat) /\ Len(calls') = Len(calls) + 1 /\ calls'[Len(calls) + 1] = i
      /\ \A j \in 1 .. Len(calls) : calls'[j] = calls[j]
  BY <1>1, AppendProperties
<1>3. Len(calls) \in Nat /\ DOMAIN calls = 1 .. Len(calls) /\ DOMAIN calls' = 1 .. Len(calls) + 1
  BY <1>1, <1>2
<1>4. \A j \in DOMAIN calls' : j \in DOMAIN calls \/ j = Len(calls) + 1
  BY <1>3
<1> QED BY <1>2, <1>3, <1>4 DEF CallsAreNodes

LEMMA CallEnds ==
  ASSUME CallsAreNodes, UNCHANGED tree, calls' = SubSeq(calls, 1, Len(calls) - 1)
  PROVE  CallsAreNodes'
<1>1. calls \in Seq(Nat) /\ Len(calls) \in Nat /\ DOMAIN calls = 1 .. Len(calls)
  BY DEF CallsAreNodes
<1>2. calls' = [j \in 1 .. Len(calls) - 1 |-> calls[j]]
  BY <1>1
<1>3. CASE calls = <<>>
  <2>1. Len(calls) = 0
    BY <1>3
  <2>2. 1 .. Len(calls) - 1 = {}
    BY <2>1
  <2>3. calls' = <<>>
    BY <1>1, <2>1
  <2>4. DOMAIN calls' = {} /\ calls' \in Seq(Nat)
    <3>1. <<>> \in Seq(Nat) /\ DOMAIN <<>> = {}
      OBVIOUS
    <3> QED BY <2>3, <3>1
  <2> QED BY <2>4 DEF CallsAreNodes
<1>4. CASE calls # <<>>
  <2>1. Len(calls) - 1 \in Nat
    BY <1>1, <1>4
  <2>2. \A j \in 1 .. Len(calls) - 1 : j \in DOMAIN calls /\ calls[j] \in Nat
    BY <1>1, <2>1
  <2>3. calls' \in Seq(Nat) /\ DOMAIN calls' = 1 .. Len(calls) - 1
    BY <1>2, <2>1, <2>2
  <2> QED BY <1>2, <2>2, <2>3 DEF CallsAreNodes
<1> QED BY <1>3, <1>4

\* A panic leaves the tree as it is.
LEMMA FailureKeepsTree ==
  ASSUME TreeInv, NEW tok \in Tokens, Read(tok), ParseFails
  PROVE  TreeInv'
<1>1. Tree'
  BY ReadKeepsTree DEF TreeInv, ParseFails
<1>2. CallsAreNodes'
  BY CallsAreKept DEF TreeInv, ParseFails
<1> QED BY <1>1, <1>2 DEF TreeInv, HasOperand, ParseFails

LEMMA ValueKeepsTree ==
  ASSUME TreeInv, NEW tok \in Tokens, ValuePart(tok)
  PROVE  TreeInv'
<1>0. Tree /\ NodesTyped /\ CallsAreNodes /\ curr \in DOMAIN tree /\ Read(tok) /\ read' = Append(read, tok)
  BY DEF TreeInv, Tree, ValuePart, Read
<1>1. CASE /\ tree' = Add(curr, tok)
           /\ ((phase' = "operator" /\ curr' = curr) \/ (phase' = phase /\ curr' = New))
           /\ (calls' = calls \/ calls' = Append(calls, New))
  <2>1. Tree'
    BY <1>0, <1>1, AddKeepsTree
  <2>2. DOMAIN tree' = 1 .. New /\ DOMAIN tree = 1 .. Len(tree) /\ New = Len(tree) + 1 /\ Len(tree) \in Nat
    BY <1>0, <1>1, AddPoints, TreeIsTyped DEF New
  <2>3. curr' \in DOMAIN tree'
    BY <1>0, <1>1, <2>2
  <2>4. phase' = "operator" => tree'[curr'].items # <<>>
    <3> SUFFICES ASSUME phase' = "operator" PROVE tree'[curr'].items # <<>>
      OBVIOUS
    <3>1. phase = "value"
      BY DEF ValuePart
    <3>2. curr' = curr
      BY <1>1, <3>1
    <3>3. Len(tree[curr].items) + 1 \in DOMAIN tree'[curr].items
      BY <1>0, <1>1, AddItems
    <3> QED BY <3>2, <3>3
  <2>5. phase' \in {"value", "operator", "panic"}
    BY <1>1 DEF ValuePart
  <2>6. CallsAreNodes'
    <3>1. DOMAIN tree \subseteq DOMAIN tree' /\ New \in Nat /\ New \in DOMAIN tree'
      BY <2>2
    <3> QED BY <1>0, <1>1, <3>1, CallsAreKept, CallBegins
  <2> QED BY <2>1, <2>3, <2>4, <2>5, <2>6 DEF TreeInv, HasOperand
<1>2. CASE ParseFails
  BY <1>0, <1>2, FailureKeepsTree
<1>3. \/ /\ tree' = Add(curr, tok)
         /\ ((phase' = "operator" /\ curr' = curr) \/ (phase' = phase /\ curr' = New))
         /\ (calls' = calls \/ calls' = Append(calls, New))
      \/ ParseFails
  BY DEF ValuePart
<1> QED BY <1>1, <1>2, <1>3

\* The panic of parseOperator that expects a value before an operator is not reached: there is a last element.
LEMMA LastIsNode ==
  ASSUME NodesTyped, NEW i \in DOMAIN tree, tree[i].items # <<>>
  PROVE  LastElement(i) \in 2 .. Len(tree)
<1>1. tree[i].items \in Seq(Nat) /\ DOMAIN tree[i].items = 1 .. Len(tree[i].items) /\ Len(tree[i].items) \in Nat
  BY TreeIsTyped
<1>2. Len(tree[i].items) # 0
  BY <1>1, EmptySeq
<1>3. Len(tree[i].items) \in DOMAIN tree[i].items
  BY <1>1, <1>2
<1> QED BY <1>3 DEF LastElement, NodesTyped

LEMMA OperatorIsPlaced ==
  ASSUME TreeInv, NEW tok \in Tokens, tok.t = "op", phase = "operator", phase' = "value",
         read' = Append(read, tok), NEW i \in 2 .. Len(tree), tree' = Push(i, tok), curr' = New, calls' = calls
  PROVE  TreeInv'
<1>1. Tree /\ NodesTyped
  BY DEF TreeInv, Tree
<1>2. Tree'
  BY <1>1, PushKeepsTree
<1>3. tree[i].parent # i
  BY <1>1, ParentIsAbove DEF Tree
<1>4. DOMAIN tree' = 1 .. New /\ Len(tree) \in Nat /\ New = Len(tree) + 1
  BY <1>1, <1>3, PushPoints, TreeIsTyped DEF New
<1>5. curr' \in DOMAIN tree' /\ DOMAIN tree \subseteq DOMAIN tree'
  <2>1. DOMAIN tree = 1 .. Len(tree)
    BY <1>1, TreeIsTyped
  <2> QED BY <1>4, <2>1
<1>6. CallsAreNodes'
  BY <1>5, CallsAreKept DEF TreeInv
<1> QED BY <1>2, <1>5, <1>6 DEF TreeInv, HasOperand

LEMMA OperatorKeepsTree ==
  ASSUME TreeInv, NEW tok \in Tokens, OperatorPart(tok)
  PROVE  TreeInv'
<1>0. /\ Tree /\ NodesTyped /\ CallsAreNodes /\ curr \in DOMAIN tree /\ Read(tok) /\ read' = Append(read, tok) /\ phase = "operator"
      /\ tree[curr].items # <<>>
  BY DEF TreeInv, HasOperand, Tree, OperatorPart, Read
<1>1. CASE tok.t = "op" /\ ParseOperator(tok) /\ phase' = "value" /\ calls' = calls
  <2>1. CASE tree' = Push(LastElement(curr), tok) /\ curr' = New
    <3>1. LastElement(curr) \in 2 .. Len(tree)
      BY <1>0, LastIsNode
    <3> QED BY <1>0, <1>1, <2>1, <3>1, OperatorIsPlaced
  <2>2. CASE UNCHANGED <<tree, curr>>
    <3>1. Tree'
      BY <1>0, <2>2, ReadKeepsTree
    <3>2. CallsAreNodes'
      BY <1>0, <1>1, <2>2, CallsAreKept
    <3> QED BY <1>0, <1>1, <2>2, <3>1, <3>2 DEF TreeInv, HasOperand
  <2>3. CASE IsOperator(curr) /\ tree' = Push(Highest(curr), tok) /\ curr' = New
    <3>1. Highest(curr) \in 2 .. Len(tree)
      BY <1>0, <2>3, HighestIsOperator
    <3> QED BY <1>0, <1>1, <2>3, <3>1, OperatorIsPlaced
  <2>4. CASE IsOperator(curr) /\ tree' = Push(curr, tok) /\ curr' = New
    <3>1. curr \in 2 .. Len(tree)
      BY <1>0, <2>4, AboveIsNode
    <3> QED BY <1>0, <1>1, <2>4, <3>1, OperatorIsPlaced
  <2>5. \/ tree' = Push(LastElement(curr), tok) /\ curr' = New
        \/ UNCHANGED <<tree, curr>>
        \/ IsOperator(curr) /\ tree' = Push(Highest(curr), tok) /\ curr' = New
        \/ IsOperator(curr) /\ tree' = Push(curr, tok) /\ curr' = New
    BY <1>1 DEF ParseOperator
  <2> QED BY <2>1, <2>2, <2>3, <2>4, <2>5
<1>2. CASE ParseFails
  BY <1>0, <1>2, FailureKeepsTree
<1>3. CASE CloseBracket /\ ~ParseFails
  <2> DEFINE groups == {i \in Ancestors(curr) : tree[i].tok.t \in {"open", "call"}}
             group == CHOOSE i \in groups : TRUE
  <2>1. /\ groups # {} /\ curr' = tree[group].parent /\ tree' = tree /\ phase' = phase
        /\ (calls' = calls \/ calls' = SubSeq(calls, 1, Len(calls) - 1))
    BY <1>3 DEF CloseBracket
  <2>2. group \in Ancestors(curr) /\ tree[group].tok.t # "empty"
    BY <2>1
  <2> HIDE DEF group, groups
  <2>3. group \in DOMAIN tree /\ group # 1 /\ DOMAIN tree = 1 .. Len(tree) /\ Len(tree) \in Nat
    BY <2>2, <1>0, AncestorsAreNodes, TreeIsTyped DEF NodesTyped
  <2>4. group \in 2 .. Len(tree)
    BY <2>3
  <2>5. tree[group].parent \in DOMAIN tree /\ tree[tree[group].parent].items # <<>>
    BY <2>4, <1>0 DEF NodesTyped, Tree, Linked
  <2>6. Tree'
    BY <1>0, <2>1, ReadKeepsTree
  <2>7. CallsAreNodes'
    BY <1>0, <2>1, CallsAreKept, CallEnds
  <2> QED BY <2>1, <2>5, <2>6, <2>7, <1>0 DEF TreeInv, HasOperand
<1>4. CASE NextArgument /\ ~ParseFails
  <2>1. calls # <<>> /\ curr' = calls[Len(calls)] /\ phase' = "value" /\ tree' = tree /\ calls' = calls
    BY <1>4 DEF NextArgument
  <2>2. Tree'
    BY <1>0, <2>1, ReadKeepsTree
  <2>3. CallsAreNodes'
    BY <1>0, <2>1, CallsAreKept
  <2>4. Len(calls) \in DOMAIN calls
    BY <1>0, <2>1, EmptySeq DEF CallsAreNodes
  <2>5. curr' \in DOMAIN tree'
    BY <1>0, <2>1, <2>4 DEF CallsAreNodes
  <2> QED BY <2>1, <2>2, <2>3, <2>5 DEF TreeInv, HasOperand
<1>5. \/ tok.t = "op" /\ ParseOperator(tok) /\ phase' = "value" /\ calls' = calls
      \/ CloseBracket
      \/ NextArgument
      \/ ParseFails
  BY DEF OperatorPart
<1> QED BY <1>1, <1>2, <1>3, <1>4, <1>5

LEMMA FilterInitially == FilterInit => TreeInv
<1> SUFFICES ASSUME FilterInit PROVE TreeInv
  OBVIOUS
<1> DEFINE empty == [t |-> "empty", n |-> 0, s |-> ""]
           root == [tok |-> empty, parent |-> 0, items |-> <<>>]
<1>1. tree = <<root>> /\ read = <<>> /\ curr = 1 /\ phase = "value" /\ calls = <<>>
  BY DEF FilterInit, Node
<1>2. root \in NodeType
  <2>1. empty \in Tokens \cup {[t |-> "empty", n |-> 0, s |-> ""]}
    OBVIOUS
  <2>2. <<>> \in Seq(Nat)
    BY EmptySeq
  <2> HIDE DEF empty
  <2> QED BY <2>1, <2>2 DEF NodeType
<1>3. root.items = <<>> /\ root.tok.t = "empty"
  OBVIOUS
<1> HIDE DEF root
<1>4. tree \in Seq(NodeType) /\ Len(tree) = 1 /\ DOMAIN tree = {1} /\ tree[1] = root
  BY <1>1, <1>2
<1>5. \A i \in DOMAIN tree : DOMAIN tree[i].items = {}
  BY <1>3, <1>4
<1>6. 2 .. Len(tree) = {}
  <2>1. 2 .. 1 = {}
    OBVIOUS
  <2> QED BY <2>1, <1>4
<1>7. read \in Seq(Tokens)
  BY <1>1, EmptySeq
<1>8. NodesTyped
  BY <1>3, <1>4, <1>5, <1>6, <1>7 DEF NodesTyped
<1>9. Linked
  BY <1>5, <1>6 DEF Linked
<1>10. Numbers([i \in {1} |-> 1])
  BY <1>4, <1>5 DEF Numbers
<1>11. CallsAreNodes
  BY <1>1, EmptySeq DEF CallsAreNodes
<1> QED BY <1>1, <1>4, <1>8, <1>9, <1>10, <1>11 DEF TreeInv, Tree, HasOperand

LEMMA FilterIsKept == TreeInv /\ [FilterNext]_filterVars => TreeInv'
<1> SUFFICES ASSUME TreeInv, [FilterNext]_filterVars PROVE TreeInv'
  OBVIOUS
<1>1. ASSUME NEW tok \in Tokens, ValuePart(tok) PROVE TreeInv'
  BY <1>1, ValueKeepsTree
<1>2. ASSUME NEW tok \in Tokens, OperatorPart(tok) PROVE TreeInv'
  BY <1>2, OperatorKeepsTree
<1>3. CASE UNCHANGED filterVars
  <2>1. NodesTyped' /\ Linked' /\ HasOperand' /\ curr' \in DOMAIN tree' /\ phase' \in {"value", "operator", "panic"}
    BY <1>3 DEF filterVars, TreeInv, Tree, NodesTyped, Linked, HasOperand
  <2>3. CallsAreNodes'
    BY <1>3 DEF filterVars, TreeInv, CallsAreNodes
  <2>2. \A h : Numbers(h)' <=> Numbers(h)
    BY <1>3 DEF filterVars, Numbers
  <2> QED BY <2>1, <2>2, <2>3 DEF TreeInv, Tree
<1> QED BY <1>1, <1>2, <1>3 DEF FilterNext

LEMMA TreeInvariant == FilterSpec => []TreeInv
  BY FilterInitially, FilterIsKept, PTL DEF FilterSpec

LEMMA TreeFacts == TreeInv => TreeOK
<1> SUFFICES ASSUME TreeInv PROVE TreeOK
  OBVIOUS
<1>1. ASSUME NEW i \in 2 .. Len(tree)
      PROVE  Cardinality({j \in DOMAIN tree[tree[i].parent].items : tree[tree[i].parent].items[j] = i}) = 1
  <2>1. PICK j \in DOMAIN tree[tree[i].parent].items :
               \A k \in DOMAIN tree[tree[i].parent].items : tree[tree[i].parent].items[k] = i <=> k = j
    BY DEF TreeInv, Tree, Linked
  <2>2. {k \in DOMAIN tree[tree[i].parent].items : tree[tree[i].parent].items[k] = i} = {j}
    BY <2>1
  <2> QED BY <2>2, FS_Singleton
<1> QED BY <1>1 DEF TreeOK, TreeInv, Tree, Linked

\* The nodes of a filter form a tree, whatever its tokens (filter/treenode.go, Add and Push).
THEOREM FilterIsTree == FilterSpec => []TreeOK
  BY TreeInvariant, TreeFacts, PTL

-----------------------------------------------------------------------------
(* Filters: the evaluation *)

\* The values of a filter of numbers.
Proper == ({"n"} \X Int) \cup {Error}

\* A proper value is a number or an error: it is no text, and no panic that Eval does not recover.
LEMMA ProperValues ==
  /\ Error \in Proper /\ \A n \in Int : Number(n) \in Proper
  /\ \A b : Truth(b) \in Proper
  /\ \A v \in Proper : /\ ToNumber(v) = v /\ v # Crash /\ v[1] # "s"
                       /\ ~Fails(v) => v[2] \in Int
<1>1. Error \in Proper /\ \A n \in Int : Number(n) \in Proper
  BY DEF Proper, Number
<1>2. \A b : Truth(b) \in Proper
  BY DEF Proper, Number, Truth
<1>3. ASSUME NEW v \in Proper
      PROVE  ToNumber(v) = v /\ v # Crash /\ v[1] # "s" /\ (~Fails(v) => v[2] \in Int)
  <2>1. CASE v = Error
    BY <2>1 DEF Error, Crash, ToNumber, Fails
  <2>2. CASE v \in {"n"} \X Int
    BY <2>2 DEF Error, Crash, ToNumber, Fails
  <2> QED BY <2>1, <2>2 DEF Proper
<1> QED BY <1>1, <1>2, <1>3

\* The operators yield proper values for proper operands.
LEMMA FirstIsProper ==
  ASSUME NEW vs \in Seq(Proper), NEW deciding, NEW then \in Proper, NEW default \in Proper
  PROVE  FirstOf(vs, deciding, then, default) \in Proper
<1> DEFINE at == {j \in DOMAIN vs : Fails(vs[j]) \/ j \in deciding}
           first == CHOOSE j \in at : \A l \in at : j <= l
<1>1. at \in SUBSET Nat
  OBVIOUS
<1>2. CASE at = {}
  BY <1>2 DEF FirstOf
<1>3. CASE at # {}
  <2>1. \E j \in at : \A l \in at : j <= l
    <3> HIDE DEF at
    <3> QED BY <1>1, <1>3, Least
  <2>2. first \in DOMAIN vs
    BY <2>1
  <2>3. vs[first] \in Proper
    <3> HIDE DEF first
    <3> QED BY <2>2
  <2>4. FirstOf(vs, deciding, then, default) = IF Fails(vs[first]) THEN vs[first] ELSE then
    BY <1>3 DEF FirstOf
  <2> HIDE DEF first
  <2> QED BY <2>3, <2>4
<1> QED BY <1>2, <1>3

LEMMA MathIsProper ==
  ASSUME NEW num \in Seq(Proper), num # <<>>, NEW op \in {"<", "+", "-"}
  PROVE  MathOf(op, num) \in Proper
<1> DEFINE N == Len(num)
           next(s, v) == IF Fails(s) THEN s ELSE IF Fails(v) THEN v ELSE Math(op, s[2], v[2])
           step == [j \in Nat |-> [s \in Proper |-> IF j \in DOMAIN num THEN next(s, num[j]) ELSE s]]
           F == CHOOSE upTo : upTo = [j \in DOMAIN num |->
                  IF j = 1 THEN num[1] ELSE IF Fails(upTo[j - 1]) THEN upTo[j - 1]
                  ELSE IF Fails(num[j]) THEN num[j] ELSE Math(op, upTo[j - 1][2], num[j][2])]
<1>1. MathOf(op, num) = F[N]
  BY DEF MathOf
<1>2. N \in Nat /\ 1 <= N /\ DOMAIN num = 1 .. N
  BY EmptySeq
<1>3. \A j \in DOMAIN num : num[j] \in Proper
  OBVIOUS
<1>4. ASSUME NEW s \in Proper, NEW v \in Proper PROVE next(s, v) \in Proper
  <2>1. CASE Fails(s) \/ Fails(v)
    BY <2>1
  <2>2. CASE ~Fails(s) /\ ~Fails(v)
    <3>1. s[2] \in Int /\ v[2] \in Int
      BY <2>2, ProperValues
    <3>2. next(s, v) = Math(op, s[2], v[2])
      BY <2>2
    <3>3. Math(op, s[2], v[2]) \in Proper
      <4>1. CASE op = "<"
        <5>1. Math(op, s[2], v[2]) = Truth(s[2] < v[2])
          BY <4>1 DEF Math
        <5> QED BY <5>1, ProperValues
      <4>2. CASE op = "+"
        <5>1. Math(op, s[2], v[2]) = Number(s[2] + v[2])
          BY <4>2 DEF Math
        <5> QED BY <5>1, <3>1, ProperValues
      <4>3. CASE op = "-"
        <5>1. Math(op, s[2], v[2]) = Number(s[2] - v[2])
          BY <4>3 DEF Math
        <5> QED BY <5>1, <3>1, ProperValues
      <4> QED BY <4>1, <4>2, <4>3
    <3> QED BY <3>2, <3>3
  <2> QED BY <2>1, <2>2
<1>5. step \in [Nat -> [Proper -> Proper]]
      /\ \A j \in DOMAIN num : \A s \in Proper : step[j][s] = next(s, num[j])
  <2> HIDE DEF next
  <2>1. \A j \in Nat : \A s \in Proper : (IF j \in DOMAIN num THEN next(s, num[j]) ELSE s) \in Proper
    BY <1>3, <1>4
  <2>2. \A j \in DOMAIN num : j \in Nat
    BY <1>2
  <2> QED BY <2>1, <2>2
<1>6. PICK f \in [1 .. N -> Proper] : \A j \in 1 .. N : f[j] = IF j = 1 THEN num[1] ELSE step[j][f[j - 1]]
  <2>1. num[1] \in Proper
    BY <1>2, <1>3
  <2>2. step \in [Nat -> [Proper -> Proper]] /\ 1 \in Nat
    BY <1>5
  <2> HIDE DEF step, N
  <2>3. \E f : Follows(f, Proper, num[1], step, 1, N)
    BY <1>2, <2>1, <2>2, Recursion
  <2> QED BY <2>3 DEF Follows
<1> HIDE DEF step
<1>7. \A j \in DOMAIN num : f[j] = IF j = 1 THEN num[1] ELSE next(f[j - 1], num[j])
  <2> SUFFICES ASSUME NEW j \in DOMAIN num PROVE f[j] = IF j = 1 THEN num[1] ELSE next(f[j - 1], num[j])
    OBVIOUS
  <2>1. CASE j = 1
    BY <2>1, <1>2, <1>6
  <2>2. CASE j # 1
    <3>1. j - 1 \in 1 .. N /\ j \in 1 .. N
      BY <2>2, <1>2
    <3>2. f[j - 1] \in Proper /\ f[j] = step[j][f[j - 1]]
      BY <3>1, <2>2, <1>6
    <3> HIDE DEF next
    <3> QED BY <3>2, <2>2, <1>5
  <2> QED BY <2>1, <2>2
<1>8. f = [j \in DOMAIN num |->
            IF j = 1 THEN num[1] ELSE IF Fails(f[j - 1]) THEN f[j - 1]
            ELSE IF Fails(num[j]) THEN num[j] ELSE Math(op, f[j - 1][2], num[j][2])]
  <2>1. DOMAIN f = DOMAIN num /\ f = [j \in DOMAIN num |-> f[j]]
    BY <1>2, <1>6
  <2> HIDE DEF N
  <2> QED BY <2>1, <1>7
<1>9. F = [j \in DOMAIN num |->
            IF j = 1 THEN num[1] ELSE IF Fails(F[j - 1]) THEN F[j - 1]
            ELSE IF Fails(num[j]) THEN num[j] ELSE Math(op, F[j - 1][2], num[j][2])]
  BY <1>8
<1> HIDE DEF F
<1>10. \A j \in DOMAIN num : F[j] = IF j = 1 THEN num[1] ELSE next(F[j - 1], num[j])
  <2> HIDE DEF N
  <2> QED BY <1>9
<1> HIDE DEF next
<1> DEFINE bad == {j \in Nat : j \in DOMAIN num /\ F[j] \notin Proper}
<1>11. bad = {}
  <2> SUFFICES ASSUME bad # {} PROVE FALSE
    OBVIOUS
  <2>1. PICK j \in bad : \A k \in bad : j <= k
    <3>1. bad \in SUBSET Nat
      OBVIOUS
    <3> HIDE DEF bad
    <3> QED BY <3>1, Least
  <2>2. j \in DOMAIN num /\ F[j] \notin Proper
    BY <2>1
  <2>3. j # 1
    BY <2>2, <1>3, <1>10
  <2>4. j - 1 \in DOMAIN num /\ j - 1 < j /\ j - 1 \in Nat
    BY <2>2, <2>3, <1>2
  <2>5. F[j - 1] \in Proper
    <3>1. j - 1 \notin bad
      <4> HIDE DEF bad
      <4> QED BY <2>1, <2>4, <2>2, <1>2
    <3> QED BY <3>1, <2>4
  <2>6. next(F[j - 1], num[j]) \in Proper
    BY <2>2, <2>5, <1>3, <1>4
  <2> QED BY <2>2, <2>3, <2>6, <1>10
<1> QED BY <1>1, <1>2, <1>11

LEMMA ApplyIsProper ==
  ASSUME NEW op \in Operators, NEW vs \in Seq(Proper)
  PROVE  Apply(op, vs) \in Proper
<1> DEFINE no == {j \in DOMAIN vs : vs[j] = Number(0)}
           rest == SubSeq(vs, 2, Len(vs))
           same == {j \in DOMAIN rest : rest[j] = vs[1]}
           num == [j \in DOMAIN vs |-> ToNumber(vs[j])]
<1>1. CASE op = "*" \/ Len(vs) < 2
  BY <1>1, ProperValues DEF Apply
<1>2. CASE op # "*" /\ ~(Len(vs) < 2)
  <2>1. Len(vs) \in Nat /\ DOMAIN vs = 1 .. Len(vs) /\ \A j \in DOMAIN vs : vs[j] \in Proper
    OBVIOUS
  <2>2. rest \in Seq(Proper)
    <3>1. \A j \in 2 .. Len(vs) : vs[j] \in Proper
      BY <2>1
    <3> QED BY <2>1, <1>2, SubSeqProperties
  <2>3. num \in Seq(Proper) /\ num # <<>>
    <3>1. num = vs
      <4>1. \A j \in DOMAIN vs : ToNumber(vs[j]) = vs[j]
        BY <2>1, ProperValues
      <4>2. vs = [j \in DOMAIN vs |-> vs[j]]
        BY <2>1
      <4> QED BY <4>1, <4>2
    <3>2. vs # <<>>
      BY <1>2, EmptySeq
    <3> QED BY <3>1, <3>2
  <2>4. Truth(TRUE) \in Proper /\ Truth(FALSE) \in Proper
    BY ProperValues
  <2>5. vs[1] \in Proper
    BY <2>1, <1>2
  <2> HIDE DEF no, rest, same, num
  <2>6. CASE op = "and"
    <3>1. Apply(op, vs) = FirstOf(vs, no, Truth(FALSE), Truth(TRUE))
      BY <2>6, <1>2 DEF Apply, no
    <3> QED BY <3>1, <2>4, FirstIsProper
  <2>7. CASE op = "or"
    <3>1. Apply(op, vs) = FirstOf(vs, DOMAIN vs \ no, Truth(TRUE), Truth(FALSE))
      BY <2>7, <1>2 DEF Apply, no
    <3> QED BY <3>1, <2>4, FirstIsProper
  <2>8. CASE op \in {"=", "!="} /\ Fails(vs[1])
    <3>1. Apply(op, vs) = vs[1]
      BY <2>8, <1>2 DEF Apply
    <3> QED BY <3>1, <2>5
  <2>9. CASE op = "=" /\ ~Fails(vs[1])
    <3>1. Apply(op, vs) = FirstOf(rest, DOMAIN rest \ same, Truth(FALSE), Truth(TRUE))
      BY <2>9, <1>2 DEF Apply, rest, same
    <3> QED BY <3>1, <2>2, <2>4, FirstIsProper
  <2>10. CASE op = "!=" /\ ~Fails(vs[1])
    <3>1. Apply(op, vs) = FirstOf(rest, same, Truth(FALSE), Truth(TRUE))
      BY <2>10, <1>2 DEF Apply, rest, same
    <3> QED BY <3>1, <2>2, <2>4, FirstIsProper
  <2>11. CASE op \in {"<", "+", "-"}
    <3>1. Apply(op, vs) = MathOf(op, num)
      BY <2>11, <1>2 DEF Apply, num
    <3> QED BY <3>1, <2>3, <2>11, MathIsProper
  <2> QED BY <2>6, <2>7, <2>8, <2>9, <2>10, <2>11, <1>2 DEF Operators
<1> QED BY <1>1, <1>2

\* The premise of NumbersDoNotCrash, for a server with these keys.
NoTexts(keys) ==
  /\ \A n \in DOMAIN read : read[n].t # "text" /\ (read[n].t = "id" => Value(keys, read[n].s)[1] = "n")
  /\ \A i \in DOMAIN tree : ~OnlyCalls(i)

LEMMA OperandsAreProper ==
  ASSUME NEW op, NEW toks, NEW vs \in Seq(Proper), NEW game
  PROVE  Operands(op, toks, vs, game) \in Seq(Proper)
<1>1. \A j \in DOMAIN vs : vs[j] \in Proper
  OBVIOUS
<1>2. \A v \in Proper : Unregional(v) = v
  <2> SUFFICES ASSUME NEW v \in Proper PROVE Unregional(v) = v
    OBVIOUS
  <2>1. v # Text("vs_1") /\ v # Text("bt_1")
    <3>1. v[1] # "s"
      BY ProperValues
    <3> QED BY <3>1 DEF Text
  <2> QED BY <2>1 DEF Unregional
<1>3. [j \in DOMAIN vs |-> Unregional(vs[j])] = vs
  <2>1. vs = [j \in DOMAIN vs |-> vs[j]]
    OBVIOUS
  <2>2. \A j \in DOMAIN vs : Unregional(vs[j]) = vs[j]
    BY <1>1, <1>2
  <2> QED BY <2>1, <2>2
<1> QED BY <1>3 DEF Operands

LEMMA ValueIsProper ==
  ASSUME NodesTyped, NEW i \in DOMAIN tree, NEW vs \in Seq(Proper), DOMAIN vs = DOMAIN tree[i].items,
         NEW game, NEW v \in BrowserServers, NoTexts(v.keys)
  PROVE  ValueOf(i, vs, v.keys, game) \in Proper
<1> DEFINE tok == tree[i].tok
           toks == [j \in DOMAIN vs |-> tree[tree[i].items[j]].tok]
<1>0. ValueOf(i, vs, v.keys, game) =
        CASE tok.t = "num" -> Number(tok.n)
          [] tok.t = "text" -> Text(tok.s)
          [] tok.t = "id" -> Value(v.keys, tok.s)
          [] tok.t = "op" -> IF Ignored(tok.s, toks, game) THEN Truth(TRUE)
                             ELSE Apply(tok.s, Operands(tok.s, toks, vs, game))
          [] tok.t = "call" -> Error
          [] OTHER -> IF vs = <<>> THEN Error ELSE IF toks[1].t = "call" THEN Crash ELSE ToNumber(vs[1])
  BY DEF ValueOf
<1>1. tok.t = "empty" \/ \E n \in DOMAIN read : tok = read[n] /\ tok \in Tokens
  <2>1. i = 1 \/ i \in 2 .. Len(tree)
    BY TreeIsTyped
  <2> HIDE DEF toks
  <2>2. CASE i = 1
    BY <2>2 DEF NodesTyped
  <2>3. CASE i \in 2 .. Len(tree)
    <3>1. PICK n \in DOMAIN read : tok = read[n]
      BY <2>3 DEF NodesTyped
    <3>2. read[n] \in Tokens
      BY DEF NodesTyped
    <3> QED BY <3>1, <3>2
  <2> QED BY <2>1, <2>2, <2>3
<1> HIDE DEF tok, toks
<1>2. CASE tok.t = "num"
  <2>1. tok.n \in Int
    BY <1>1, <1>2, FilterAssumption
  <2>2. ValueOf(i, vs, v.keys, game) = Number(tok.n)
    BY <1>0, <1>2
  <2> QED BY <2>1, <2>2, ProperValues
<1>3. CASE tok.t = "text"
  BY <1>1, <1>3 DEF NoTexts
<1>4. CASE tok.t = "id"
  <2>1. ValueOf(i, vs, v.keys, game) = Value(v.keys, tok.s)
    BY <1>0, <1>4
  <2>2. Value(v.keys, tok.s)[1] = "n"
    BY <1>1, <1>4 DEF NoTexts
  <2>3. tok.s \in DOMAIN v.keys
    <3> SUFFICES ASSUME tok.s \notin DOMAIN v.keys PROVE FALSE
      OBVIOUS
    <3>1. Value(v.keys, tok.s) = Text("")
      BY DEF Value
    <3>2. \A x : Text(x)[1] = "s"
      BY DEF Text
    <3> QED BY <3>1, <3>2, <2>2
  <2>4. Value(v.keys, tok.s) \in Strings
    BY <2>3, FilterAssumption DEF Value
  <2>5. Value(v.keys, tok.s) \in Proper
    <3> DEFINE x == Value(v.keys, tok.s)
    <3> HIDE DEF x
    <3>1. x \in Strings /\ x[1] = "n"
      BY <2>2, <2>4 DEF x
    <3>2. x \in {"n"} \X Int
      BY <3>1 DEF Strings
    <3> QED BY <3>2 DEF Proper, x
  <2> QED BY <2>1, <2>5
<1>5. CASE tok.t = "op"
  <2>1. tok.s \in Operators
    BY <1>1, <1>5, FilterAssumption
  <2>2. Apply(tok.s, Operands(tok.s, toks, vs, game)) \in Proper
    BY <2>1, OperandsAreProper, ApplyIsProper
  <2>3. ValueOf(i, vs, v.keys, game) = IF Ignored(tok.s, toks, game) THEN Truth(TRUE)
                             ELSE Apply(tok.s, Operands(tok.s, toks, vs, game))
    BY <1>0, <1>5
  <2> QED BY <2>2, <2>3, ProperValues
<1>6. CASE tok.t = "call"
  <2>1. ValueOf(i, vs, v.keys, game) = Error
    BY <1>0, <1>6
  <2> QED BY <2>1, ProperValues
<1>7. CASE tok.t \notin {"num", "text", "id", "op", "call"}
  <2>1. ValueOf(i, vs, v.keys, game) = IF vs = <<>> THEN Error ELSE IF toks[1].t = "call" THEN Crash ELSE ToNumber(vs[1])
    BY <1>0, <1>7
  <2>2. CASE vs = <<>>
    BY <2>1, <2>2, ProperValues
  <2>3. CASE vs # <<>>
    <3>1. 1 \in DOMAIN vs /\ vs[1] \in Proper
      BY <2>3, EmptySeq
    <3>2. toks[1].t # "call"
      <4>1. toks[1] = tree[tree[i].items[1]].tok /\ tree[i].items # <<>>
        BY <3>1 DEF toks
      <4> QED BY <1>7, <4>1 DEF NoTexts, OnlyCalls, tok
    <3> QED BY <2>1, <2>3, <3>1, <3>2, ProperValues
  <2> QED BY <2>2, <2>3
<1> QED BY <1>2, <1>3, <1>4, <1>5, <1>6, <1>7

\* The values of the nodes that are numbered up to n.
Evaluates(f, n, h, keys, game) ==
  f = [i \in {x \in DOMAIN tree : h[x] <= n} |->
         ValueOf(i, [j \in DOMAIN tree[i].items |-> f[tree[i].items[j]]], keys, game)]

\* The recursion of the evaluation ends, as nothing is below itself.
LEMMA EvaluationExists ==
  ASSUME NodesTyped, NEW h, Numbers(h), NEW keys, NEW game, NEW n \in Nat
  PROVE  \E f : Evaluates(f, n, h, keys, game)
<1> DEFINE bad == {k \in Nat : ~\E f : Evaluates(f, k, h, keys, game)}
<1>1. SUFFICES ASSUME bad # {} PROVE FALSE
  OBVIOUS
<1>2. PICK k \in bad : \A l \in bad : k <= l
  <2>1. bad \in SUBSET Nat
    OBVIOUS
  <2> HIDE DEF bad
  <2> QED BY <1>1, <2>1, Least
<1>3. k \in Nat /\ ~\E f : Evaluates(f, k, h, keys, game)
  BY <1>2
<1>4. DOMAIN tree = 1 .. Len(tree) /\ Len(tree) \in Nat /\ \A x \in DOMAIN tree : h[x] \in 1 .. Len(tree)
  BY TreeIsTyped DEF Numbers
<1>5. k # 0
  <2> SUFFICES ASSUME k = 0 PROVE FALSE
    OBVIOUS
  <2>1. {x \in DOMAIN tree : h[x] <= 0} = {}
    BY <1>4
  <2> DEFINE f == [i \in {} |-> 0]
  <2>2. f = [i \in {} |-> ValueOf(i, [j \in DOMAIN tree[i].items |-> f[tree[i].items[j]]], keys, game)]
    OBVIOUS
  <2> HIDE DEF f
  <2>3. Evaluates(f, 0, h, keys, game)
    BY <2>1, <2>2 DEF Evaluates
  <2> QED BY <2>3, <1>3
<1>6. k - 1 \in Nat /\ k - 1 < k
  BY <1>3, <1>5
<1>7. \E f : Evaluates(f, k - 1, h, keys, game)
  <2>1. k - 1 \notin bad
    <3> HIDE DEF bad
    <3> QED BY <1>2, <1>3, <1>6
  <2> QED BY <2>1, <1>6
<1>8. PICK f : Evaluates(f, k - 1, h, keys, game)
  BY <1>7
<1> DEFINE below == {x \in DOMAIN tree : h[x] <= k - 1}
           now == {x \in DOMAIN tree : h[x] <= k}
           vf == [i \in DOMAIN tree |-> [j \in DOMAIN tree[i].items |-> f[tree[i].items[j]]]]
           g == [i \in now |-> ValueOf(i, vf[i], keys, game)]
           vg == [i \in DOMAIN tree |-> [j \in DOMAIN tree[i].items |-> g[tree[i].items[j]]]]
<1>9. \A x \in below : x \in now /\ x \in DOMAIN tree
  BY <1>4, <1>6
<1>10. \A x \in below : g[x] = f[x]
  <2> SUFFICES ASSUME NEW x \in below PROVE g[x] = f[x]
    OBVIOUS
  <2>1. f[x] = ValueOf(x, [j \in DOMAIN tree[x].items |-> f[tree[x].items[j]]], keys, game)
    BY <1>8 DEF Evaluates
  <2>2. vf[x] = [j \in DOMAIN tree[x].items |-> f[tree[x].items[j]]]
    BY <1>9
  <2>3. g[x] = ValueOf(x, vf[x], keys, game)
    BY <1>9
  <2> QED BY <2>1, <2>2, <2>3
<1>11. \A i \in now : vf[i] = vg[i]
  <2> SUFFICES ASSUME NEW i \in now PROVE vf[i] = vg[i]
    OBVIOUS
  <2>1. ASSUME NEW j \in DOMAIN tree[i].items PROVE g[tree[i].items[j]] = f[tree[i].items[j]]
    <3> DEFINE x == tree[i].items[j]
    <3>1. x \in DOMAIN tree /\ h[x] < h[i]
      BY <1>4 DEF NodesTyped, Numbers
    <3>2. h[x] \in Nat /\ h[i] \in Nat /\ h[i] <= k
      BY <3>1, <1>4
    <3>3. h[x] <= k - 1
      BY <3>1, <3>2, <1>3
    <3> HIDE DEF g, x
    <3>4. x \in below
      BY <3>1, <3>3
    <3> QED BY <3>4, <1>10 DEF x
  <2> HIDE DEF g
  <2> QED BY <2>1
<1>12. g = [i \in now |-> ValueOf(i, [j \in DOMAIN tree[i].items |-> g[tree[i].items[j]]], keys, game)]
  <2>1. \A i \in now : vg[i] = [j \in DOMAIN tree[i].items |-> g[tree[i].items[j]]]
    OBVIOUS
  <2>2. \A i \in now : ValueOf(i, vf[i], keys, game) = ValueOf(i, [j \in DOMAIN tree[i].items |-> g[tree[i].items[j]]], keys, game)
    <3> HIDE DEF g, vf, vg, now
    <3> QED BY <2>1, <1>11
  <2>3. g = [i \in now |-> ValueOf(i, vf[i], keys, game)]
    BY SMTT(30)
  <2> HIDE DEF g, vf, vg, now
  <2> QED BY <2>2, <2>3
<1>13. Evaluates(g, k, h, keys, game)
  <2> HIDE DEF g
  <2> QED BY <1>12 DEF Evaluates
<1> QED BY <1>3, <1>13

\* A value of a filter that compares no texts, finds numbers under its keys, and has no bracket that is just a
\* call, is a number or an error.
LEMMA EvalIsProper ==
  ASSUME NodesTyped, NEW h, Numbers(h), NEW game, NEW v \in BrowserServers, NoTexts(v.keys)
  PROVE  Eval(v.keys, game) \in Proper
<1> DEFINE F == CHOOSE f : f = [i \in DOMAIN tree |->
                  ValueOf(i, [j \in DOMAIN tree[i].items |-> f[tree[i].items[j]]], v.keys, game)]
<1>0. Eval(v.keys, game) = F[1]
  BY DEF Eval
<1>1. DOMAIN tree = 1 .. Len(tree) /\ Len(tree) \in Nat /\ 1 \in DOMAIN tree
      /\ \A x \in DOMAIN tree : h[x] \in 1 .. Len(tree)
      /\ \A i \in DOMAIN tree : tree[i].items \in Seq(Nat)
  BY TreeIsTyped DEF Numbers
<1>2. {x \in DOMAIN tree : h[x] <= Len(tree)} = DOMAIN tree
  BY <1>1
<1>3. PICK f : Evaluates(f, Len(tree), h, v.keys, game)
  BY <1>1, EvaluationExists, SMTT(30)
<1>4. f = [i \in DOMAIN tree |-> ValueOf(i, [j \in DOMAIN tree[i].items |-> f[tree[i].items[j]]], v.keys, game)]
  BY <1>2, <1>3 DEF Evaluates
<1>5. F = [i \in DOMAIN tree |-> ValueOf(i, [j \in DOMAIN tree[i].items |-> F[tree[i].items[j]]], v.keys, game)]
  BY <1>4
<1> HIDE DEF F
<1> DEFINE bad == {n \in Nat : \E i \in DOMAIN tree : h[i] = n /\ F[i] \notin Proper}
<1>6. bad = {}
  <2> SUFFICES ASSUME bad # {} PROVE FALSE
    OBVIOUS
  <2>1. PICK n \in bad : \A k \in bad : n <= k
    <3>1. bad \in SUBSET Nat
      OBVIOUS
    <3> HIDE DEF bad
    <3> QED BY <3>1, Least
  <2>2. PICK i \in DOMAIN tree : h[i] = n /\ F[i] \notin Proper
    BY <2>1
  <2> DEFINE vs == [j \in DOMAIN tree[i].items |-> F[tree[i].items[j]]]
  <2>3. ASSUME NEW j \in DOMAIN tree[i].items PROVE F[tree[i].items[j]] \in Proper
    <3> DEFINE x == tree[i].items[j]
    <3>1. x \in DOMAIN tree /\ h[x] < h[i]
      BY <1>1 DEF NodesTyped, Numbers
    <3>2. h[x] \in Nat /\ h[i] \in Nat
      <4>1. \A y \in DOMAIN tree : h[y] \in Nat
        BY <1>1, SMTT(30)
      <4> HIDE DEF bad, x, vs
      <4> QED BY <3>1, <4>1
    <3>3. h[x] \notin bad
      <4> HIDE DEF bad, x
      <4> QED BY <2>1, <2>2, <3>1, <3>2
    <3> HIDE DEF x
    <3> QED BY <3>1, <3>2, <3>3 DEF x
  <2>4. vs \in Seq(Proper)
    <3>1. DOMAIN tree[i].items = 1 .. Len(tree[i].items) /\ Len(tree[i].items) \in Nat
      BY <1>1
    <3>2. vs \in [1 .. Len(tree[i].items) -> Proper]
      BY <2>3, <3>1
    <3> HIDE DEF vs
    <3> QED BY <3>1, <3>2
  <2>5. F[i] = ValueOf(i, vs, v.keys, game)
    BY <1>5
  <2>6. DOMAIN vs = DOMAIN tree[i].items
    OBVIOUS
  <2> HIDE DEF vs
  <2> QED BY <2>2, <2>4, <2>5, <2>6, ValueIsProper
<1>7. F[1] \in Proper
  BY <1>1, <1>6, SMTT(30)
<1> QED BY <1>0, <1>7

\* No filter takes the process down that compares no texts and in which no bracket, and not the whole, is just a
\* call, for servers with a number under every key: whatever the order of its tokens, and wherever it ends
\* (filter/eval.go, Eval).
THEOREM NumbersAreSafe == FilterSpec => []NumbersDoNotCrash
<1>1. TreeInv => NumbersDoNotCrash
  <2> SUFFICES ASSUME TreeInv, NEW v \in BrowserServers, NoTexts(v.keys)
               PROVE  Eval(v.keys, v.gamename) # Crash
    BY DEF NumbersDoNotCrash, NoTexts
  <2>1. Eval(v.keys, v.gamename) \in Proper
    BY EvalIsProper DEF TreeInv, Tree
  <2> QED BY <2>1, ProperValues
<1> QED BY <1>1, TreeInvariant, PTL
=============================================================================
