-------------------------- MODULE CmdPipelineProofs --------------------------
(***************************************************************************)
(* Theorems about CmdPipeline for every depth of the queues and the cache, *)
(* every number of ids, malformed requests and events: types, where an     *)
(* accepted command is, what the in-flight table says of it, and that no   *)
(* command whose trace is left is executed again.                          *)
(***************************************************************************)
EXTENDS CmdPipeline, Integers, SequenceTheorems, FiniteSetTheorems,
        WellFoundedInduction, TLAPS

(***************************************************************************)
(* The in-flight table as a ring.  Pos(h, i) is the slot of the i-th entry *)
(* from the newest when the next one goes to slot h; it is also the age of *)
(* the entry in slot i.                                                    *)
(***************************************************************************)
Pos(h, i) == (h + Depth - 1 - i) % Depth
Slots == 0 .. Depth - 1
Tables == [slots : [Slots -> 0 .. MaxIds], head : Slots, count : 0 .. Depth]

\* The depth of the table: room for two full queues and the command executed.
LEMMA DepthType == Depth \in Nat /\ Depth >= 3 /\ QueueDepth \in Nat /\ Depth = 2 * QueueDepth + 1
BY CmdAssumption DEF Depth

\* The remainder of an index that is at most one lap too large.
LEMMA ModDepth ==
  \A x \in 0 .. 2 * Depth - 1 : x % Depth = IF x < Depth THEN x ELSE x - Depth
<1> SUFFICES ASSUME NEW x \in 0 .. 2 * Depth - 1
             PROVE  x % Depth = IF x < Depth THEN x ELSE x - Depth
  OBVIOUS
<1>1. Depth \in Nat /\ Depth > 0
  BY DepthType
<1>2. CASE x < Depth
  BY <1>1, <1>2
<1>3. CASE x >= Depth
  BY <1>1, <1>3
<1>4. QED BY <1>1, <1>2, <1>3

\* The slot of an age, without the remainder.
LEMMA PosValue ==
  ASSUME NEW h \in Slots, NEW i \in Slots
  PROVE  /\ Pos(h, i) = IF i < h THEN h - 1 - i ELSE h + Depth - 1 - i
         /\ Pos(h, i) \in Slots
<1>1. Depth \in Nat /\ Depth > 0
  BY DepthType
<1> DEFINE x == h + Depth - 1 - i
<1>2. x \in 0 .. 2 * Depth - 1
  BY <1>1 DEF Slots
<1> HIDE DEF x
<1>3. x % Depth = IF x < Depth THEN x ELSE x - Depth
  BY <1>2, ModDepth
<1>4. Pos(h, i) = IF x < Depth THEN x ELSE x - Depth
  BY <1>3, Zenon DEF Pos, x
<1>5. QED BY <1>1, <1>4 DEF Slots, x

\* The slot of an age and the age of a slot are each other's inverse.
LEMMA PosInverse ==
  ASSUME NEW h \in Slots, NEW i \in Slots
  PROVE  Pos(h, Pos(h, i)) = i
<1>1. Depth \in Nat /\ Depth > 0
  BY DepthType
<1>2. /\ Pos(h, i) = IF i < h THEN h - 1 - i ELSE h + Depth - 1 - i
      /\ Pos(h, i) \in Slots
  BY PosValue
<1>3. Pos(h, Pos(h, i)) = IF Pos(h, i) < h THEN h - 1 - Pos(h, i)
                          ELSE h + Depth - 1 - Pos(h, i)
  BY <1>2, PosValue
<1>4. QED BY <1>1, <1>2, <1>3 DEF Slots

\* The slot after the head, the slot before it, and what is where then.
LEMMA PosAround ==
  ASSUME NEW h \in Slots
  PROVE  /\ (h + 1) % Depth \in Slots /\ (h + Depth - 1) % Depth \in Slots
         /\ Pos((h + 1) % Depth, 0) = h
         /\ Pos(h, Depth - 1) = h
         /\ \A i \in 0 .. Depth - 2 :
              /\ Pos((h + 1) % Depth, i + 1) = Pos(h, i)
              /\ Pos((h + Depth - 1) % Depth, i) = Pos(h, i + 1)
              /\ (Pos(h, i + 1) + 1) % Depth = Pos(h, i)
              /\ Pos(h, i) # h
<1>1. Depth \in Nat /\ Depth >= 3 /\ 0 \in Slots /\ Depth - 1 \in Slots
  BY DepthType DEF Slots
<1> DEFINE u == (h + 1) % Depth
           d == (h + Depth - 1) % Depth
<1>2. /\ u = IF h + 1 < Depth THEN h + 1 ELSE h + 1 - Depth
      /\ d = IF h + Depth - 1 < Depth THEN h + Depth - 1 ELSE h + Depth - 1 - Depth
  <2> DEFINE x == h + 1
             y == h + Depth - 1
  <2>1. x \in 0 .. 2 * Depth - 1 /\ y \in 0 .. 2 * Depth - 1
    BY <1>1 DEF Slots
  <2> HIDE DEF x, y
  <2>2. /\ x % Depth = IF x < Depth THEN x ELSE x - Depth
        /\ y % Depth = IF y < Depth THEN y ELSE y - Depth
    BY <2>1, ModDepth
  <2>3. u = x % Depth /\ d = y % Depth
    BY Zenon DEF x, y
  <2> HIDE DEF u, d
  <2>4. /\ u = IF x < Depth THEN x ELSE x - Depth
        /\ d = IF y < Depth THEN y ELSE y - Depth
    BY <2>2, <2>3
  <2>5. QED BY <1>1, <2>1, <2>4 DEF x, y, Slots
<1>3. u \in Slots /\ d \in Slots
  BY <1>1, <1>2 DEF Slots
<1> HIDE DEF u, d
<1>4. Pos(u, 0) = h /\ Pos(h, Depth - 1) = h
  <2>1. Pos(u, 0) = IF 0 < u THEN u - 1 - 0 ELSE u + Depth - 1 - 0
    BY <1>1, <1>3, PosValue
  <2>2. Pos(h, Depth - 1) = IF Depth - 1 < h THEN h - 1 - (Depth - 1)
                            ELSE h + Depth - 1 - (Depth - 1)
    BY <1>1, PosValue
  <2>3. QED BY <1>1, <1>2, <2>1, <2>2 DEF Slots
<1>5. ASSUME NEW i \in 0 .. Depth - 2
      PROVE  /\ Pos(u, i + 1) = Pos(h, i) /\ Pos(d, i) = Pos(h, i + 1)
             /\ (Pos(h, i + 1) + 1) % Depth = Pos(h, i)
             /\ Pos(h, i) # h
  <2>1. i \in Slots /\ i + 1 \in Slots
    BY <1>1 DEF Slots
  <2>2. /\ Pos(h, i) = IF i < h THEN h - 1 - i ELSE h + Depth - 1 - i
        /\ Pos(h, i) \in Slots
    BY <2>1, PosValue
  <2>3. /\ Pos(h, i + 1) = IF i + 1 < h THEN h - 1 - (i + 1) ELSE h + Depth - 1 - (i + 1)
        /\ Pos(h, i + 1) \in Slots
    BY <2>1, PosValue
  <2>4. Pos(u, i + 1) = IF i + 1 < u THEN u - 1 - (i + 1) ELSE u + Depth - 1 - (i + 1)
    BY <1>3, <2>1, PosValue
  <2>5. Pos(d, i) = IF i < d THEN d - 1 - i ELSE d + Depth - 1 - i
    BY <1>3, <2>1, PosValue
  <2> DEFINE x == Pos(h, i + 1) + 1
  <2>6. x \in 0 .. 2 * Depth - 1
    BY <1>1, <2>3 DEF Slots
  <2> HIDE DEF x
  <2>7. x % Depth = IF x < Depth THEN x ELSE x - Depth
    BY <2>6, ModDepth
  <2>8. Pos(u, i + 1) = Pos(h, i)
    BY <1>1, <1>2, <2>2, <2>4 DEF Slots
  <2>9. Pos(d, i) = Pos(h, i + 1)
    BY <1>1, <1>2, <2>3, <2>5 DEF Slots
  <2>10. (Pos(h, i + 1) + 1) % Depth = Pos(h, i)
    <3>1. (IF x < Depth THEN x ELSE x - Depth) = Pos(h, i)
      BY <1>1, <2>2, <2>3 DEF Slots, x
    <3>2. x % Depth = Pos(h, i)
      BY <2>7, <3>1
    <3>3. QED BY <3>2, Zenon DEF x
  <2>11. Pos(h, i) # h
    BY <1>1, <2>2 DEF Slots
  <2>12. QED BY <2>8, <2>9, <2>10, <2>11
<1>6. QED BY <1>3, <1>4, <1>5 DEF u, d

\* An entry of the table is what the slot of its age holds.
LEMMA EntryPos == \A i : Entry(i) = table.slots[Pos(table.head, i)]
BY DEF Entry, Pos

\* Whatever gap is closed, the table stays a table.
LEMMA ClosedType ==
  ASSUME table \in Tables, NEW i
  PROVE  /\ Closed(i) \in Tables
         /\ Closed(i).count = IF table.count > 0 THEN table.count - 1 ELSE 0
<1>1. /\ Depth \in Nat /\ table.slots \in [Slots -> 0 .. MaxIds]
      /\ table.head \in Slots /\ table.count \in 0 .. Depth /\ 0 \in 0 .. MaxIds
  BY DepthType, CmdAssumption DEF Tables
<1>2. Shifted(i) \in [Slots -> 0 .. MaxIds]
  <2>1. \A k \in Slots : (k + 1) % Depth \in Slots
    BY PosAround
  <2>2. QED BY <1>1, <2>1 DEF Shifted, Slots, NoId
<1>3. (table.head + Depth - 1) % Depth \in Slots
  BY <1>1, PosAround
<1>4. (IF table.count > 0 THEN table.count - 1 ELSE 0) \in 0 .. Depth
  BY <1>1
<1>5. QED BY <1>2, <1>3, <1>4 DEF Closed, Tables

\* Closing the gap at an entry removes that entry and no other.
LEMMA ClosedEntries ==
  ASSUME table \in Tables, NEW i \in 0 .. table.count - 1, table' = Closed(i)
  PROVE  /\ table'.count = table.count - 1
         /\ \A j \in 0 .. table.count - 2 :
              Entry(j)' = IF j < i THEN Entry(j) ELSE Entry(j + 1)
<1>1. /\ Depth \in Nat /\ table.slots \in [Slots -> 0 .. MaxIds]
      /\ table.head \in Slots /\ table.count \in 0 .. Depth
  BY DepthType DEF Tables
<1>2. /\ table'.slots = Shifted(i) /\ table'.head = (table.head + Depth - 1) % Depth
      /\ table'.count = table.count - 1
  BY <1>1 DEF Closed
<1>3. ASSUME NEW j \in 0 .. table.count - 2
      PROVE  Entry(j)' = IF j < i THEN Entry(j) ELSE Entry(j + 1)
  <2> DEFINE k == Pos(table.head, j + 1)
  <2>1. j \in 0 .. Depth - 2 /\ j + 1 \in Slots
    BY <1>1 DEF Slots
  <2>2. /\ Pos((table.head + Depth - 1) % Depth, j) = k
        /\ (k + 1) % Depth = Pos(table.head, j)
    BY <1>1, <2>1, PosAround
  <2>3. k \in Slots /\ Pos(table.head, k) = j + 1
    BY <1>1, <2>1, PosValue, PosInverse
  <2>4. Entry(j)' = Shifted(i)[k]
    BY <1>2, <2>2 DEF Entry, Pos
  <2> HIDE DEF k
  <2>5. Shifted(i)[k] = IF j + 1 = 0 THEN NoId
                        ELSE IF j + 1 <= i THEN table.slots[(k + 1) % Depth]
                        ELSE table.slots[k]
    BY <2>3 DEF Shifted, Slots, Pos
  <2>6. Entry(j) = table.slots[(k + 1) % Depth] /\ Entry(j + 1) = table.slots[k]
    BY <2>2, EntryPos DEF k
  <2>7. QED BY <1>1, <2>4, <2>5, <2>6
<1>4. QED BY <1>2, <1>3

\* A new entry is the newest; the others are one place older.
LEMMA AddedEntries ==
  ASSUME table \in Tables, table.count < Depth,
         table' = [table EXCEPT !.head = (@ + 1) % Depth, !.count = @ + 1]
  PROVE  /\ table' \in Tables /\ table'.count = table.count + 1
         /\ Entry(0)' = table.slots[table.head]
         /\ \A j \in 0 .. table.count - 1 : Entry(j + 1)' = Entry(j)
<1>1. /\ Depth \in Nat /\ table.slots \in [Slots -> 0 .. MaxIds]
      /\ table.head \in Slots /\ table.count \in 0 .. Depth
  BY DepthType DEF Tables
<1>2. /\ table'.slots = table.slots /\ table'.head = (table.head + 1) % Depth
      /\ table'.count = table.count + 1
  BY DEF Tables
<1>3. (table.head + 1) % Depth \in Slots /\ Pos((table.head + 1) % Depth, 0) = table.head
  BY <1>1, PosAround
<1>4. table' \in Tables
  <2>1. table.count + 1 \in 0 .. Depth
    BY <1>1
  <2>2. table' = [slots |-> table.slots, head |-> (table.head + 1) % Depth,
                  count |-> table.count + 1]
    BY DEF Tables
  <2>3. QED BY <1>1, <1>3, <2>1, <2>2 DEF Tables
<1>5. Entry(0)' = table.slots[table.head]
  BY <1>2, <1>3 DEF Entry, Pos
<1>6. ASSUME NEW j \in 0 .. table.count - 1
      PROVE  Entry(j + 1)' = Entry(j)
  <2>1. j \in 0 .. Depth - 2
    BY <1>1
  <2>2. Pos((table.head + 1) % Depth, j + 1) = Pos(table.head, j)
    BY <1>1, <2>1, PosAround
  <2>3. QED BY <1>2, <2>2 DEF Entry, Pos
<1>7. QED BY <1>2, <1>4, <1>5, <1>6

\* The slot of the next entry is free to write: no entry is in it.
LEMMA HeadIsFree ==
  ASSUME table \in Tables, table.count < Depth, NEW x \in 0 .. MaxIds,
         table' = [table EXCEPT !.slots[table.head] = x]
  PROVE  /\ table' \in Tables /\ table'.count = table.count /\ table'.head = table.head
         /\ table'.slots[table'.head] = x
         /\ \A j \in 0 .. table.count - 1 : Entry(j)' = Entry(j)
<1>1. /\ Depth \in Nat /\ table.slots \in [Slots -> 0 .. MaxIds]
      /\ table.head \in Slots /\ table.count \in 0 .. Depth
  BY DepthType DEF Tables
<1>2. /\ table'.slots = [table.slots EXCEPT ![table.head] = x]
      /\ table'.head = table.head /\ table'.count = table.count
  BY DEF Tables
<1>3. table' \in Tables
  BY <1>1 DEF Tables
<1>4. ASSUME NEW j \in 0 .. table.count - 1
      PROVE  Entry(j)' = Entry(j)
  <2>1. j \in 0 .. Depth - 2 /\ j \in Slots
    BY <1>1 DEF Slots
  <2>2. Pos(table.head, j) # table.head /\ Pos(table.head, j) \in Slots
    BY <1>1, <2>1, PosAround, PosValue
  <2>3. table'.slots[Pos(table.head, j)] = table.slots[Pos(table.head, j)]
    BY <1>1, <1>2, <2>2
  <2>4. QED BY <1>2, <2>3 DEF Entry, Pos
<1>5. QED BY <1>1, <1>2, <1>3, <1>4

(***************************************************************************)
(* Queues of ids: what taking the head and appending do to an id in them.  *)
(***************************************************************************)
Has(q, id) == \E i \in 1 .. Len(q) : q[i] = id
Once(q, id) == \A i, j \in 1 .. Len(q) : q[i] = id /\ q[j] = id => i = j

\* Taking the head of a queue takes that id once, and no other.
LEMMA TailQueue ==
  ASSUME NEW S, NEW q \in Seq(S), q # <<>>
  PROVE  /\ Head(q) \in S /\ Tail(q) \in Seq(S) /\ Len(Tail(q)) = Len(q) - 1
         /\ \A id : /\ Has(q, id) <=> id = Head(q) \/ Has(Tail(q), id)
                    /\ Once(q, id) => /\ Once(Tail(q), id)
                                      /\ id = Head(q) => ~Has(Tail(q), id)
<1>1. /\ Head(q) \in S /\ Tail(q) \in Seq(S) /\ Len(Tail(q)) = Len(q) - 1
      /\ Head(q) = q[1] /\ Len(q) \in Nat \ {0}
      /\ \A i \in 1 .. Len(Tail(q)) : Tail(q)[i] = q[i + 1]
  BY HeadTailProperties
<1>2. ASSUME NEW id
      PROVE  Has(q, id) <=> id = Head(q) \/ Has(Tail(q), id)
  <2>1. ASSUME NEW i \in 1 .. Len(q), q[i] = id
        PROVE  id = Head(q) \/ Has(Tail(q), id)
    <3>1. CASE i = 1
      BY <1>1, <2>1, <3>1
    <3>2. CASE i # 1
      <4>1. i - 1 \in 1 .. Len(Tail(q)) /\ (i - 1) + 1 = i
        BY <1>1, <3>2
      <4>2. QED BY <1>1, <2>1, <4>1 DEF Has
    <3>3. QED BY <3>1, <3>2
  <2>2. ASSUME id = Head(q) PROVE Has(q, id)
    BY <1>1, <2>2 DEF Has
  <2>3. ASSUME NEW i \in 1 .. Len(Tail(q)), Tail(q)[i] = id
        PROVE  Has(q, id)
    <3>1. i + 1 \in 1 .. Len(q)
      BY <1>1
    <3>2. QED BY <1>1, <2>3, <3>1 DEF Has
  <2>4. QED BY <2>1, <2>2, <2>3 DEF Has
<1>3. ASSUME NEW id, Once(q, id)
      PROVE  Once(Tail(q), id) /\ (id = Head(q) => ~Has(Tail(q), id))
  <2>1. ASSUME NEW i \in 1 .. Len(Tail(q)), NEW j \in 1 .. Len(Tail(q)),
               Tail(q)[i] = id, Tail(q)[j] = id
        PROVE  i = j
    <3>1. i + 1 \in 1 .. Len(q) /\ j + 1 \in 1 .. Len(q)
      BY <1>1
    <3>2. i + 1 = j + 1
      BY <1>1, <1>3, <2>1, <3>1 DEF Once
    <3>3. QED BY <1>1, <3>2
  <2>2. ASSUME NEW i \in 1 .. Len(Tail(q)), Tail(q)[i] = id, id = Head(q)
        PROVE  FALSE
    <3>1. i + 1 \in 1 .. Len(q) /\ 1 \in 1 .. Len(q) /\ i + 1 # 1
      BY <1>1
    <3>2. QED BY <1>1, <1>3, <2>2, <3>1 DEF Once
  <2>3. QED BY <2>1, <2>2 DEF Once, Has
<1>4. QED BY <1>1, <1>2, <1>3

\* Appending an id adds that id, and no other.
LEMMA AppendQueue ==
  ASSUME NEW S, NEW q \in Seq(S), NEW x \in S
  PROVE  /\ Append(q, x) \in Seq(S) /\ Len(Append(q, x)) = Len(q) + 1
         /\ \A id : /\ Has(Append(q, x), id) <=> id = x \/ Has(q, id)
                    /\ Once(q, id) /\ (id = x => ~Has(q, id)) => Once(Append(q, x), id)
<1>1. /\ Append(q, x) \in Seq(S) /\ Len(Append(q, x)) = Len(q) + 1
      /\ \A i \in 1 .. Len(q) : Append(q, x)[i] = q[i]
      /\ Append(q, x)[Len(q) + 1] = x /\ Len(q) \in Nat
  BY AppendProperties
<1>2. \A i \in 1 .. Len(Append(q, x)) : i \in 1 .. Len(q) \/ i = Len(q) + 1
  BY <1>1
<1>3. 1 .. Len(q) \subseteq 1 .. Len(Append(q, x)) /\ Len(q) + 1 \in 1 .. Len(Append(q, x))
  BY <1>1
<1>4. ASSUME NEW id
      PROVE  Has(Append(q, x), id) <=> id = x \/ Has(q, id)
  BY <1>1, <1>2, <1>3 DEF Has
<1>5. ASSUME NEW id, Once(q, id), id = x => ~Has(q, id)
      PROVE  Once(Append(q, x), id)
  <2>1. ASSUME NEW i \in 1 .. Len(Append(q, x)), NEW j \in 1 .. Len(Append(q, x)),
               Append(q, x)[i] = id, Append(q, x)[j] = id
        PROVE  i = j
    <3>1. CASE i \in 1 .. Len(q) /\ j \in 1 .. Len(q)
      BY <1>1, <1>5, <2>1, <3>1 DEF Once
    <3>2. CASE i \in 1 .. Len(q) /\ j = Len(q) + 1
      BY <1>1, <1>5, <2>1, <3>2 DEF Has
    <3>3. CASE i = Len(q) + 1 /\ j \in 1 .. Len(q)
      BY <1>1, <1>5, <2>1, <3>3 DEF Has
    <3>4. QED BY <1>2, <3>1, <3>2, <3>3
  <2>2. QED BY <2>1 DEF Once
<1>6. QED BY <1>1, <1>4, <1>5

(***************************************************************************)
(* The response cache.                                                     *)
(***************************************************************************)
Real == [id : Ids, sound : BOOLEAN]
CacheType(q) == q \in Seq(Messages) /\ \A i \in 1 .. Len(q) : q[i] \in Real

\* A response that is put into the cache is its newest; it keeps to its depth.
LEMMA CachePutKeeps ==
  ASSUME CacheType(cache), Len(cache) <= CacheDepth, NEW r \in Real, r \in Messages
  PROVE  /\ CacheType(CachePut(r)) /\ Len(CachePut(r)) \in 1 .. CacheDepth
         /\ CachePut(r)[1] = r
<1> DEFINE c == <<r>> \o cache
           n == IF Len(cache) < CacheDepth THEN Len(cache) + 1 ELSE CacheDepth
<1>1. <<r>> \in Seq(Messages) /\ Len(<<r>>) = 1 /\ <<r>>[1] = r /\ cache \in Seq(Messages)
      /\ Len(cache) \in Nat
  BY DEF CacheType
<1>2. c \in Seq(Messages) /\ Len(c) = Len(cache) + 1
      /\ \A i \in 1 .. Len(c) : c[i] = IF i <= 1 THEN <<r>>[i] ELSE cache[i - 1]
  BY <1>1, ConcatProperties
<1>3. \A i \in 1 .. Len(c) : c[i] \in Real
  <2>1. ASSUME NEW i \in 1 .. Len(c), i > 1 PROVE i - 1 \in 1 .. Len(cache)
    BY <1>1, <1>2, <2>1
  <2>2. QED BY <1>1, <1>2, <2>1 DEF CacheType
<1>4. n \in 1 .. CacheDepth /\ n <= Len(c) /\ CacheDepth \in Nat
  BY <1>1, <1>2, CmdAssumption
<1>5. c[1] = r
  BY <1>1, <1>2
<1> HIDE DEF c, n
<1>6. /\ SubSeq(c, 1, n) \in Seq(Messages) /\ Len(SubSeq(c, 1, n)) = n
      /\ \A i \in 1 .. n : SubSeq(c, 1, n)[i] = c[i]
  <2>1. \A i \in 1 .. n : c[i] \in Messages
    BY <1>2, <1>4, ElementOfSeq
  <2>2. \A i \in 1 .. n : c[1 + i - 1] = c[i]
    BY <1>4
  <2>3. n - 1 + 1 = n /\ 1 <= n
    BY <1>4
  <2>4. QED BY <1>2, <1>4, <2>1, <2>2, <2>3, SubSeqProperties
<1>7. CachePut(r) = SubSeq(c, 1, n)
  BY DEF CachePut, c, n
<1>8. \A i \in 1 .. n : i \in 1 .. Len(c)
  BY <1>2, <1>4, <1>1
<1>9. QED BY <1>3, <1>4, <1>5, <1>6, <1>7, <1>8 DEF CacheType

\* An executed command is in the cache as before, or is named as evicted.
LEMMA EvictedNamed ==
  ASSUME NEW r, NEW id \in ran, Cached(id), cache' = CachePut(r)
  PROVE  Cached(id)' \/ id \in Evicted(r)
BY DEF Cached, Evicted

\* The cached response to an id is one of the cache.
LEMMA HitCached ==
  ASSUME CacheType(cache), NEW id, Cached(id)
  PROVE  Hit(id) \in Real /\ Hit(id).id = id
<1> DEFINE T == {i \in 1 .. Len(cache) : cache[i].id = id}
<1>1. T \subseteq Nat /\ T # {}
  BY DEF Cached
<1>2. PICK R : /\ IsWellFoundedOn(R, Nat)
               /\ R = {ss \in Nat \X Nat : ss[1] < ss[2]}
  <2>1. IsWellFoundedOn(OpToRel(<, Nat), Nat)
    BY NatLessThanWellFounded, Zenon
  <2>2. OpToRel(<, Nat) = {ss \in Nat \X Nat : ss[1] < ss[2]}
    BY Zenon DEF OpToRel
  <2>3. QED BY <2>1, <2>2, Zenon
<1>3. PICK i \in T : \A j \in T : ~(<<j, i>> \in R)
  BY <1>1, <1>2, WFMin
<1>4. \A j \in 1 .. i - 1 : cache[j].id # id
  <2>1. ASSUME NEW j \in 1 .. i - 1, cache[j].id = id PROVE FALSE
    <3>1. j \in T /\ j < i /\ <<j, i>> \in Nat \X Nat
      BY <2>1 DEF CacheType
    <3>2. <<j, i>>[1] = j /\ <<j, i>>[2] = i
      OBVIOUS
    <3>3. <<j, i>> \in R
      BY <1>2, <3>1, <3>2, Zenon
    <3>4. QED BY <1>3, <3>1, <3>3, Zenon
  <2>2. QED BY <2>1
<1>5. Hit(id) \in {cache[k] : k \in T}
  BY <1>3, <1>4 DEF Hit
<1>6. QED BY <1>5 DEF CacheType

(***************************************************************************)
(* The parts of TypeOK, and what makes them inductive: what mqtt_gw_task   *)
(* has in its hands at each place of its program.                          *)
(***************************************************************************)
PCs == {"connect", "online", "subscribe", "top", "hangup", "flush", "wait",
        "responses", "publish", "find", "close", "raw", "cached", "error",
        "check", "add", "enqueue", "undo", "closeUndo"}
Requesting == {"raw", "cached", "error", "check", "add", "enqueue", "undo", "closeUndo"}
Accepting == {"check", "add", "enqueue", "undo", "closeUndo"}
Answering == {"publish", "find", "close"}

Flags ==
  /\ started \in BOOLEAN /\ link \in BOOLEAN /\ listening \in BOOLEAN
  /\ lost \in BOOLEAN /\ pendingDisc \in BOOLEAN /\ online \in BOOLEAN
  /\ subscribed \in BOOLEAN /\ raced \in BOOLEAN
Counts == fails \in 0 .. FailLimit /\ events \in 0 .. MaxEvents /\ seen \in 0 .. MaxIds
QueueTypes ==
  /\ raw \in Seq(Real) /\ Len(raw) <= QueueDepth
  /\ requests \in Seq(Ids) /\ Len(requests) <= QueueDepth
  /\ responses \in Seq(Ids) /\ Len(responses) <= QueueDepth
  /\ executing \in 0 .. MaxIds
TableTypes == table \in Tables /\ scan \in 0 .. Depth
CacheTypes == CacheType(cache) /\ Len(cache) <= CacheDepth
History == ran \subseteq Ids /\ forgotten \subseteq Ids
Control ==
  /\ pc \in PCs
  /\ hand \in Real \union {Nothing} /\ pending \in Real \union {Nothing}
  /\ pc \in Requesting => pending = Nothing
  /\ pc \in Answering => pending \in {Nothing, hand}
  /\ pc \in (Requesting \ {"raw"}) \union Answering => hand \in Real
  /\ pc \in Accepting => hand.sound = TRUE
  /\ pc = "error" => hand.sound = FALSE
  /\ pc = "add" => table.count < Depth
Types == /\ Flags /\ Counts /\ QueueTypes /\ TableTypes /\ CacheTypes
         /\ History /\ Control

\* Requests and responses with a real id are messages; Nothing is one too.
LEMMA RealMessages == Real \subseteq Messages /\ Nothing \in Messages /\ Nothing \notin Real
BY CmdAssumption DEF Real, Messages, Nothing, NoId, Ids

\* The types are what TypeOK says.
LEMMA TypesMean == Types => TypeOK
<1> SUFFICES ASSUME Types PROVE TypeOK
  OBVIOUS
<1>1. {started, link, listening, lost, pendingDisc, online, subscribed, raced} \subseteq BOOLEAN
  BY DEF Types, Flags
<1>2. raw \in Seq(Messages)
  <2>1. Seq(Real) \subseteq Seq(Messages)
    BY RealMessages
  <2>2. QED BY <2>1 DEF Types, QueueTypes
<1>3. \A n \in {Len(raw), Len(requests), Len(responses)} : n <= QueueDepth
  BY DEF Types, QueueTypes
<1>4. hand \in Messages /\ pending \in Messages
  BY RealMessages DEF Types, Control
<1>5. cache \in Seq(Messages) /\ Len(cache) <= CacheDepth
  BY DEF Types, CacheTypes, CacheType
<1>6. QED BY <1>1, <1>2, <1>3, <1>4, <1>5 DEF Types, TypeOK, Counts, QueueTypes,
             TableTypes, Tables, Slots, History

\* The types hold at the start.
LEMMA TypesInit == Init => Types
<1> SUFFICES ASSUME Init PROVE Types
  OBVIOUS
<1>1. Flags
  BY DEF Init, Flags
<1>2. Counts /\ History
  BY CmdAssumption DEF Init, Counts, History
<1>3. QueueTypes
  BY CmdAssumption DEF Init, QueueTypes, NoId
<1>4. TableTypes
  <2>1. [k \in 0 .. Depth - 1 |-> NoId] \in [Slots -> 0 .. MaxIds]
    BY CmdAssumption DEF Slots, NoId
  <2>2. QED BY <2>1, DepthType DEF Init, TableTypes, Tables, Slots
<1>5. CacheTypes
  BY CmdAssumption DEF Init, CacheTypes, CacheType
<1>6. Control
  BY DEF Init, Control, PCs, Requesting, Answering, Accepting
<1>7. QED BY <1>1, <1>2, <1>3, <1>4, <1>5, <1>6 DEF Types

\* What a step that touches no command does to the command path: nothing, but
\* for where mqtt_gw_task is.
Still == UNCHANGED <<hand, scan, pending, table, cache, forgotten, requests,
                     executing, responses, ran, raced>>
Idle ==
  \/ LinkDown \/ DisconnectCallback \/ MessageCallback \/ Session \/ Flush
  \/ ResponsesDone \/ RawDone \/ AnswerCached \/ CheckHit \/ Wait
Resting == {"connect", "online", "subscribe", "top", "hangup", "flush", "wait", "responses", "raw"}

\* Steps of the session, of a wait or of an end leave the command path alone.
LEMMA IdleFrame ==
  ASSUME Control, Idle
  PROVE  /\ Still
         /\ \/ pc' = pc
            \/ pc \in Resting \union {"check", "cached"} /\ pc' \in Resting
         /\ pc' = "raw" => pending = Nothing
<1> USE DEF Still, command, memory, queues, Goto, Resting, Control, Requesting
<1>1. CASE LinkDown \/ DisconnectCallback
  BY <1>1 DEF LinkDown, DisconnectCallback
<1>2. CASE MessageCallback
  BY <1>2 DEF MessageCallback
<1>3. CASE Session
  <2>1. CASE Top BY <2>1 DEF Top
  <2>2. CASE HangUp \/ ConnectFails BY <2>2 DEF HangUp, ConnectFails
  <2>3. CASE Connected \/ SetOnline \/ Subscribe
    BY <2>3 DEF Connected, SetOnline, Subscribe
  <2>4. QED BY <1>3, <2>1, <2>2, <2>3 DEF Session
<1>4. CASE Flush
  BY <1>4 DEF Flush, AfterFlush
<1>5. CASE ResponsesDone
  BY <1>5 DEF ResponsesDone
<1>6. CASE RawDone \/ AnswerCached \/ CheckHit \/ Wait
  BY <1>6 DEF RawDone, AnswerCached, CheckHit, Wait
<1>7. QED BY <1>1, <1>2, <1>3, <1>4, <1>5, <1>6 DEF Idle

\* The session's flags stay flags and its counters within their bounds.
LEMMA FlagsStep ==
  ASSUME Flags, Counts, [Next]_vars
  PROVE  Flags' /\ Counts'
<1> USE DEF Flags, Counts
<1>1. ASSUME PublishOk \/ PublishFails \/ UNCHANGED publishing
      PROVE  pendingDisc' \in BOOLEAN /\ fails' \in 0 .. FailLimit /\ events' \in 0 .. MaxEvents
  <2>1. CASE PublishOk
    BY <2>1, CmdAssumption DEF PublishOk
  <2>2. CASE NotConnected
    <3>1. pendingDisc' = TRUE \/ pendingDisc' = pendingDisc
      BY <2>2, Zenon DEF NotConnected
    <3>2. QED BY <2>2, <3>1 DEF NotConnected
  <2>3. CASE PublishFail
    <3>1. pendingDisc' \in BOOLEAN
      <4>1. pendingDisc' = TRUE \/ pendingDisc' = FALSE
        BY <2>3, Zenon DEF PublishFail
      <4>2. QED BY <4>1
    <3>2. fails' = IF fails < FailLimit THEN fails + 1 ELSE fails
      BY <2>3 DEF PublishFail
    <3>3. events' = events \/ (events < MaxEvents /\ events' = events + 1)
      BY <2>3 DEF PublishFail, Event
    <3>4. QED BY <3>1, <3>2, <3>3, CmdAssumption
  <2>4. CASE UNCHANGED publishing
    BY <2>4 DEF publishing
  <2>5. CASE PublishError
    <3>1. events' = events + 1 /\ events < MaxEvents /\ UNCHANGED <<fails, pendingDisc>>
      BY <2>5 DEF PublishError, Event
    <3>2. QED BY <3>1, CmdAssumption
  <2>6. QED BY <1>1, <2>1, <2>2, <2>3, <2>4, <2>5 DEF PublishFails
<1>2. CASE UNCHANGED vars
  BY <1>2 DEF vars, session, publishing
<1>3. CASE LinkDown \/ DisconnectCallback
  <2>1. CASE LinkDown
    <3>1. events' \in 0 .. MaxEvents
      BY <2>1, CmdAssumption DEF LinkDown, Event
    <3>2. /\ started' = started /\ link' = FALSE /\ listening' = FALSE /\ lost' = TRUE
          /\ pendingDisc' = pendingDisc /\ online' = online /\ subscribed' = subscribed
          /\ raced' = raced /\ fails' = fails /\ seen' = seen
      BY <2>1, Zenon DEF LinkDown
    <3>3. QED BY <3>1, <3>2
  <2>2. CASE DisconnectCallback
    BY <2>2 DEF DisconnectCallback, NotesDisconnect
  <2>3. QED BY <1>3, <2>1, <2>2
<1>4. CASE MessageCallback
  <2>1. seen' \in 0 .. MaxIds
    <3>1. PICK id \in 1 .. (IF seen < MaxIds THEN seen + 1 ELSE seen) :
            seen' = IF id > seen THEN id ELSE seen
      BY <1>4, Zenon DEF MessageCallback
    <3>2. QED BY <3>1, CmdAssumption
  <2>2. events' \in 0 .. MaxEvents
    BY <1>4, CmdAssumption DEF MessageCallback, Event
  <2>3. QED BY <1>4, <2>1, <2>2 DEF MessageCallback, session
<1>5. CASE Session
  <2>1. CASE Top
    <3>1. online' = FALSE \/ online' = online
      BY <2>1, Zenon DEF Top
    <3>2. subscribed' = FALSE \/ subscribed' = subscribed
      BY <2>1, Zenon DEF Top
    <3>3. QED BY <2>1, <3>1, <3>2 DEF Top
  <2>2. CASE HangUp \/ ConnectFails
    BY <2>2 DEF HangUp, ConnectFails, session, publishing
  <2>3. CASE Connected \/ SetOnline
    BY <2>3 DEF Connected, SetOnline, publishing
  <2>4. CASE Subscribe
    <3>1. subscribed' = TRUE \/ subscribed' = subscribed
      BY <2>4, Zenon DEF Subscribe
    <3>2. QED BY <2>4, <3>1 DEF Subscribe, publishing
  <2>5. QED BY <1>5, <2>1, <2>2, <2>3, <2>4 DEF Session
<1>6. CASE Flush
  BY <1>1, <1>6 DEF Flush, session
<1>7. CASE Responses
  BY <1>1, <1>7 DEF Responses, RetryPending, TakeResponse, ResponsesDone, Answer, session
<1>8. CASE Requests
  <2>1. CASE RawDone \/ TakeRaw \/ AnswerCached \/ AnswerError
    BY <1>1, <2>1 DEF RawDone, TakeRaw, AnswerCached, AnswerError, session
  <2>2. CASE CheckHit \/ AddRefused \/ AddSlot \/ AddEntry \/ Enqueue \/ EnqueueFull
    BY <2>2 DEF CheckHit, AddRefused, AddSlot, AddEntry, Enqueue, EnqueueFull, session, publishing
  <2>3. QED BY <1>8, <2>1, <2>2 DEF Requests
<1>9. CASE Remove \/ Wait
  BY <1>9 DEF Remove, Wait, Look, Found, NotFound, Close, session, publishing
<1>10. CASE Poll
  <2>1. CASE DropResponse
    <3>1. raced' = TRUE \/ raced' = raced
      BY <2>1, Zenon DEF DropResponse
    <3>2. QED BY <2>1, <3>1 DEF DropResponse, session, publishing
  <2>2. CASE Execute \/ Respond
    BY <2>2 DEF Execute, Respond, session, publishing
  <2>3. QED BY <1>10, <2>1, <2>2 DEF Poll
<1>11. QED BY <1>2, <1>3, <1>4, <1>5, <1>6, <1>7, <1>8, <1>9, <1>10 DEF Next, Mqtt

\* What is put into a queue is an id, or a message with one, and there is room.
LEMMA QueueStep ==
  ASSUME Types, [Next]_vars
  PROVE  QueueTypes'
<1>0. QueueTypes /\ Control /\ Counts
  BY DEF Types
<1> USE DEF QueueTypes
<1>1. CASE UNCHANGED vars
  BY <1>0, <1>1 DEF vars, command, queues
<1>2. CASE Idle
  <2>1. requests' = requests /\ responses' = responses /\ executing' = executing
    BY <1>0, <1>2, IdleFrame DEF Still
  <2>2. CASE MessageCallback
    <3>1. PICK id \in 1 .. (IF seen < MaxIds THEN seen + 1 ELSE seen),
               sound \in BOOLEAN :
            raw' = IF Len(raw) < QueueDepth THEN Append(raw, Message(id, sound)) ELSE raw
      BY <2>2 DEF MessageCallback
    <3>2. Message(id, sound) \in Real
      BY <1>0, <3>1, CmdAssumption DEF Message, Real, Ids, Counts
    <3>3. raw' \in Seq(Real) /\ Len(raw') <= QueueDepth
      <4>1. CASE Len(raw) < QueueDepth
        <5>1. Append(raw, Message(id, sound)) \in Seq(Real)
              /\ Len(Append(raw, Message(id, sound))) = Len(raw) + 1
          BY <1>0, <3>2, AppendProperties
        <5>2. Len(raw) \in Nat /\ QueueDepth \in Nat
          BY <1>0, CmdAssumption
        <5>3. QED BY <3>1, <4>1, <5>1, <5>2
      <4>2. CASE ~(Len(raw) < QueueDepth)
        BY <1>0, <3>1, <4>2
      <4>3. QED BY <4>1, <4>2
    <3>4. QED BY <1>0, <2>1, <3>3
  <2>3. CASE ~MessageCallback
    <3>1. raw' = raw
      <4>1. CASE LinkDown \/ DisconnectCallback
        BY <4>1 DEF LinkDown, DisconnectCallback, command, queues
      <4>2. CASE Session
        BY <4>2 DEF Session, Top, HangUp, ConnectFails, Connected, SetOnline, Subscribe,
                    command, queues
      <4>3. CASE Flush \/ ResponsesDone \/ RawDone \/ AnswerCached \/ CheckHit \/ Wait
        BY <4>3 DEF Flush, ResponsesDone, RawDone, AnswerCached, CheckHit, Wait, command, queues
      <4>4. QED BY <1>2, <2>3, <4>1, <4>2, <4>3 DEF Idle
    <3>2. QED BY <1>0, <2>1, <3>1
  <2>4. QED BY <2>2, <2>3
<1>3. CASE TakeRaw
  <2>1. Tail(raw) \in Seq(Real) /\ Len(Tail(raw)) = Len(raw) - 1
    BY <1>0, <1>3, HeadTailProperties DEF TakeRaw
  <2>2. Len(raw) \in Nat /\ QueueDepth \in Nat
    BY <1>0, CmdAssumption
  <2>3. QED BY <1>0, <1>3, <2>1, <2>2 DEF TakeRaw
<1>4. CASE TakeResponse
  <2>1. Tail(responses) \in Seq(Ids) /\ Len(Tail(responses)) = Len(responses) - 1
    BY <1>0, <1>4, HeadTailProperties DEF TakeResponse
  <2>2. Len(responses) \in Nat /\ QueueDepth \in Nat
    BY <1>0, CmdAssumption
  <2>3. QED BY <1>0, <1>4, <2>1, <2>2 DEF TakeResponse
<1>5. CASE Enqueue
  <2>1. hand.id \in Ids
    BY <1>0, <1>5 DEF Enqueue, Control, Requesting, Real
  <2>2. Append(requests, hand.id) \in Seq(Ids) /\ Len(Append(requests, hand.id)) = Len(requests) + 1
    BY <1>0, <2>1, AppendProperties
  <2>3. Len(requests) \in Nat /\ QueueDepth \in Nat
    BY <1>0, CmdAssumption
  <2>4. QED BY <1>0, <1>5, <2>2, <2>3 DEF Enqueue
<1>6. CASE Execute
  <2>1. Tail(requests) \in Seq(Ids) /\ Len(Tail(requests)) = Len(requests) - 1 /\ Head(requests) \in Ids
    BY <1>0, <1>6, HeadTailProperties DEF Execute
  <2>2. Len(requests) \in Nat /\ QueueDepth \in Nat /\ MaxIds \in Nat
    BY <1>0, CmdAssumption
  <2>3. QED BY <1>0, <1>6, <2>1, <2>2 DEF Execute, Ids
<1>7. CASE Respond
  <2>1. executing \in Ids
    BY <1>0, <1>7 DEF Respond, NoId, Ids
  <2>2. Append(responses, executing) \in Seq(Ids)
        /\ Len(Append(responses, executing)) = Len(responses) + 1
    BY <1>0, <2>1, AppendProperties
  <2>3. Len(responses) \in Nat /\ QueueDepth \in Nat /\ NoId \in 0 .. MaxIds
    BY <1>0, CmdAssumption DEF NoId
  <2>4. QED BY <1>0, <1>7, <2>2, <2>3 DEF Respond
<1>8. CASE DropResponse
  BY <1>0, <1>8, CmdAssumption DEF DropResponse, NoId
<1>9. CASE RetryPending \/ Answer \/ AnswerError \/ AddRefused \/ AddSlot \/ AddEntry
           \/ EnqueueFull
  BY <1>0, <1>9 DEF RetryPending, Answer, AnswerError, AddRefused, AddSlot, AddEntry,
                    EnqueueFull, queues
<1>10. CASE Remove
  BY <1>0, <1>10 DEF Remove, Look, Found, NotFound, Close, queues, command
<1>11. QED
  BY <1>1, <1>2, <1>3, <1>4, <1>5, <1>6, <1>7, <1>8, <1>9, <1>10
     DEF Next, Mqtt, Poll, Responses, Requests, Idle

\* The table stays a ring of ids whose indices are within it.
LEMMA TableStep ==
  ASSUME Types, [Next]_vars
  PROVE  TableTypes'
<1>0. /\ TableTypes /\ QueueTypes /\ Control
      /\ Depth \in Nat /\ 0 \in 0 .. Depth
  BY DepthType DEF Types
<1> USE DEF TableTypes
<1>1. CASE UNCHANGED vars
  BY <1>0, <1>1 DEF vars, command, memory
<1>2. CASE Idle
  BY <1>0, <1>2, IdleFrame DEF Still
<1>3. CASE TakeRaw \/ Answer \/ EnqueueFull
  BY <1>0, <1>3 DEF TakeRaw, Answer, EnqueueFull, memory
<1>4. CASE AddSlot
  <2>1. hand.id \in 0 .. MaxIds
    BY <1>0, <1>4 DEF AddSlot, Control, Requesting, Real, Ids
  <2>2. table.count < Depth /\ table' = [table EXCEPT !.slots[table.head] = hand.id]
    BY <1>4 DEF AddSlot
  <2>3. table' \in Tables
    BY <1>0, <2>1, <2>2, HeadIsFree
  <2>4. QED BY <1>0, <1>4, <2>3 DEF AddSlot
<1>5. CASE AddEntry
  <2>1. table.count < Depth
    BY <1>0, <1>5 DEF AddEntry, Control
  <2>2. table' \in Tables
    BY <1>0, <1>5, <2>1, AddedEntries DEF AddEntry
  <2>3. QED BY <1>0, <1>5, <2>2 DEF AddEntry
<1>6. CASE Look
  <2>1. scan < table.count /\ table.count \in 0 .. Depth /\ scan' = scan + 1
    BY <1>0, <1>6 DEF Look, Tables
  <2>2. scan' \in 0 .. Depth
    BY <1>0, <2>1
  <2>3. QED BY <1>0, <1>6, <2>2 DEF Look, memory
<1>7. CASE Close
  BY <1>0, <1>7, ClosedType DEF Close
<1>8. CASE DropResponse
  <2>1. table' = table \/ \E i : table' = Closed(i)
    BY <1>8 DEF DropResponse, Removed
  <2>2. QED BY <1>0, <1>8, <2>1, ClosedType DEF DropResponse
<1>9. CASE RetryPending \/ TakeResponse \/ AnswerError \/ AddRefused \/ Enqueue
           \/ Found \/ NotFound \/ Execute \/ Respond
  BY <1>0, <1>9 DEF RetryPending, TakeResponse, AnswerError, AddRefused, Enqueue,
                    Found, NotFound, Execute, Respond, command, memory
<1>10. QED
  BY <1>1, <1>2, <1>3, <1>4, <1>5, <1>6, <1>7, <1>8, <1>9
     DEF Next, Mqtt, Poll, Responses, Requests, Remove, Idle

\* The cache keeps real ids and its depth; the histories are sets of ids.
LEMMA CacheStep ==
  ASSUME Types, [Next]_vars
  PROVE  CacheTypes' /\ History'
<1>0. CacheTypes /\ History /\ QueueTypes /\ Control
  BY DEF Types
<1>1. ASSUME hand \in Real, cache' = CachePut(hand)
      PROVE  CacheTypes'
  <2>1. hand \in Messages
    BY <1>1, RealMessages
  <2>2. CacheType(CachePut(hand)) /\ Len(CachePut(hand)) \in 1 .. CacheDepth
    BY <1>0, <1>1, <2>1, CachePutKeeps DEF CacheTypes
  <2>3. QED BY <1>1, <2>2, CmdAssumption DEF CacheTypes
<1>2. Evicted(hand) \subseteq Ids
  BY <1>0 DEF Evicted, History
<1>3. ASSUME hand \in Real PROVE Strayed(hand.id) \subseteq Ids
  BY <1>3 DEF Strayed, Real
<1>4. CASE UNCHANGED vars
  BY <1>0, <1>4 DEF vars, command, memory, CacheTypes, History
<1>5. CASE Idle
  BY <1>0, <1>5, IdleFrame DEF Still, CacheTypes, History
<1>6. CASE AnswerError
  <2>1. hand \in Real
    BY <1>0, <1>6 DEF AnswerError, Control, Requesting
  <2>2. ran' = ran /\ \/ cache' = CachePut(hand) /\ forgotten' = forgotten \union Evicted(hand)
                      \/ cache' = cache /\ forgotten' = forgotten
    BY <1>6 DEF AnswerError
  <2>3. QED BY <1>0, <1>1, <1>2, <2>1, <2>2 DEF History, CacheTypes
<1>7. CASE NotFound \/ Close
  <2>1. ran' = ran /\ \/ /\ pc \in {"find", "close"}
                         /\ cache' = CachePut(hand)
                         /\ forgotten' = forgotten \union Evicted(hand) \union Strayed(hand.id)
                      \/ cache' = cache /\ forgotten' = forgotten
    BY <1>7 DEF NotFound, Close, Finished
  <2>2. CASE cache' = cache /\ forgotten' = forgotten
    BY <1>0, <2>1, <2>2 DEF History, CacheTypes
  <2>3. CASE /\ pc \in {"find", "close"} /\ cache' = CachePut(hand)
             /\ forgotten' = forgotten \union Evicted(hand) \union Strayed(hand.id)
    <3>1. hand \in Real
      BY <1>0, <2>3 DEF Control, Answering
    <3>2. QED BY <1>0, <1>1, <1>2, <1>3, <2>1, <2>3, <3>1 DEF History
  <2>4. QED BY <2>1, <2>2, <2>3
<1>8. CASE Execute
  <2>1. Head(requests) \in Ids
    BY <1>0, <1>8, HeadTailProperties DEF Execute, QueueTypes
  <2>2. QED BY <1>0, <1>8, <2>1 DEF Execute, memory, CacheTypes, History
<1>9. CASE DropResponse
  <2>1. executing \in Ids
    BY <1>0, <1>9 DEF DropResponse, QueueTypes, NoId, Ids
  <2>2. QED BY <1>0, <1>9, <2>1 DEF DropResponse, CacheTypes, History
<1>10. CASE RetryPending \/ TakeResponse \/ Answer \/ TakeRaw \/ AddRefused \/ AddSlot
            \/ AddEntry \/ Enqueue \/ EnqueueFull \/ Look \/ Found \/ Respond
  BY <1>0, <1>10 DEF RetryPending, TakeResponse, Answer, TakeRaw, AddRefused, AddSlot, AddEntry,
                    Enqueue, EnqueueFull, Look, Found, Respond, command, memory, CacheTypes, History
<1>11. QED
  BY <1>4, <1>5, <1>6, <1>7, <1>8, <1>9, <1>10
     DEF Next, Mqtt, Poll, Responses, Requests, Remove, Idle

\* What mqtt_gw_task has in its hands fits the place it is at.
LEMMA ControlStep ==
  ASSUME Types, [Next]_vars
  PROVE  Control'
<1>0. /\ Control /\ QueueTypes /\ CacheTypes /\ TableTypes
      /\ hand \in Messages /\ Message(hand.id, FALSE).sound = FALSE
      /\ hand \in Real => Message(hand.id, FALSE) \in Real
  BY RealMessages DEF Types, Control, Message, Real
<1> USE DEF Control, Goto
<1>1. CASE UNCHANGED vars
  BY <1>0, <1>1 DEF vars, command, memory
<1>2. CASE Idle
  <2>1. /\ Still
        /\ \/ pc' = pc
           \/ pc \in Resting \union {"check", "cached"} /\ pc' \in Resting
        /\ pc' = "raw" => pending = Nothing
    BY <1>0, <1>2, IdleFrame
  <2>2. CASE pc' = pc
    BY <1>0, <2>1, <2>2 DEF Still
  <2>3. CASE pc' \in Resting
    BY <1>0, <2>1, <2>3 DEF Still, Resting, PCs, Requesting, Answering, Accepting
  <2>4. QED BY <2>1, <2>2, <2>3
<1>3. CASE RetryPending
  BY <1>0, <1>3 DEF RetryPending, memory, PCs, Requesting, Answering, Accepting
<1>4. CASE TakeResponse
  <2>1. Message(Head(responses), TRUE) \in Real
    BY <1>0, <1>4, HeadTailProperties DEF TakeResponse, QueueTypes, Message, Real
  <2>2. QED BY <1>0, <1>4, <2>1 DEF TakeResponse, memory, PCs, Requesting, Answering, Accepting
<1>5. CASE Answer
  BY <1>0, <1>5 DEF Answer, Park, PCs, Requesting, Answering, Accepting
<1>6. CASE TakeRaw
  <2>1. Head(raw) \in Real
    BY <1>0, <1>6, HeadTailProperties DEF TakeRaw, QueueTypes
  <2>2. pending' = pending /\ pending = Nothing
    BY <1>0, <1>6 DEF TakeRaw, memory, Requesting
  <2>3. \/ Head(raw).sound = FALSE /\ hand' = Head(raw) /\ pc' \in {"error", "raw"}
        \/ Head(raw).sound = TRUE /\ hand' = Head(raw) /\ pc' = "check"
        \/ hand' \in Real /\ pc' = "cached"
    <3>1. \/ ~Head(raw).sound /\ hand' = Head(raw) /\ pc' \in {"error", "raw"}
          \/ Head(raw).sound /\ Cached(Head(raw).id) /\ hand' = Hit(Head(raw).id) /\ pc' = "cached"
          \/ Head(raw).sound /\ hand' = Head(raw) /\ pc' = "check"
      BY <1>6, Zenon DEF TakeRaw
    <3>2. Head(raw).sound \in BOOLEAN
      BY <2>1 DEF Real
    <3>3. Cached(Head(raw).id) => Hit(Head(raw).id) \in Real
      BY <1>0, HitCached DEF CacheTypes
    <3>4. QED BY <3>1, <3>2, <3>3
  <2>4. QED BY <1>0, <2>1, <2>2, <2>3 DEF PCs, Requesting, Answering, Accepting
<1>7. CASE AnswerError
  BY <1>0, <1>7 DEF AnswerError, Park, PCs, Requesting, Answering, Accepting
<1>8. CASE AddRefused
  BY <1>0, <1>8 DEF AddRefused, memory, PCs, Requesting, Answering, Accepting
<1>9. CASE AddSlot
  <2>1. table'.count < Depth
    BY <1>0, <1>9 DEF AddSlot, TableTypes, Tables
  <2>2. QED BY <1>0, <1>9, <2>1 DEF AddSlot, PCs, Requesting, Answering, Accepting
<1>10. CASE AddEntry
  BY <1>0, <1>10 DEF AddEntry, PCs, Requesting, Answering, Accepting
<1>11. CASE Enqueue \/ EnqueueFull
  BY <1>0, <1>11 DEF Enqueue, EnqueueFull, memory, PCs, Requesting, Answering, Accepting
<1>12. CASE Look \/ Found
  BY <1>0, <1>12 DEF Look, Found, command, memory, PCs, Requesting, Answering, Accepting
<1>13. CASE NotFound \/ Close
  <2>1. CASE pc \in {"find", "close"} /\ Finished
    BY <1>0, <1>13, <2>1 DEF Finished, PendingCleared, PCs, Requesting, Answering, Accepting
  <2>2. CASE pc \in {"undo", "closeUndo"} /\ Finished
    BY <1>0, <1>13, <2>2 DEF Finished, PCs, Requesting, Answering, Accepting
  <2>3. QED BY <1>13, <2>1, <2>2 DEF NotFound, Close
<1>14. CASE Execute \/ Respond
  BY <1>0, <1>14 DEF Execute, Respond, memory
<1>15. CASE DropResponse
  <2>1. table'.count <= table.count
    <3>1. table' = table \/ \E i : table' = Closed(i)
      BY <1>15 DEF DropResponse, Removed
    <3>2. table.count \in 0 .. Depth
      BY <1>0 DEF TableTypes, Tables
    <3>3. QED BY <1>0, <3>1, <3>2, ClosedType, DepthType DEF TableTypes
  <2>2. table.count \in Nat /\ table'.count \in Nat /\ Depth \in Nat
    <3>1. table' \in Tables
      BY <1>15, TableStep DEF TableTypes, Next, Poll
    <3>2. QED BY <1>0, <3>1, DepthType DEF TableTypes, Tables
  <2>3. pc = "add" => table'.count < Depth
    BY <1>0, <2>1, <2>2
  <2>4. QED BY <1>0, <1>15, <2>3 DEF DropResponse
<1>16. QED
  BY <1>1, <1>2, <1>3, <1>4, <1>5, <1>6, <1>7, <1>8, <1>9, <1>10, <1>11, <1>12, <1>13,
     <1>14, <1>15
     DEF Next, Mqtt, Poll, Responses, Requests, Remove, Idle

\* Every step keeps the types.
LEMMA TypesStep == Types /\ [Next]_vars => Types'
BY FlagsStep, QueueStep, TableStep, CacheStep, ControlStep DEF Types

\* The types hold always.
LEMMA TypesInvariant == Spec => []Types
<1>1. Init => Types
  BY TypesInit
<1>2. Types /\ [Next]_vars => Types'
  BY TypesStep
<1>3. QED BY <1>1, <1>2, PTL DEF Spec

\* TypeOK holds for every depth, number of ids and number of events: the queues
\* and the cache keep within their depths, and the indices within the table.
THEOREM TypeCorrect == Spec => []TypeOK
<1>1. Types => TypeOK
  BY TypesMean
<1>2. QED BY <1>1, TypesInvariant, PTL

(***************************************************************************)
(* Where an accepted command is, and what the in-flight table says of it,  *)
(* until the table is changed under mqtt_gw_task's hands.                  *)
(***************************************************************************)
InTable(id) == \E i \in 0 .. table.count - 1 : Entry(i) = id
Distinct == \A i, j \in 0 .. table.count - 1 : Entry(i) = Entry(j) => i = j
InMqtt(id) ==
  \/ pending.sound = TRUE /\ pending.id = id
  \/ pc \in Working /\ hand.sound = TRUE /\ hand.id = id
Placed(id) == Has(requests, id) \/ executing = id \/ Has(responses, id) \/ InMqtt(id)
OnePlace(id) ==
  /\ Once(requests, id) /\ Once(responses, id)
  /\ Has(requests, id) => executing # id /\ ~Has(responses, id) /\ ~InMqtt(id)
  /\ executing = id => ~Has(responses, id) /\ ~InMqtt(id)
  /\ Has(responses, id) => ~InMqtt(id)
Scans ==
  /\ pc \in {"check", "find", "undo"} =>
       \A i \in 0 .. table.count - 1 : i < scan => Entry(i) # hand.id
  /\ pc = "check" => ~Cached(hand.id)
  /\ pc \in {"close", "closeUndo"} => scan < table.count /\ Entry(scan) = hand.id
  /\ pc = "add" => ~InTable(hand.id) /\ table.slots[table.head] = hand.id
Tracked ==
  /\ ~InTable(NoId) /\ Distinct
  /\ \A id \in Ids : InTable(id) => Placed(id)
  /\ \A id \in Ids \ forgotten : OnePlace(id) /\ (Placed(id) => InTable(id))
Entering == {"add", "enqueue", "undo", "closeUndo"}
Executed ==
  \A id \in ran \ forgotten :
    /\ ~Has(requests, id)
    /\ pc \in Entering => hand.id # id
    /\ Cached(id) \/ executing = id \/ Has(responses, id) \/ InMqtt(id)
Path == Scans /\ Tracked /\ Executed
Undisturbed == raced = FALSE => Path

(***************************************************************************)
(* What becomes of the ids in the table.                                   *)
(***************************************************************************)
LEMMA SameTable ==
  ASSUME table' = table
  PROVE  /\ \A i : Entry(i)' = Entry(i)
         /\ \A id : InTable(id)' <=> InTable(id)
         /\ Distinct' <=> Distinct
<1>1. \A i : Entry(i)' = Entry(i)
  BY DEF Entry
<1>2. QED BY <1>1 DEF InTable, Distinct

\* Writing the free slot changes no entry.
LEMMA WrittenTable ==
  ASSUME table \in Tables, table.count < Depth, NEW x \in 0 .. MaxIds,
         table' = [table EXCEPT !.slots[table.head] = x]
  PROVE  /\ \A id : InTable(id)' <=> InTable(id)
         /\ Distinct' <=> Distinct
         /\ table'.slots[table'.head] = x
<1>1. /\ table'.count = table.count /\ table'.slots[table'.head] = x
      /\ \A j \in 0 .. table.count - 1 : Entry(j)' = Entry(j)
  BY HeadIsFree
<1>2. QED BY <1>1 DEF InTable, Distinct

\* A new id is added, and no other.
LEMMA GrownTable ==
  ASSUME table \in Tables, table.count < Depth,
         table' = [table EXCEPT !.head = (@ + 1) % Depth, !.count = @ + 1],
         ~InTable(table.slots[table.head])
  PROVE  /\ \A id : InTable(id)' <=> id = table.slots[table.head] \/ InTable(id)
         /\ Distinct => Distinct'
<1> DEFINE x == table.slots[table.head]
<1>1. /\ table'.count = table.count + 1 /\ Entry(0)' = x
      /\ \A j \in 0 .. table.count - 1 : Entry(j + 1)' = Entry(j)
  BY AddedEntries
<1>2. table.count \in Nat
  BY DepthType DEF Tables
<1> HIDE DEF x
<1>3. \A i \in 0 .. table'.count - 1 :
        i = 0 \/ (i - 1 \in 0 .. table.count - 1 /\ (i - 1) + 1 = i)
  BY <1>1, <1>2
<1>4. \A i \in 0 .. table'.count - 1 :
        \/ i = 0 /\ Entry(i)' = x
        \/ i - 1 \in 0 .. table.count - 1 /\ Entry(i)' = Entry(i - 1)
  BY <1>1, <1>3
<1>5. ASSUME NEW id PROVE InTable(id)' <=> id = x \/ InTable(id)
  <2>1. InTable(id)' => id = x \/ InTable(id)
    BY <1>4 DEF InTable
  <2>2. 0 \in 0 .. table'.count - 1
    BY <1>1, <1>2
  <2>3. id = x => InTable(id)'
    BY <1>1, <2>2 DEF InTable
  <2>4. ASSUME NEW i \in 0 .. table.count - 1, Entry(i) = id PROVE InTable(id)'
    <3>1. i + 1 \in 0 .. table'.count - 1
      BY <1>1, <1>2
    <3>2. Entry(i + 1)' = id
      BY <1>1, <2>4
    <3>3. QED BY <3>1, <3>2 DEF InTable
  <2>5. InTable(id) => InTable(id)'
    BY <2>4 DEF InTable
  <2>6. QED BY <2>1, <2>3, <2>5
<1>6. ASSUME Distinct, NEW i \in 0 .. table'.count - 1, NEW j \in 0 .. table'.count - 1,
             Entry(i)' = Entry(j)'
      PROVE  i = j
  <2>1. \A k \in 0 .. table.count - 1 : Entry(k) # x
    BY DEF InTable, x
  <2>2. CASE i = 0 \/ j = 0
    BY <1>4, <1>6, <2>1, <2>2
  <2>3. CASE i # 0 /\ j # 0
    <3>1. i - 1 = j - 1
      BY <1>4, <1>6, <2>3 DEF Distinct
    <3>2. QED BY <1>1, <1>2, <3>1
  <2>4. QED BY <2>2, <2>3
<1>7. QED BY <1>5, <1>6 DEF x, Distinct

\* Closing the gap at an entry removes its id, and no other.
LEMMA ClosedTable ==
  ASSUME table \in Tables, NEW i \in 0 .. table.count - 1, table' = Closed(i), Distinct
  PROVE  /\ \A id : InTable(id)' <=> InTable(id) /\ id # Entry(i)
         /\ Distinct'
<1>1. /\ table'.count = table.count - 1
      /\ \A j \in 0 .. table.count - 2 : Entry(j)' = IF j < i THEN Entry(j) ELSE Entry(j + 1)
  BY ClosedEntries
<1>2. table.count \in Nat /\ table'.count \in Nat
  BY <1>1, DepthType DEF Tables
<1> DEFINE old(j) == IF j < i THEN j ELSE j + 1
<1>3. \A j \in 0 .. table'.count - 1 :
        old(j) \in 0 .. table.count - 1 /\ old(j) # i /\ Entry(j)' = Entry(old(j))
  BY <1>1, <1>2
<1>4. \A j, k \in 0 .. table'.count - 1 : old(j) = old(k) => j = k
  BY <1>1, <1>2
<1>5. \A k \in 0 .. table.count - 1 : k # i => \E j \in 0 .. table'.count - 1 : old(j) = k
  <2>1. ASSUME NEW k \in 0 .. table.count - 1, k < i
        PROVE  k \in 0 .. table'.count - 1 /\ old(k) = k
    BY <1>1, <1>2, <2>1
  <2>2. ASSUME NEW k \in 0 .. table.count - 1, k > i
        PROVE  k - 1 \in 0 .. table'.count - 1 /\ old(k - 1) = k
    BY <1>1, <1>2, <2>2
  <2> HIDE DEF old
  <2>3. ASSUME NEW k \in 0 .. table.count - 1, k # i
        PROVE  \E j \in 0 .. table'.count - 1 : old(j) = k
    <3>1. k < i \/ k > i
      BY <1>2, <2>3
    <3>2. CASE k < i
      BY <2>1, <3>2
    <3>3. CASE k > i
      BY <2>2, <3>3
    <3>4. QED BY <3>1, <3>2, <3>3
  <2>4. QED BY <2>3
<1> HIDE DEF old
<1>6. \A id : InTable(id)' <=> InTable(id) /\ id # Entry(i)
  <2>1. ASSUME NEW id, InTable(id)' PROVE InTable(id) /\ id # Entry(i)
    <3>1. PICK j \in 0 .. table'.count - 1 : Entry(j)' = id
      BY <2>1 DEF InTable
    <3>2. old(j) \in 0 .. table.count - 1 /\ old(j) # i /\ Entry(old(j)) = id
      BY <1>3, <3>1
    <3>3. QED BY <3>2 DEF InTable, Distinct
  <2>2. ASSUME NEW id, InTable(id), id # Entry(i) PROVE InTable(id)'
    <3>1. PICK k \in 0 .. table.count - 1 : Entry(k) = id
      BY <2>2 DEF InTable
    <3>2. PICK j \in 0 .. table'.count - 1 : old(j) = k
      BY <1>5, <2>2, <3>1
    <3>3. QED BY <1>3, <3>1, <3>2 DEF InTable
  <2>3. QED BY <2>1, <2>2
<1>7. Distinct'
  BY <1>3, <1>4 DEF Distinct
<1>8. QED BY <1>6, <1>7

\* cmd_inflight_remove removes the id and no other.
LEMMA RemovedTable ==
  ASSUME table \in Tables, NEW x, table' = Removed(x), Distinct
  PROVE  /\ \A id : InTable(id)' <=> InTable(id) /\ id # x
         /\ Distinct'
<1>1. CASE Matches(x) = {}
  <2>1. table' = table /\ ~InTable(x)
    BY <1>1 DEF Removed, Matches, InTable
  <2>2. QED BY <2>1, SameTable
<1>2. CASE Matches(x) # {}
  <2>1. PICK i \in Matches(x) : TRUE
    BY <1>2
  <2>2. i \in 0 .. table.count - 1 /\ Entry(i) = x
    BY <2>1 DEF Matches
  <2>3. \A j \in Matches(x) : j = i
    BY <2>2 DEF Matches, Distinct
  <2>4. i <= i
    BY <2>2
  <2>5. (CHOOSE j \in Matches(x) : \A k \in Matches(x) : j <= k) = i
    BY <2>1, <2>3, <2>4
  <2>6. table' = Closed(i)
    BY <1>2, <2>5 DEF Removed
  <2>7. QED BY <2>2, <2>6, ClosedTable
<1>3. QED BY <1>1, <1>2

(***************************************************************************)
(* Steps that move no command from one place to another.                   *)
(***************************************************************************)
\* No command moves, and none enters the table or leaves it.
LEMMA NothingMoves ==
  ASSUME Path, UNCHANGED <<requests, executing, responses, ran>>,
         forgotten \subseteq forgotten',
         \A id : InTable(id)' <=> InTable(id), Distinct => Distinct',
         \A id : InMqtt(id)' <=> InMqtt(id),
         \A id \in ran \ forgotten' : Cached(id) => Cached(id)',
         \A id \in ran \ forgotten' : pc' \in Entering => hand'.id # id
  PROVE  Tracked' /\ Executed'
<1>1. /\ \A id : Has(requests, id)' <=> Has(requests, id)
      /\ \A id : Has(responses, id)' <=> Has(responses, id)
      /\ \A id : Once(requests, id)' <=> Once(requests, id)
      /\ \A id : Once(responses, id)' <=> Once(responses, id)
  BY DEF Has, Once
<1>2. \A id : (Placed(id)' <=> Placed(id)) /\ (OnePlace(id)' <=> OnePlace(id))
  BY <1>1 DEF Placed, OnePlace
<1>3. Tracked'
  BY <1>2 DEF Path, Tracked
<1>4. Executed'
  BY <1>1 DEF Path, Executed
<1>5. QED BY <1>3, <1>4

\* A step that leaves the command path alone.
LEMMA StillPath ==
  ASSUME Types, Path, Still,
         \/ pc' = pc
         \/ pc \in Resting \union {"check", "cached"} /\ pc' \in Resting
  PROVE  Path'
<1>1. /\ \A i : Entry(i)' = Entry(i)
      /\ \A id : InTable(id)' <=> InTable(id)
      /\ Distinct' <=> Distinct
  BY SameTable DEF Still
<1>2. \A id : InMqtt(id)' <=> InMqtt(id)
  BY DEF InMqtt, Still, Resting, Working
<1>3. \A id : Cached(id)' <=> Cached(id)
  BY DEF Cached, Still
<1>4. Scans'
  <2>1. CASE pc' = pc
    BY <1>1, <1>3, <2>1 DEF Path, Scans, Still
  <2>2. CASE pc' \in Resting
    BY <2>2 DEF Scans, Resting
  <2>3. QED BY <2>1, <2>2
<1>5. \A id \in ran \ forgotten : pc' \in Entering => hand'.id # id
  BY DEF Path, Executed, Still, Resting, Entering
<1>6. Tracked' /\ Executed'
  BY <1>1, <1>2, <1>3, <1>5, NothingMoves DEF Still
<1>7. QED BY <1>4, <1>6 DEF Path

\* The request that is parsed is looked for in the table, from its start.
LEMMA TakeRawPath ==
  ASSUME Types, Path, TakeRaw PROVE Path'
<1>0. Control
  BY DEF Types
<1>1. /\ UNCHANGED <<table, cache, forgotten, pending, requests, executing, responses, ran>>
      /\ scan' = 0 /\ pc = "raw" /\ pc' \in {"error", "raw", "cached", "check"}
      /\ pc' = "check" => hand' = Head(raw) /\ ~Cached(Head(raw).id)
  BY DEF TakeRaw, memory, Goto
<1>2. /\ \A i : Entry(i)' = Entry(i)
      /\ \A id : InTable(id)' <=> InTable(id)
      /\ Distinct' <=> Distinct
  BY <1>1, SameTable
<1>3. \A id : InMqtt(id)' <=> InMqtt(id)
  BY <1>1 DEF InMqtt, Working
<1>4. \A id : Cached(id)' <=> Cached(id)
  BY <1>1 DEF Cached
<1>5. Scans'
  <2>1. \A i \in 0 .. table'.count - 1 : ~(i < scan')
    BY <1>1
  <2>2. pc' = "check" => ~Cached(hand.id)'
    BY <1>1, <1>4 DEF Cached
  <2>3. QED BY <1>1, <2>1, <2>2 DEF Scans
<1>6. Tracked' /\ Executed'
  BY <1>1, <1>2, <1>3, <1>4, NothingMoves DEF Entering
<1>7. QED BY <1>5, <1>6 DEF Path

\* Looking on, at a place that stays as it is.
LEMMA LookPath ==
  ASSUME Types, Path, Look PROVE Path'
<1>0. TableTypes
  BY DEF Types
<1>1. /\ UNCHANGED <<pc, hand, table, cache, forgotten, pending, requests, executing,
                     responses, ran>>
      /\ scan' = scan + 1 /\ Entry(scan) # hand.id /\ pc \in {"check", "find", "undo"}
  BY DEF Look, memory, queues
<1>2. /\ \A i : Entry(i)' = Entry(i)
      /\ \A id : InTable(id)' <=> InTable(id)
      /\ Distinct' <=> Distinct
  BY <1>1, SameTable
<1>3. \A id : InMqtt(id)' <=> InMqtt(id)
  BY <1>1 DEF InMqtt
<1>4. \A id : Cached(id)' <=> Cached(id)
  BY <1>1 DEF Cached
<1>5. Scans'
  <2>1. \A i \in 0 .. table.count - 1 : i < scan + 1 => i < scan \/ i = scan
    BY <1>0 DEF TableTypes
  <2>2. \A i \in 0 .. table'.count - 1 : i < scan' => Entry(i)' # hand'.id
    BY <1>1, <1>2, <2>1 DEF Path, Scans
  <2>3. QED BY <1>1, <1>4, <2>2 DEF Path, Scans
<1>6. \A id \in ran \ forgotten : pc' \in Entering => hand'.id # id
  BY <1>1 DEF Path, Executed
<1>7. Tracked' /\ Executed'
  BY <1>1, <1>2, <1>3, <1>4, <1>6, NothingMoves
<1>8. QED BY <1>5, <1>7 DEF Path

\* The entry is found, and stays until its gap is closed.
LEMMA FoundPath ==
  ASSUME Types, Path, Found PROVE Path'
<1>1. /\ UNCHANGED <<hand, scan, table, cache, forgotten, pending, requests, executing,
                     responses, ran>>
      /\ scan < table.count /\ Entry(scan) = hand.id
      /\ pc \in {"find", "undo"}
      /\ pc' = IF pc = "find" THEN "close" ELSE "closeUndo"
  BY DEF Found, command, memory, queues, Goto
<1>2. /\ \A i : Entry(i)' = Entry(i)
      /\ \A id : InTable(id)' <=> InTable(id)
      /\ Distinct' <=> Distinct
  BY <1>1, SameTable
<1>3. \A id : InMqtt(id)' <=> InMqtt(id)
  BY <1>1 DEF InMqtt, Working
<1>4. \A id : Cached(id)' <=> Cached(id)
  BY <1>1 DEF Cached
<1>5. Scans'
  BY <1>1, <1>2 DEF Scans
<1>6. \A id \in ran \ forgotten : pc' \in Entering => hand'.id # id
  BY <1>1 DEF Path, Executed, Entering
<1>7. Tracked' /\ Executed'
  BY <1>1, <1>2, <1>3, <1>4, <1>6, NothingMoves
<1>8. QED BY <1>5, <1>7 DEF Path

\* The pending response is worked on; it stays in its slot.
LEMMA RetryPath ==
  ASSUME Types, Path, RetryPending PROVE Path'
<1>1. /\ UNCHANGED <<scan, table, cache, forgotten, pending, requests, executing,
                     responses, ran>>
      /\ hand' = pending /\ pc = "responses" /\ pc' = "publish"
  BY DEF RetryPending, memory, queues, Goto
<1>2. /\ \A id : InTable(id)' <=> InTable(id)
      /\ Distinct' <=> Distinct
  BY <1>1, SameTable
<1>3. \A id : InMqtt(id)' <=> InMqtt(id)
  BY <1>1 DEF InMqtt, Working
<1>4. \A id : Cached(id)' <=> Cached(id)
  BY <1>1 DEF Cached
<1>5. Scans'
  BY <1>1 DEF Scans
<1>6. Tracked' /\ Executed'
  BY <1>1, <1>2, <1>3, <1>4, NothingMoves DEF Entering
<1>7. QED BY <1>5, <1>6 DEF Path

\* An answer that is published is looked for in the table from its start; one
\* that is not is parked, and stays where it is: with mqtt_gw_task.
LEMMA AnswerPath ==
  ASSUME Types, Path, Answer PROVE Path'
<1>0. Control
  BY DEF Types
<1>1. /\ UNCHANGED <<hand, table, cache, forgotten, requests, executing, responses, ran>>
      /\ pc = "publish" /\ pending \in {Nothing, hand}
      /\ \/ pc' = "find" /\ scan' = 0 /\ pending' = pending
         \/ pc' = "wait" /\ pending' = hand
  BY <1>0 DEF Answer, queues, Goto, Park, Control, Answering
<1>2. /\ \A id : InTable(id)' <=> InTable(id)
      /\ Distinct' <=> Distinct
  BY <1>1, SameTable
<1>3. \A id : InMqtt(id)' <=> InMqtt(id)
  BY <1>1 DEF InMqtt, Working, Nothing
<1>4. \A id : Cached(id)' <=> Cached(id)
  BY <1>1 DEF Cached
<1>5. Scans'
  <2>1. pc' = "find" => \A i \in 0 .. table'.count - 1 : ~(i < scan')
    BY <1>1
  <2>2. QED BY <1>1, <2>1 DEF Scans
<1>6. Tracked' /\ Executed'
  BY <1>1, <1>2, <1>3, <1>4, NothingMoves DEF Entering
<1>7. QED BY <1>5, <1>6 DEF Path

\* An error response is no command: published or parked, none moves.
LEMMA AnswerErrorPath ==
  ASSUME Types, Path, AnswerError PROVE Path'
<1>0. Control
  BY DEF Types
<1>1. /\ UNCHANGED <<hand, table, requests, executing, responses, ran>>
      /\ pc = "error" /\ pending = Nothing /\ hand.sound = FALSE
      /\ \/ /\ pc' = "raw" /\ pending' = pending /\ cache' = CachePut(hand)
            /\ forgotten' = forgotten \union Evicted(hand)
         \/ pc' = "wait" /\ pending' = hand /\ cache' = cache /\ forgotten' = forgotten
  BY <1>0 DEF AnswerError, queues, Goto, Park, Control, Requesting
<1>2. /\ \A id : InTable(id)' <=> InTable(id)
      /\ Distinct' <=> Distinct
  BY <1>1, SameTable
<1>3. \A id : InMqtt(id)' <=> InMqtt(id)
  BY <1>1 DEF InMqtt, Working, Nothing
<1>4. \A id \in ran \ forgotten' : Cached(id) => Cached(id)'
  <2>1. CASE cache' = cache
    BY <2>1 DEF Cached
  <2>2. CASE cache' = CachePut(hand) /\ forgotten' = forgotten \union Evicted(hand)
    BY <2>2, EvictedNamed
  <2>3. QED BY <1>1, <2>1, <2>2
<1>5. Scans'
  BY <1>1 DEF Scans
<1>6. forgotten \subseteq forgotten'
  BY <1>1
<1>7. Tracked' /\ Executed'
  BY <1>1, <1>2, <1>3, <1>4, <1>6, NothingMoves DEF Entering
<1>8. QED BY <1>5, <1>7 DEF Path

\* A command there is no room for was never accepted.
LEMMA AddRefusedPath ==
  ASSUME Types, Path, AddRefused PROVE Path'
<1>1. /\ UNCHANGED <<scan, table, cache, forgotten, pending, requests, executing,
                     responses, ran>>
      /\ pc = "check" /\ pc' = "error"
  BY DEF AddRefused, memory, queues, Goto
<1>2. /\ \A id : InTable(id)' <=> InTable(id)
      /\ Distinct' <=> Distinct
  BY <1>1, SameTable
<1>3. \A id : InMqtt(id)' <=> InMqtt(id)
  BY <1>1 DEF InMqtt, Working
<1>4. \A id : Cached(id)' <=> Cached(id)
  BY <1>1 DEF Cached
<1>5. Scans'
  BY <1>1 DEF Scans
<1>6. Tracked' /\ Executed'
  BY <1>1, <1>2, <1>3, <1>4, NothingMoves DEF Entering
<1>7. QED BY <1>5, <1>6 DEF Path

\* An id that the whole table has been searched for is not in it.
LEMMA Searched ==
  ASSUME Types, Scans, pc \in {"check", "find", "undo"}, scan >= table.count
  PROVE  ~InTable(hand.id)
<1>1. scan \in Nat /\ table.count \in Nat
  BY DepthType DEF Types, TableTypes, Tables
<1>2. \A i \in 0 .. table.count - 1 : i < scan
  BY <1>1
<1>3. QED BY <1>2 DEF Scans, InTable

\* The slot written is of no entry; an id that is neither in the cache nor in
\* the table has not been executed, or its trace was erased.
LEMMA AddSlotPath ==
  ASSUME Types, Path, AddSlot PROVE Path'
<1>0. Control /\ TableTypes
  BY DEF Types
<1>1. /\ UNCHANGED <<hand, scan, cache, forgotten, pending, requests, executing,
                     responses, ran>>
      /\ pc = "check" /\ pc' = "add" /\ scan >= table.count /\ table.count < Depth
      /\ table' = [table EXCEPT !.slots[table.head] = hand.id]
  BY DEF AddSlot, queues, Goto
<1>2. hand.id \in 0 .. MaxIds /\ hand.id \in Ids
  BY <1>0, <1>1 DEF Control, Requesting, Real, Ids
<1>3. /\ \A id : InTable(id)' <=> InTable(id)
      /\ Distinct' <=> Distinct
      /\ table'.slots[table'.head] = hand.id
  BY <1>0, <1>1, <1>2, WrittenTable DEF TableTypes
<1>4. ~InTable(hand.id)
  BY <1>1, Searched DEF Path
<1>5. \A id : InMqtt(id)' <=> InMqtt(id)
  BY <1>1 DEF InMqtt, Working
<1>6. \A id : Cached(id)' <=> Cached(id)
  BY <1>1 DEF Cached
<1>7. Scans'
  <2>1. ~InTable(hand.id)'
    BY <1>1, <1>3, <1>4
  <2>2. QED BY <1>1, <1>3, <2>1 DEF Scans
<1>8. \A id \in ran \ forgotten : hand.id # id
  <2>1. ~Cached(hand.id)
    BY <1>1 DEF Path, Scans
  <2>2. hand.id \in forgotten \/ ~Placed(hand.id)
    BY <1>2, <1>4 DEF Path, Tracked
  <2>3. QED BY <2>1, <2>2 DEF Path, Executed, Placed
<1>9. Tracked' /\ Executed'
  BY <1>1, <1>3, <1>5, <1>6, <1>8, NothingMoves
<1>10. QED BY <1>7, <1>9 DEF Path

\* The entry of a command that finds the queue full is looked for.
LEMMA EnqueueFullPath ==
  ASSUME Types, Path, EnqueueFull PROVE Path'
<1>1. /\ UNCHANGED <<hand, table, cache, forgotten, pending, requests, executing,
                     responses, ran>>
      /\ pc = "enqueue" /\ pc' = "undo" /\ scan' = 0
  BY DEF EnqueueFull, memory, queues, Goto
<1>2. /\ \A id : InTable(id)' <=> InTable(id)
      /\ Distinct' <=> Distinct
  BY <1>1, SameTable
<1>3. \A id : InMqtt(id)' <=> InMqtt(id)
  BY <1>1 DEF InMqtt, Working
<1>4. \A id : Cached(id)' <=> Cached(id)
  BY <1>1 DEF Cached
<1>5. Scans'
  <2>1. \A i \in 0 .. table'.count - 1 : ~(i < scan')
    BY <1>1
  <2>2. QED BY <1>1, <2>1 DEF Scans
<1>6. \A id \in ran \ forgotten : pc' \in Entering => hand'.id # id
  BY <1>1 DEF Path, Executed, Entering
<1>7. Tracked' /\ Executed'
  BY <1>1, <1>2, <1>3, <1>4, <1>6, NothingMoves
<1>8. QED BY <1>5, <1>7 DEF Path

(***************************************************************************)
(* Steps that move a command, or end it.                                   *)
(***************************************************************************)
\* With nothing pending and no command in its hands, mqtt_gw_task has none.
LEMMA NoneInMqtt ==
  ASSUME pending = Nothing \/ pending.sound = FALSE,
         pc \notin Working \/ hand.sound = FALSE
  PROVE  \A id : ~InMqtt(id)
BY DEF InMqtt, Nothing

\* A queue that stays as it is.
LEMMA SameRequests ==
  ASSUME requests' = requests
  PROVE  \A id : (Has(requests, id)' <=> Has(requests, id)) /\ (Once(requests, id)' <=> Once(requests, id))
BY DEF Has, Once
\* The response queue stays as it is.
LEMMA SameResponses ==
  ASSUME responses' = responses
  PROVE  \A id : (Has(responses, id)' <=> Has(responses, id)) /\ (Once(responses, id)' <=> Once(responses, id))
BY DEF Has, Once

\* The oldest response: from the queue into mqtt_gw_task's hands.
LEMMA TakeResponsePath ==
  ASSUME Types, Path, TakeResponse PROVE Path'
<1>0. QueueTypes
  BY DEF Types
<1> DEFINE h == Head(responses)
<1>1. /\ UNCHANGED <<scan, table, cache, forgotten, pending, requests, executing, ran>>
      /\ pc = "responses" /\ pc' = "publish" /\ pending = Nothing
      /\ responses # <<>> /\ responses' = Tail(responses)
      /\ hand' = Message(h, TRUE)
  BY DEF TakeResponse, memory, Goto
<1>2. /\ \A id : InTable(id)' <=> InTable(id)
      /\ Distinct' <=> Distinct
  BY <1>1, SameTable
<1>3. \A id : /\ Has(responses, id) <=> id = h \/ Has(responses, id)'
              /\ Once(responses, id) => Once(responses, id)' /\ (id = h => ~Has(responses, id)')
  <2>1. \A id : /\ Has(responses, id) <=> id = h \/ Has(Tail(responses), id)
                /\ Once(responses, id) => /\ Once(Tail(responses), id)
                                          /\ id = h => ~Has(Tail(responses), id)
    BY <1>0, <1>1, TailQueue DEF QueueTypes
  <2>2. \A id : (Has(responses, id)' <=> Has(Tail(responses), id))
                /\ (Once(responses, id)' <=> Once(Tail(responses), id))
    BY <1>1 DEF Has, Once
  <2>3. QED BY <2>1, <2>2
<1>4. \A id : (Has(requests, id)' <=> Has(requests, id)) /\ (Once(requests, id)' <=> Once(requests, id))
  BY <1>1, SameRequests
<1>5. \A id : ~InMqtt(id) /\ (InMqtt(id)' <=> id = h)
  BY <1>1 DEF InMqtt, Working, Nothing, Message
<1>6. \A id : Cached(id)' <=> Cached(id)
  BY <1>1 DEF Cached
<1>7. Scans'
  BY <1>1 DEF Scans
<1> HIDE DEF h
<1>8. \A id : Placed(id)' <=> Placed(id)
  BY <1>1, <1>3, <1>4, <1>5 DEF Placed
<1>9. \A id : OnePlace(id) => OnePlace(id)'
  BY <1>1, <1>3, <1>4, <1>5 DEF OnePlace
<1>10. Tracked'
  BY <1>1, <1>2, <1>8, <1>9 DEF Path, Tracked
<1>11. Executed'
  BY <1>1, <1>3, <1>4, <1>5, <1>6 DEF Path, Executed, Entering
<1>12. QED BY <1>7, <1>10, <1>11 DEF Path

\* The command that is entered into the table is now mqtt_gw_task's to queue.
LEMMA AddEntryPath ==
  ASSUME Types, Path, AddEntry PROVE Path'
<1>0. Control /\ TableTypes
  BY DEF Types
<1> DEFINE h == hand.id
<1>1. /\ UNCHANGED <<hand, scan, cache, forgotten, pending, requests, executing, responses, ran>>
      /\ pc = "add" /\ pc' = "enqueue" /\ pending = Nothing /\ hand.sound = TRUE /\ h \in Ids
      /\ table.count < Depth /\ h # NoId
      /\ table' = [table EXCEPT !.head = (@ + 1) % Depth, !.count = @ + 1]
  BY <1>0 DEF AddEntry, queues, Goto, Control, Requesting, Accepting, Real, Ids, NoId
<1>2. ~InTable(h) /\ table.slots[table.head] = h
  BY <1>1 DEF Path, Scans
<1>3. /\ \A id : InTable(id)' <=> id = h \/ InTable(id)
      /\ Distinct => Distinct'
  BY <1>0, <1>1, <1>2, GrownTable DEF TableTypes
<1>4. /\ \A id : (Has(requests, id)' <=> Has(requests, id)) /\ (Once(requests, id)' <=> Once(requests, id))
      /\ \A id : (Has(responses, id)' <=> Has(responses, id)) /\ (Once(responses, id)' <=> Once(responses, id))
  BY <1>1, SameRequests, SameResponses
<1>5. \A id : ~InMqtt(id) /\ (InMqtt(id)' <=> id = h)
  BY <1>1 DEF InMqtt, Working, Nothing
<1>6. \A id : Cached(id)' <=> Cached(id)
  BY <1>1 DEF Cached
<1>7. Scans'
  BY <1>1 DEF Scans
<1> HIDE DEF h
<1>8. \A id : Placed(id)' <=> Placed(id) \/ id = h
  BY <1>1, <1>4, <1>5 DEF Placed
<1>9. h \notin forgotten => ~Placed(h)
  BY <1>1, <1>2 DEF Path, Tracked
<1>10. \A id \in Ids \ forgotten : OnePlace(id)'
  <2>1. ASSUME NEW id \in Ids \ forgotten PROVE OnePlace(id)'
    <3>1. OnePlace(id)
      BY DEF Path, Tracked
    <3>2. CASE id = h
      BY <1>1, <1>4, <1>9, <3>1, <3>2 DEF OnePlace, Placed
    <3>3. CASE id # h
      BY <1>1, <1>4, <1>5, <3>1, <3>3 DEF OnePlace
    <3>4. QED BY <3>2, <3>3
  <2>2. QED BY <2>1
<1>11. Tracked'
  BY <1>1, <1>3, <1>8, <1>10 DEF Path, Tracked
<1>12. Executed'
  BY <1>1, <1>4, <1>5, <1>6 DEF Path, Executed, Entering
<1>13. QED BY <1>7, <1>11, <1>12 DEF Path

\* From mqtt_gw_task into the request queue.
LEMMA EnqueuePath ==
  ASSUME Types, Path, Enqueue PROVE Path'
<1>0. Control /\ QueueTypes
  BY DEF Types
<1> DEFINE h == hand.id
<1>1. /\ UNCHANGED <<hand, scan, table, cache, forgotten, pending, executing, responses, ran>>
      /\ pc = "enqueue" /\ pc' = "raw" /\ pending = Nothing /\ hand.sound = TRUE /\ h \in Ids
      /\ requests' = Append(requests, h)
  BY <1>0 DEF Enqueue, memory, Goto, Control, Requesting, Accepting, Real
<1>2. /\ \A id : InTable(id)' <=> InTable(id)
      /\ Distinct' <=> Distinct
  BY <1>1, SameTable
<1>3. \A id : /\ Has(requests, id)' <=> id = h \/ Has(requests, id)
              /\ Once(requests, id) /\ (id = h => ~Has(requests, id)) => Once(requests, id)'
  <2>1. \A id : /\ Has(Append(requests, h), id) <=> id = h \/ Has(requests, id)
                /\ Once(requests, id) /\ (id = h => ~Has(requests, id)) => Once(Append(requests, h), id)
    BY <1>0, <1>1, AppendQueue DEF QueueTypes
  <2>2. \A id : (Has(requests, id)' <=> Has(Append(requests, h), id))
                /\ (Once(requests, id)' <=> Once(Append(requests, h), id))
    BY <1>1 DEF Has, Once
  <2>3. QED BY <2>1, <2>2
<1>4. \A id : (Has(responses, id)' <=> Has(responses, id)) /\ (Once(responses, id)' <=> Once(responses, id))
  BY <1>1, SameResponses
<1>5. \A id : ~InMqtt(id)' /\ (InMqtt(id) <=> id = h)
  BY <1>1 DEF InMqtt, Working, Nothing
<1>6. \A id : Cached(id)' <=> Cached(id)
  BY <1>1 DEF Cached
<1>7. Scans'
  BY <1>1 DEF Scans
<1>8. \A id \in ran \ forgotten : id # h
  BY <1>1 DEF Path, Executed, Entering
<1> HIDE DEF h
<1>9. \A id : Placed(id)' <=> Placed(id)
  BY <1>1, <1>3, <1>4, <1>5 DEF Placed
<1>10. \A id : OnePlace(id) => OnePlace(id)'
  BY <1>1, <1>3, <1>4, <1>5 DEF OnePlace
<1>11. Tracked'
  BY <1>1, <1>2, <1>9, <1>10 DEF Path, Tracked
<1>12. Executed'
  BY <1>1, <1>3, <1>4, <1>5, <1>6, <1>8 DEF Path, Executed, Entering
<1>13. QED BY <1>7, <1>11, <1>12 DEF Path

\* From the request queue into pmbus_poll_task.  The command was not executed
\* before: one that was is nowhere, or its trace was erased.
LEMMA ExecutePath ==
  ASSUME Types, Path, Execute PROVE Path'
<1>0. QueueTypes /\ Control /\ History
  BY DEF Types
<1>1. PICK h : h = Head(requests)
  OBVIOUS
<1>2. /\ UNCHANGED <<pc, hand, scan, table, cache, forgotten, pending, responses>>
      /\ executing = NoId /\ executing' = h /\ requests # <<>> /\ requests' = Tail(requests)
      /\ ran' = ran \union {h} /\ h \in Ids /\ NoId \notin Ids
  <2>1. Head(requests) \in Ids
    BY <1>0, HeadTailProperties DEF Execute, QueueTypes
  <2>2. QED BY <1>1, <2>1 DEF Execute, memory, Ids, NoId
<1>3. /\ \A i : Entry(i)' = Entry(i)
      /\ \A id : InTable(id)' <=> InTable(id)
      /\ Distinct' <=> Distinct
  BY <1>2, SameTable
<1>4. \A id : /\ Has(requests, id) <=> id = h \/ Has(requests, id)'
              /\ Once(requests, id) => Once(requests, id)' /\ (id = h => ~Has(requests, id)')
  <2>1. \A id : /\ Has(requests, id) <=> id = h \/ Has(Tail(requests), id)
                /\ Once(requests, id) => /\ Once(Tail(requests), id)
                                         /\ id = h => ~Has(Tail(requests), id)
    BY <1>0, <1>1, <1>2, TailQueue DEF QueueTypes
  <2>2. \A id : (Has(requests, id)' <=> Has(Tail(requests), id))
                /\ (Once(requests, id)' <=> Once(Tail(requests), id))
    BY <1>2 DEF Has, Once
  <2>3. QED BY <2>1, <2>2
<1>5. \A id : (Has(responses, id)' <=> Has(responses, id)) /\ (Once(responses, id)' <=> Once(responses, id))
  BY <1>2, SameResponses
<1>6. \A id : InMqtt(id)' <=> InMqtt(id)
  BY <1>2 DEF InMqtt
<1>7. \A id : Cached(id)' <=> Cached(id)
  BY <1>2 DEF Cached
<1>8. Scans'
  <2>1. /\ pc \in {"check", "find", "undo"} =>
             \A i \in 0 .. table'.count - 1 : i < scan' => Entry(i)' # hand'.id
        /\ pc \in {"close", "closeUndo"} => scan' < table'.count /\ Entry(scan)' = hand'.id
    BY <1>2, <1>3 DEF Path, Scans
  <2>2. (pc = "check" => ~Cached(hand.id)') /\ (pc = "add" => ~InTable(hand.id)')
    BY <1>2, <1>3, <1>7 DEF Path, Scans
  <2>3. QED BY <1>2, <2>1, <2>2 DEF Path, Scans
<1>9. \A id \in Ids : Placed(id)' <=> Placed(id)
  BY <1>2, <1>4, <1>5, <1>6 DEF Placed
<1>10. \A id \in Ids : OnePlace(id) => OnePlace(id)'
  BY <1>2, <1>4, <1>5, <1>6 DEF OnePlace
<1>11. Tracked'
  BY <1>2, <1>3, <1>9, <1>10 DEF Path, Tracked
<1>12. ASSUME h \notin forgotten PROVE ~Has(requests, h)' /\ (pc \in Entering => hand.id # h)
  <2>1. OnePlace(h) /\ (Placed(h) => InTable(h)) /\ Has(requests, h)
    BY <1>2, <1>4, <1>12 DEF Path, Tracked
  <2>2. ~Has(requests, h)'
    BY <1>4, <2>1 DEF OnePlace
  <2>3. pc = "add" => hand.id # h
    BY <2>1 DEF Path, Scans, Placed
  <2>4. pc \in {"enqueue", "undo", "closeUndo"} => hand.id # h
    <3>1. ~InMqtt(h)
      BY <2>1 DEF OnePlace
    <3>2. QED BY <1>0, <3>1 DEF InMqtt, Working, Control, Accepting
  <2>5. QED BY <2>2, <2>3, <2>4 DEF Entering
<1>13. Executed'
  <2>1. ASSUME NEW id \in ran \ forgotten
        PROVE  /\ ~Has(requests, id)' /\ (pc' \in Entering => hand'.id # id)
               /\ Cached(id)' \/ executing' = id \/ Has(responses, id)' \/ InMqtt(id)'
    <3>1. id \in Ids
      BY <1>0 DEF History
    <3>2. QED BY <1>2, <1>4, <1>5, <1>6, <1>7, <3>1 DEF Path, Executed
  <2>2. QED BY <1>2, <1>12, <2>1 DEF Executed
<1>14. QED BY <1>8, <1>11, <1>13 DEF Path

\* From pmbus_poll_task into the response queue.
LEMMA RespondPath ==
  ASSUME Types, Path, Respond PROVE Path'
<1>0. QueueTypes /\ History
  BY DEF Types
<1> DEFINE h == executing
<1>1. /\ UNCHANGED <<pc, hand, scan, table, cache, forgotten, pending, requests, ran>>
      /\ h # NoId /\ h \in Ids /\ executing' = NoId /\ NoId \notin Ids
      /\ responses' = Append(responses, h)
  BY <1>0 DEF Respond, memory, QueueTypes, Ids, NoId
<1>2. /\ \A i : Entry(i)' = Entry(i)
      /\ \A id : InTable(id)' <=> InTable(id)
      /\ Distinct' <=> Distinct
  BY <1>1, SameTable
<1>3. \A id : /\ Has(responses, id)' <=> id = h \/ Has(responses, id)
              /\ Once(responses, id) /\ (id = h => ~Has(responses, id)) => Once(responses, id)'
  <2>1. \A id : /\ Has(Append(responses, h), id) <=> id = h \/ Has(responses, id)
                /\ Once(responses, id) /\ (id = h => ~Has(responses, id)) => Once(Append(responses, h), id)
    BY <1>0, <1>1, AppendQueue DEF QueueTypes
  <2>2. \A id : (Has(responses, id)' <=> Has(Append(responses, h), id))
                /\ (Once(responses, id)' <=> Once(Append(responses, h), id))
    BY <1>1 DEF Has, Once
  <2>3. QED BY <2>1, <2>2
<1>4. \A id : (Has(requests, id)' <=> Has(requests, id)) /\ (Once(requests, id)' <=> Once(requests, id))
  BY <1>1, SameRequests
<1>5. \A id : InMqtt(id)' <=> InMqtt(id)
  BY <1>1 DEF InMqtt
<1>6. \A id : Cached(id)' <=> Cached(id)
  BY <1>1 DEF Cached
<1>7. Scans'
  <2>1. /\ pc \in {"check", "find", "undo"} =>
             \A i \in 0 .. table'.count - 1 : i < scan' => Entry(i)' # hand'.id
        /\ pc \in {"close", "closeUndo"} => scan' < table'.count /\ Entry(scan)' = hand'.id
    BY <1>1, <1>2 DEF Path, Scans
  <2>2. (pc = "check" => ~Cached(hand.id)') /\ (pc = "add" => ~InTable(hand.id)')
    BY <1>1, <1>2, <1>6 DEF Path, Scans
  <2>3. QED BY <1>1, <2>1, <2>2 DEF Path, Scans
<1>8. \A id \in Ids : Placed(id)' <=> Placed(id)
  BY <1>1, <1>3, <1>4, <1>5 DEF Placed
<1>9. \A id \in Ids : OnePlace(id) => OnePlace(id)'
  BY <1>1, <1>3, <1>4, <1>5 DEF OnePlace
<1>10. Tracked'
  BY <1>1, <1>2, <1>8, <1>9 DEF Path, Tracked
<1>11. Executed'
  BY <1>0, <1>1, <1>3, <1>4, <1>5, <1>6 DEF Path, Executed, History
<1>12. QED BY <1>7, <1>10, <1>11 DEF Path

(***************************************************************************)
(* Placed and OnePlace are what Places says: one place, at most one.       *)
(***************************************************************************)
LEMMA SoundBoolean == \A x \in Real \union {Nothing} : x.sound \in BOOLEAN
<1>1. \A x \in Real : x.sound \in BOOLEAN
  BY DEF Real
<1>2. Nothing.sound = FALSE
  BY DEF Nothing
<1>3. QED BY <1>1, <1>2

\* The members of Places, one kind of place at a time.
LEMMA InPlaces ==
  ASSUME Types, NEW id, NEW p
  PROVE  p \in Places(id) <=>
           \/ \E j \in 1 .. Len(requests) : requests[j] = id /\ p = <<"request", j>>
           \/ executing = id /\ p = <<"executing", id>>
           \/ \E j \in 1 .. Len(responses) : responses[j] = id /\ p = <<"response", j>>
           \/ InMqtt(id) /\ p = <<"mqtt", id>>
<1>1. hand.sound \in BOOLEAN /\ pending.sound \in BOOLEAN
  BY SoundBoolean DEF Types, Control
<1>2. id \in {y.id : y \in InHand} <=> InMqtt(id)
  <2>1. \A y : y \in InHand <=> \/ y = hand /\ hand.sound = TRUE /\ (hand = pending \/ pc \in Working)
                                \/ y = pending /\ pending.sound = TRUE
    BY <1>1 DEF InHand
  <2>2. QED BY <2>1 DEF InMqtt
<1>3. p \in {<<"mqtt", x>> : x \in {y.id : y \in InHand} \intersect {id}}
        <=> InMqtt(id) /\ p = <<"mqtt", id>>
  BY <1>2
<1>4. p \in {<<"executing", x>> : x \in {executing} \intersect {id}}
        <=> executing = id /\ p = <<"executing", id>>
  OBVIOUS
<1>5. p \in {<<"request", i>> : i \in {j \in 1 .. Len(requests) : requests[j] = id}}
        <=> \E j \in 1 .. Len(requests) : requests[j] = id /\ p = <<"request", j>>
  OBVIOUS
<1>6. p \in {<<"response", i>> : i \in {j \in 1 .. Len(responses) : responses[j] = id}}
        <=> \E j \in 1 .. Len(responses) : responses[j] = id /\ p = <<"response", j>>
  OBVIOUS
<1>7. QED BY <1>3, <1>4, <1>5, <1>6 DEF Places

\* A command has a place when Placed says so, and one when OnePlace does.
LEMMA PlacedMeans ==
  ASSUME Types, NEW id
  PROVE  /\ Places(id) # {} <=> Placed(id)
         /\ OnePlace(id) => \A p, q \in Places(id) : p = q
<1>1. ASSUME Places(id) # {} PROVE Placed(id)
  BY <1>1, InPlaces DEF Placed, Has
<1>2. ASSUME Placed(id) PROVE \E p : p \in Places(id)
  <2>1. CASE Has(requests, id)
    <3>1. PICK j \in 1 .. Len(requests) : requests[j] = id
      BY <2>1 DEF Has
    <3>2. <<"request", j>> \in Places(id)
      BY <3>1, InPlaces
    <3>3. QED BY <3>2
  <2>2. CASE Has(responses, id)
    <3>1. PICK j \in 1 .. Len(responses) : responses[j] = id
      BY <2>2 DEF Has
    <3>2. <<"response", j>> \in Places(id)
      BY <3>1, InPlaces
    <3>3. QED BY <3>2
  <2>3. CASE executing = id
    <3>1. <<"executing", id>> \in Places(id)
      BY <2>3, InPlaces
    <3>2. QED BY <3>1
  <2>4. CASE InMqtt(id)
    <3>1. <<"mqtt", id>> \in Places(id)
      BY <2>4, InPlaces
    <3>2. QED BY <3>1
  <2>5. QED BY <1>2, <2>1, <2>2, <2>3, <2>4 DEF Placed
<1>3. ASSUME OnePlace(id), NEW p \in Places(id), NEW q \in Places(id) PROVE p = q
  <2>1. \A r \in Places(id) :
           \/ \E j \in 1 .. Len(requests) : requests[j] = id /\ r = <<"request", j>>
           \/ executing = id /\ r = <<"executing", id>>
           \/ \E j \in 1 .. Len(responses) : responses[j] = id /\ r = <<"response", j>>
           \/ InMqtt(id) /\ r = <<"mqtt", id>>
    BY InPlaces
  <2>2. CASE Has(requests, id)
    <3>1. \A r \in Places(id) : \E j \in 1 .. Len(requests) : requests[j] = id /\ r = <<"request", j>>
      BY <1>3, <2>1, <2>2 DEF OnePlace, Has
    <3>2. QED BY <1>3, <3>1 DEF OnePlace, Once
  <2>3. CASE Has(responses, id)
    <3>1. \A r \in Places(id) : \E j \in 1 .. Len(responses) : responses[j] = id /\ r = <<"response", j>>
      BY <1>3, <2>1, <2>3 DEF OnePlace, Has
    <3>2. QED BY <1>3, <3>1 DEF OnePlace, Once
  <2>4. CASE ~Has(requests, id) /\ ~Has(responses, id)
    BY <1>3, <2>1, <2>4 DEF OnePlace, Has
  <2>5. QED BY <2>2, <2>3, <2>4
<1>4. QED BY <1>1, <1>2, <1>3

(***************************************************************************)
(* Steps that end a command.                                               *)
(***************************************************************************)
\* The command in mqtt_gw_task's hands is answered, or refused, and leaves:
\* the table, where its entry was found or is no more, and the pipeline.
LEMMA FinishedPath ==
  ASSUME Types, Path, Finished, UNCHANGED <<requests, executing, responses, ran>>,
         \A id : InTable(id)' <=> InTable(id) /\ id # hand.id, Distinct'
  PROVE  Path'
<1>0. Control /\ CacheTypes
  BY DEF Types
<1>h. PICK h : h = hand.id
  OBVIOUS
<1>1. \/ /\ pc \in {"find", "close"} /\ pc' = "responses" /\ hand' = hand
         /\ pending \in {Nothing, hand} /\ pending' = Nothing /\ h \in Ids /\ hand \in Real
         /\ cache' = CachePut(hand)
         /\ forgotten' = forgotten \union Evicted(hand) \union Strayed(h)
      \/ /\ pc \in {"undo", "closeUndo"} /\ pc' = "error" /\ hand' = Message(h, FALSE)
         /\ pending = Nothing /\ pending' = pending /\ h \in Ids
         /\ cache' = cache /\ forgotten' = forgotten
  BY <1>0, <1>h DEF Finished, PendingCleared, Goto, Control, Requesting, Answering, Real
<1>2. /\ \A id : (Has(requests, id)' <=> Has(requests, id)) /\ (Once(requests, id)' <=> Once(requests, id))
      /\ \A id : (Has(responses, id)' <=> Has(responses, id)) /\ (Once(responses, id)' <=> Once(responses, id))
  BY SameRequests, SameResponses
<1>3. forgotten \subseteq forgotten'
  BY <1>1
<1>4. \A id : ~InMqtt(id)' /\ (InMqtt(id) => id = h)
  BY <1>1, <1>h DEF InMqtt, Working, Nothing, Message
<1>5. Scans'
  BY <1>1 DEF Scans
<1>6. \A id : Placed(id)' => Placed(id)
  BY <1>2, <1>4 DEF Placed
<1>7. \A id : id # h => (Placed(id)' <=> Placed(id))
  BY <1>2, <1>4 DEF Placed
<1>8. \A id : OnePlace(id) => OnePlace(id)'
  BY <1>2, <1>4 DEF OnePlace
<1>9. h \notin forgotten' => ~Placed(h)'
  <2>1. CASE hand.sound = TRUE
    <3>1. InMqtt(h)
      BY <1>1, <1>h, <2>1 DEF InMqtt, Working
    <3>2. h \notin forgotten => OnePlace(h)
      BY <1>1 DEF Path, Tracked
    <3>3. QED BY <1>2, <1>3, <1>4, <3>1, <3>2 DEF OnePlace, Placed
  <2>2. CASE hand.sound = FALSE
    <3>1. pc \in {"find", "close"}
      BY <1>0, <1>1, <2>2 DEF Control, Accepting
    <3>2. h \in Strayed(h) \/ ~Placed(h)
      BY <2>2, PlacedMeans DEF Strayed
    <3>3. QED BY <1>1, <1>6, <3>1, <3>2
  <2>3. hand.sound \in BOOLEAN
    BY <1>0, SoundBoolean DEF Control
  <2>4. QED BY <2>1, <2>2, <2>3
<1>10. Tracked'
  <2>1. ASSUME NEW id \in Ids, InTable(id)' PROVE Placed(id)'
    BY <1>h, <1>7, <2>1 DEF Path, Tracked
  <2>2. ASSUME NEW id \in Ids \ forgotten' PROVE OnePlace(id)' /\ (Placed(id)' => InTable(id)')
    <3>1. OnePlace(id) /\ (Placed(id) => InTable(id))
      BY <1>3 DEF Path, Tracked
    <3>2. QED BY <1>h, <1>6, <1>8, <1>9, <3>1
  <2>3. ~InTable(NoId)'
    BY DEF Path, Tracked
  <2>4. QED BY <2>1, <2>2, <2>3 DEF Tracked
<1>11. ASSUME NEW id \in ran \ forgotten', Cached(id) \/ InMqtt(id)
       PROVE  Cached(id)' \/ executing = id \/ Has(responses, id)
  <2>1. CASE pc \in {"find", "close"}
    <3>1. cache' = CachePut(hand) /\ id \notin Evicted(hand) /\ hand \in Real
      BY <1>1, <2>1
    <3>2. CASE Cached(id)
      BY <3>1, <3>2, EvictedNamed
    <3>3. CASE InMqtt(id)
      <4>1. Len(CachePut(hand)) \in 1 .. CacheDepth /\ CachePut(hand)[1] = hand
        BY <1>0, <3>1, RealMessages, CachePutKeeps DEF CacheTypes
      <4>2. 1 \in 1 .. Len(cache') /\ cache'[1].id = id
        BY <1>h, <1>4, <3>1, <3>3, <4>1
      <4>3. QED BY <4>2 DEF Cached
    <3>4. QED BY <1>11, <3>2, <3>3
  <2>2. CASE pc \in {"undo", "closeUndo"}
    <3>1. id # h
      BY <1>h, <1>3, <2>2 DEF Path, Executed, Entering
    <3>2. Cached(id)
      BY <1>4, <1>11, <3>1
    <3>3. QED BY <1>1, <2>2, <3>2 DEF Cached
  <2>3. QED BY <1>1, <2>1, <2>2
<1>12. Executed'
  <2>1. ASSUME NEW id \in ran \ forgotten'
        PROVE  /\ ~Has(requests, id) /\ pc' \notin Entering
               /\ Cached(id)' \/ executing = id \/ Has(responses, id)
    <3>1. /\ ~Has(requests, id)
          /\ Cached(id) \/ executing = id \/ Has(responses, id) \/ InMqtt(id)
      BY <1>3 DEF Path, Executed
    <3>2. QED BY <1>1, <1>11, <3>1 DEF Entering
  <2>2. QED BY <1>2, <2>1 DEF Executed
<1>13. QED BY <1>5, <1>10, <1>12 DEF Path

\* The entry is gone already.
LEMMA NotFoundPath ==
  ASSUME Types, Path, NotFound PROVE Path'
<1>1. /\ pc \in {"find", "undo"} /\ scan >= table.count /\ Finished
      /\ UNCHANGED <<table, requests, executing, responses, ran>>
  BY DEF NotFound, queues
<1>2. ~InTable(hand.id)
  BY <1>1, Searched DEF Path
<1>3. (\A id : InTable(id)' <=> InTable(id)) /\ (Distinct' <=> Distinct)
  BY <1>1, SameTable
<1>4. (\A id : InTable(id)' <=> InTable(id) /\ id # hand.id) /\ Distinct'
  BY <1>2, <1>3 DEF Path, Tracked
<1>5. QED BY <1>1, <1>4, FinishedPath

\* The entry is removed.
LEMMA ClosePath ==
  ASSUME Types, Path, Close PROVE Path'
<1>0. TableTypes
  BY DEF Types
<1>1. /\ pc \in {"close", "closeUndo"} /\ table' = Closed(scan) /\ Finished
      /\ UNCHANGED <<requests, executing, responses, ran>>
  BY DEF Close, queues
<1>2. scan \in 0 .. table.count - 1 /\ Entry(scan) = hand.id
  BY <1>0, <1>1, DepthType DEF Path, Scans, TableTypes, Tables
<1>3. (\A id : InTable(id)' <=> InTable(id) /\ id # hand.id) /\ Distinct'
  BY <1>0, <1>1, <1>2, ClosedTable DEF TableTypes, Path, Tracked
<1>4. QED BY <1>1, <1>3, FinishedPath

\* A response that is dropped takes its entry along.
LEMMA DropResponsePath ==
  ASSUME Types, Path, DropResponse, raced' = FALSE PROVE Path'
<1>0. TableTypes /\ QueueTypes
  BY DEF Types
<1>1. /\ UNCHANGED <<pc, hand, scan, cache, pending, requests, responses, ran>>
      /\ executing # NoId /\ executing' = NoId /\ NoId \notin Ids
      /\ table' = Removed(executing) /\ forgotten' = forgotten \union {executing}
  BY DEF DropResponse, NoId, Ids
<1>2. pc \notin {"check", "add", "find", "close", "undo", "closeUndo"}
  BY DEF DropResponse
<1>3. (\A id : InTable(id)' <=> InTable(id) /\ id # executing) /\ Distinct'
  BY <1>0, <1>1, RemovedTable DEF TableTypes, Path, Tracked
<1>4. /\ \A id : (Has(requests, id)' <=> Has(requests, id)) /\ (Once(requests, id)' <=> Once(requests, id))
      /\ \A id : (Has(responses, id)' <=> Has(responses, id)) /\ (Once(responses, id)' <=> Once(responses, id))
  BY <1>1, SameRequests, SameResponses
<1>5. \A id : InMqtt(id)' <=> InMqtt(id)
  BY <1>1 DEF InMqtt
<1>6. \A id : Cached(id)' <=> Cached(id)
  BY <1>1 DEF Cached
<1>7. Scans'
  BY <1>1, <1>2 DEF Scans
<1>8. \A id \in Ids : id # executing => /\ Placed(id)' <=> Placed(id)
                                        /\ OnePlace(id) => OnePlace(id)'
  BY <1>1, <1>4, <1>5 DEF Placed, OnePlace
<1>9. Tracked'
  <2>1. ASSUME NEW id \in Ids, InTable(id)' PROVE Placed(id)'
    BY <1>3, <1>8, <2>1 DEF Path, Tracked
  <2>2. ASSUME NEW id \in Ids \ forgotten' PROVE OnePlace(id)' /\ (Placed(id)' => InTable(id)')
    <3>1. OnePlace(id) /\ (Placed(id) => InTable(id)) /\ id # executing
      BY <1>1 DEF Path, Tracked
    <3>2. QED BY <1>3, <1>8, <3>1
  <2>3. ~InTable(NoId)'
    BY <1>3 DEF Path, Tracked
  <2>4. QED BY <1>3, <2>1, <2>2, <2>3 DEF Tracked
<1>10. Executed'
  <2>1. \A id \in ran \ forgotten' : id \in ran \ forgotten /\ id # executing
    BY <1>1
  <2>2. QED BY <1>1, <1>4, <1>5, <1>6, <2>1 DEF Path, Executed
<1>11. QED BY <1>7, <1>9, <1>10 DEF Path

\* At the start no command is on its way.
LEMMA PathInit ==
  ASSUME Init PROVE Path
<1>1. table.count = 0 /\ cache = <<>> /\ requests = <<>> /\ responses = <<>>
      /\ executing = NoId /\ NoId \notin Ids /\ pc = "connect" /\ pending = Nothing /\ ran = {}
  BY DEF Init, NoId, Ids
<1>2. \A id : ~InTable(id)
  BY <1>1 DEF InTable
<1>3. Distinct
  BY <1>1 DEF Distinct
<1>4. \A id : ~InMqtt(id)
  BY <1>1 DEF InMqtt, Working, Nothing
<1>5. \A id : ~Has(requests, id) /\ ~Has(responses, id) /\ Once(requests, id) /\ Once(responses, id)
  BY <1>1 DEF Has, Once
<1>6. \A id \in Ids : OnePlace(id) /\ ~Placed(id)
  BY <1>1, <1>4, <1>5 DEF OnePlace, Placed
<1>7. Scans
  BY <1>1 DEF Scans
<1>8. QED BY <1>1, <1>2, <1>3, <1>6, <1>7 DEF Path, Tracked, Executed

\* Every step keeps the command path, until the table is disturbed.
LEMMA UndisturbedStep ==
  ASSUME Types, Undisturbed, [Next]_vars PROVE Undisturbed'
<1> SUFFICES ASSUME raced' = FALSE PROVE Path'
  BY DEF Undisturbed
<1>1. CASE UNCHANGED vars
  <2>1. Still /\ pc' = pc /\ raced' = raced
    BY <1>1 DEF vars, command, memory, queues, Still
  <2>2. QED BY <2>1, StillPath DEF Undisturbed
<1>2. CASE Idle
  <2>1. /\ Still
        /\ \/ pc' = pc
           \/ pc \in Resting \union {"check", "cached"} /\ pc' \in Resting
    BY <1>2, IdleFrame DEF Types
  <2>2. raced = FALSE
    BY <2>1 DEF Still
  <2>3. QED BY <2>1, <2>2, StillPath DEF Undisturbed
<1>3. CASE TakeRaw
  BY <1>3, TakeRawPath DEF Undisturbed, TakeRaw
<1>4. CASE Look
  BY <1>4, LookPath DEF Undisturbed, Look
<1>5. CASE Found
  BY <1>5, FoundPath DEF Undisturbed, Found
<1>6. CASE RetryPending
  BY <1>6, RetryPath DEF Undisturbed, RetryPending
<1>7. CASE Answer
  BY <1>7, AnswerPath DEF Undisturbed, Answer
<1>8. CASE AnswerError
  BY <1>8, AnswerErrorPath DEF Undisturbed, AnswerError
<1>9. CASE AddRefused
  BY <1>9, AddRefusedPath DEF Undisturbed, AddRefused
<1>10. CASE AddSlot
  BY <1>10, AddSlotPath DEF Undisturbed, AddSlot
<1>11. CASE AddEntry
  BY <1>11, AddEntryPath DEF Undisturbed, AddEntry
<1>12. CASE Enqueue
  BY <1>12, EnqueuePath DEF Undisturbed, Enqueue
<1>13. CASE EnqueueFull
  BY <1>13, EnqueueFullPath DEF Undisturbed, EnqueueFull
<1>14. CASE TakeResponse
  BY <1>14, TakeResponsePath DEF Undisturbed, TakeResponse
<1>15. CASE NotFound
  BY <1>15, NotFoundPath DEF Undisturbed, NotFound
<1>16. CASE Close
  BY <1>16, ClosePath DEF Undisturbed, Close
<1>17. CASE Execute
  BY <1>17, ExecutePath DEF Undisturbed, Execute
<1>18. CASE Respond
  BY <1>18, RespondPath DEF Undisturbed, Respond
<1>19. CASE DropResponse
  <2>1. raced \in BOOLEAN
    BY DEF Types, Flags
  <2>2. raced # TRUE
    BY <1>19, Zenon DEF DropResponse
  <2>3. raced = FALSE
    BY <2>1, <2>2
  <2>4. QED BY <1>19, <2>3, DropResponsePath DEF Undisturbed
<1>20. QED
  BY <1>1, <1>2, <1>3, <1>4, <1>5, <1>6, <1>7, <1>8, <1>9, <1>10, <1>11, <1>12, <1>13,
     <1>14, <1>15, <1>16, <1>17, <1>18, <1>19
     DEF Next, Mqtt, Poll, Responses, Requests, Remove, Idle

Followed == Types /\ Undisturbed

\* The types and the command path hold always.
LEMMA FollowedInvariant == Spec => []Followed
<1>1. Init => Followed
  BY TypesInit, PathInit DEF Followed, Undisturbed
<1>2. Followed /\ [Next]_vars => Followed'
  BY TypesStep, UndisturbedStep DEF Followed
<1>3. QED BY <1>1, <1>2, PTL DEF Spec

(***************************************************************************)
(* The theorems.                                                           *)
(***************************************************************************)
LEMMA AtMostOne ==
  ASSUME NEW S, \A p, q \in S : p = q
  PROVE  Cardinality(S) = IF S = {} THEN 0 ELSE 1
<1>1. CASE S = {}
  BY <1>1, FS_EmptySet
<1>2. CASE S # {}
  <2>1. PICK p : S = {p}
    BY <1>2
  <2>2. Cardinality({p}) = 1
    BY FS_Singleton
  <2>3. QED BY <1>2, <2>1, <2>2
<1>3. QED BY <1>1, <1>2

\* Until the table is disturbed, the command path holds.
LEMMA NotRaced == ASSUME Followed, ~raced PROVE Path
<1>1. raced \in BOOLEAN
  BY DEF Followed, Types, Flags
<1>2. raced = FALSE
  BY <1>1
<1>3. QED BY <1>2 DEF Followed, Undisturbed

\* The command path says where commands are and what the table holds.
LEMMA FollowedExact == Followed => InFlightExact
<1> SUFFICES ASSUME Followed, ~raced
             PROVE  /\ Matches(NoId) = {}
                    /\ \A id \in Ids \ forgotten : Cardinality(Matches(id)) = Cardinality(Places(id))
  BY DEF InFlightExact
<1>1. Path /\ Types
  BY NotRaced DEF Followed
<1>2. \A id : Matches(id) = {} <=> ~InTable(id)
  BY DEF Matches, InTable
<1>3. Matches(NoId) = {}
  BY <1>1, <1>2 DEF Path, Tracked
<1>4. ASSUME NEW id \in Ids \ forgotten
      PROVE  Cardinality(Matches(id)) = Cardinality(Places(id))
  <2>1. \A i, j \in Matches(id) : i = j
    BY <1>1 DEF Path, Tracked, Distinct, Matches
  <2>2. OnePlace(id) /\ (InTable(id) <=> Placed(id))
    BY <1>1 DEF Path, Tracked
  <2>3. (\A p, q \in Places(id) : p = q) /\ (Places(id) # {} <=> Placed(id))
    BY <1>1, <2>2, PlacedMeans
  <2>4. Matches(id) = {} <=> Places(id) = {}
    BY <1>2, <2>2, <2>3
  <2>5. Cardinality(Matches(id)) = IF Matches(id) = {} THEN 0 ELSE 1
    BY <2>1, AtMostOne
  <2>6. Cardinality(Places(id)) = IF Places(id) = {} THEN 0 ELSE 1
    BY <2>3, AtMostOne
  <2>7. QED BY <2>4, <2>5, <2>6
<1>5. QED BY <1>3, <1>4

\* Every entry of a full table is of a different command on its way, and only
\* so many of them fit without a full request queue.
LEMMA FollowedRoom == Followed => TrackerFullOnlyWithQueue
<1> SUFFICES ASSUME Followed, ~raced, pc = "check", table.count >= Depth
             PROVE  Len(requests) = QueueDepth
  BY DEF TrackerFullOnlyWithQueue
<1>1. Path /\ TableTypes /\ QueueTypes /\ Control
  BY NotRaced DEF Followed, Types
<1>2. /\ QueueDepth \in Nat /\ Depth \in Nat /\ Depth = 2 * QueueDepth + 1
      /\ Len(requests) \in 0 .. QueueDepth /\ Len(responses) \in 0 .. QueueDepth
      /\ table.count = Depth
  <2>1. QueueDepth \in Nat /\ Depth \in Nat /\ Depth = 2 * QueueDepth + 1
    BY DepthType
  <2>2. Len(requests) \in Nat /\ Len(requests) <= QueueDepth
        /\ Len(responses) \in Nat /\ Len(responses) <= QueueDepth
    BY <1>1, LenProperties DEF QueueTypes
  <2>3. table.count \in 0 .. Depth
    BY <1>1 DEF TableTypes, Tables
  <2>4. QED BY <2>1, <2>2, <2>3
<1> DEFINE n == Len(requests)
           T == 1 .. n + 1 + Len(responses)
           S == 0 .. Depth - 1
           At(i) == IF i <= n THEN requests[i]
                    ELSE IF i = n + 1 THEN executing ELSE responses[i - n - 1]
<1>3. \A id : ~InMqtt(id)
  BY <1>1, NoneInMqtt DEF Control, Requesting, Working
<1>4. ASSUME NEW k \in S PROVE \E i \in T : At(i) = Entry(k)
  <2>1. InTable(Entry(k))
    BY <1>2 DEF InTable
  <2>2. Entry(k) \in 0 .. MaxIds
    <3>1. k \in Slots /\ table.head \in Slots /\ table.slots \in [Slots -> 0 .. MaxIds]
      BY <1>1 DEF Slots, TableTypes, Tables
    <3>2. Pos(table.head, k) \in Slots
      BY <3>1, PosValue
    <3>3. QED BY <3>1, <3>2, EntryPos
  <2>3. Entry(k) \in Ids
    BY <1>1, <2>1, <2>2, CmdAssumption DEF Path, Tracked, NoId, Ids
  <2>4. Placed(Entry(k))
    BY <1>1, <2>1, <2>3 DEF Path, Tracked
  <2>5. CASE Has(requests, Entry(k))
    <3>1. PICK i \in 1 .. n : requests[i] = Entry(k)
      BY <2>5 DEF Has
    <3>2. i \in T /\ At(i) = Entry(k)
      BY <1>2, <3>1
    <3>3. QED BY <3>2
  <2>6. CASE executing = Entry(k)
    <3>1. n + 1 \in T /\ At(n + 1) = Entry(k)
      BY <1>2, <2>6
    <3>2. QED BY <3>1
  <2>7. CASE Has(responses, Entry(k))
    <3>1. PICK i \in 1 .. Len(responses) : responses[i] = Entry(k)
      BY <2>7 DEF Has
    <3>2. n + 1 + i \in T /\ (n + 1 + i) - n - 1 = i /\ ~(n + 1 + i <= n) /\ n + 1 + i # n + 1
      BY <1>2, <3>1
    <3>3. At(n + 1 + i) = Entry(k)
      BY <3>1, <3>2
    <3>4. QED BY <3>2, <3>3
  <2>8. QED BY <1>3, <2>4, <2>5, <2>6, <2>7 DEF Placed
<1> HIDE DEF At
<1> DEFINE f == [k \in S |-> CHOOSE i \in T : At(i) = Entry(k)]
<1>5. f \in [S -> T] /\ \A k \in S : At(f[k]) = Entry(k)
  BY <1>4
<1>6. ASSUME NEW x \in S, NEW y \in S, f[x] = f[y] PROVE x = y
  BY <1>1, <1>2, <1>5, <1>6 DEF Path, Tracked, Distinct
<1> HIDE DEF f
<1>7. /\ IsFiniteSet(S) /\ Cardinality(S) = Depth
      /\ IsFiniteSet(T) /\ Cardinality(T) = n + 1 + Len(responses)
  <2> DEFINE s == Depth - 1
             t == n + 1 + Len(responses)
  <2>1. s \in Int /\ t \in Int /\ s >= 0 /\ t >= 1 /\ s - 0 + 1 = Depth /\ t - 1 + 1 = t
    BY <1>2
  <2> HIDE DEF s, t
  <2>2. IsFiniteSet(0 .. s) /\ Cardinality(0 .. s) = s - 0 + 1
    BY <2>1, FS_Interval
  <2>3. IsFiniteSet(1 .. t) /\ Cardinality(1 .. t) = t - 1 + 1
    BY <2>1, FS_Interval
  <2>4. QED BY <2>1, <2>2, <2>3 DEF s, t
<1> HIDE DEF S, T
<1>8. ~(Cardinality(T) < Cardinality(S))
  BY <1>5, <1>6, <1>7, FS_PigeonHole
<1>9. QED BY <1>2, <1>7, <1>8

\* For every depth and number of ids: an accepted command is in one place of the
\* pipeline and its id once in the in-flight table, until it is answered or
\* dropped, and the table holds nothing else.
THEOREM InFlightExactCorrect == Spec => []InFlightExact
BY FollowedInvariant, FollowedExact, PTL

\* For every queue depth, the in-flight table of twice that depth and one is
\* full only when the request queue is.
THEOREM TrackerFullOnlyWithQueueCorrect == Spec => []TrackerFullOnlyWithQueue
BY FollowedInvariant, FollowedRoom, PTL

\* A command that is executed was not executed before, or the trace of that was
\* erased: its response was dropped, evicted, or its entry taken along.
THEOREM DuplicateSuppressedCorrect == Spec => DuplicateSuppressed
<1>1. ASSUME Followed, [Next]_vars
      PROVE  [\A id \in Ids : ~raced /\ Execute /\ executing' = id => id \notin ran \ forgotten]_vars
  <2>1. ASSUME NEW id \in Ids, ~raced, Execute, executing' = id
        PROVE  id \notin ran \ forgotten
    <3>1. Path /\ QueueTypes
      BY <2>1, <1>1, NotRaced DEF Followed, Types
    <3>2. requests # <<>> /\ id = Head(requests)
      BY <2>1 DEF Execute
    <3>3. Has(requests, id)
      BY <3>1, <3>2, TailQueue DEF QueueTypes
    <3>4. QED BY <3>1, <3>3 DEF Path, Executed
  <2>2. QED BY <2>1
<1>2. QED BY <1>1, FollowedInvariant, PTL DEF Spec, DuplicateSuppressed
=============================================================================
