--------------------------- MODULE RunQueueProof ----------------------------
(***************************************************************************)
(* What the ring of process.c does, for every number of slots: how the set *)
(* of occupied slots changes when an element is added and when one is      *)
(* taken, and when the ring cannot be full.                                *)
(***************************************************************************)
EXTENDS RunQueue, FiniteSetTheorems, SequenceTheorems, TLAPS

\* (i + 1) % MAX_PROCESSES is the next slot, and slot 0 after the last one.
LEMMA AdvanceValue ==
    ASSUME NEW i \in Slot
    PROVE  /\ Advance(i) \in Slot
           /\ Advance(i) = IF i = MAX_PROCESSES - 1 THEN 0 ELSE i + 1
  <1>1. CASE i = MAX_PROCESSES - 1
    BY <1>1, MaxProcessesAssumption DEF Advance, Slot
  <1>2. CASE i # MAX_PROCESSES - 1
    BY <1>2, MaxProcessesAssumption DEF Advance, Slot
  <1>3. QED
    BY <1>1, <1>2

\* The occupied slots are slots, and there are none exactly when head = tail.
LEMMA OccupiedSlots ==
    ASSUME NEW head \in Slot, NEW tail \in Slot
    PROVE  /\ Occupied(head, tail) \subseteq Slot
           /\ Occupied(head, tail) = {} <=> head = tail
  BY MaxProcessesAssumption DEF Occupied, Slot

\* Adding an element to a ring that is not full takes one more slot, the one
\* at tail, and does not make the ring look empty.
LEMMA OccupiedPush ==
    ASSUME NEW head \in Slot, NEW tail \in Slot, ~IsFull(head, tail)
    PROVE  /\ tail \notin Occupied(head, tail)
           /\ Occupied(head, Advance(tail)) = Occupied(head, tail) \cup {tail}
           /\ Advance(tail) # head
  BY AdvanceValue, MaxProcessesAssumption DEF Occupied, Slot, IsFull

\* Taking the oldest element of a ring that is not empty frees its slot only.
LEMMA OccupiedPop ==
    ASSUME NEW head \in Slot, NEW tail \in Slot, head # tail
    PROVE  /\ head \in Occupied(head, tail)
           /\ Occupied(Advance(head), tail) = Occupied(head, tail) \ {head}
  BY AdvanceValue, MaxProcessesAssumption DEF Occupied, Slot

\* A full ring has every slot but tail occupied.
LEMMA OccupiedWhenFull ==
    ASSUME NEW head \in Slot, NEW tail \in Slot, IsFull(head, tail)
    PROVE  /\ Occupied(head, tail) = Slot \ {tail}
           /\ IsFiniteSet(Occupied(head, tail))
           /\ Cardinality(Occupied(head, tail)) = MAX_PROCESSES - 1
  <1>1. Occupied(head, tail) = Slot \ {tail}
    BY AdvanceValue, MaxProcessesAssumption DEF Occupied, Slot, IsFull
  <1>2. IsFiniteSet(Slot) /\ Cardinality(Slot) = MAX_PROCESSES
    BY FS_Interval, MaxProcessesAssumption DEF Slot
  <1>3. QED
    BY <1>1, <1>2, FS_RemoveElement, MaxProcessesAssumption

\* A ring that holds each member of a set once is not full if the set has at
\* most MAX_PROCESSES - 2 members.
LEMMA HoldsOnceNotFull ==
    ASSUME NEW head \in Slot, NEW tail \in Slot, NEW q,
           NEW S, IsFiniteSet(S), Cardinality(S) < MAX_PROCESSES - 1,
           HoldsOnce(q, head, tail, S)
    PROVE  ~IsFull(head, tail)
  <1> SUFFICES ASSUME IsFull(head, tail) PROVE FALSE
    OBVIOUS
  <1> DEFINE Occ == Occupied(head, tail)
             f == [i \in Occ |-> q[i]]
  <1>1. IsFiniteSet(Occ) /\ Cardinality(S) < Cardinality(Occ)
    BY OccupiedWhenFull
  <1>2. f \in [Occ -> S] /\ \A i, j \in Occ : q[i] = q[j] => i = j
    BY DEF HoldsOnce
  <1> HIDE DEF f, Occ
  <1>3. \E i, j \in Occ : i # j /\ f[i] = f[j]
    BY <1>1, <1>2, FS_PigeonHole
  <1>4. QED
    BY <1>2, <1>3 DEF f, Occ

\* Adding a new element to a ring that is not full.
LEMMA HoldsOncePush ==
    ASSUME NEW head \in Slot, NEW tail \in Slot, NEW D, NEW q \in [Slot -> D],
           NEW S, NEW p, p \notin S, ~IsFull(head, tail),
           HoldsOnce(q, head, tail, S)
    PROVE  HoldsOnce([q EXCEPT ![tail] = p], head, Advance(tail), S \cup {p})
  <1> DEFINE Occ == Occupied(head, tail)
             r == [q EXCEPT ![tail] = p]
  <1>1. /\ tail \notin Occ /\ Occ \subseteq Slot
        /\ Occupied(head, Advance(tail)) = Occ \cup {tail}
    BY OccupiedPush, OccupiedSlots
  <1>2. r[tail] = p /\ \A i \in Occ : r[i] = q[i]
    BY <1>1
  <1> HIDE DEF r, Occ
  <1>3. /\ \A i \in Occ : q[i] \in S
        /\ \A i, j \in Occ : q[i] = q[j] => i = j
        /\ \A x \in S : \E i \in Occ : q[i] = x
    BY DEF HoldsOnce, Occ
  <1>4. HoldsOnce(r, head, Advance(tail), S \cup {p})
    BY <1>1, <1>2, <1>3 DEF HoldsOnce
  <1>5. QED
    BY <1>4 DEF r

\* Taking the oldest element of a ring that is not empty.
LEMMA HoldsOncePop ==
    ASSUME NEW head \in Slot, NEW tail \in Slot, head # tail, NEW q, NEW S,
           HoldsOnce(q, head, tail, S)
    PROVE  /\ q[head] \in S
           /\ HoldsOnce(q, Advance(head), tail, S \ {q[head]})
  <1>1. /\ head \in Occupied(head, tail)
        /\ Occupied(Advance(head), tail) = Occupied(head, tail) \ {head}
    BY OccupiedPop
  <1>2. QED
    BY <1>1 DEF HoldsOnce

\* A ring that holds something is not empty.
LEMMA HoldsOnceNonEmpty ==
    ASSUME NEW head \in Slot, NEW tail \in Slot, NEW q, NEW S, S # {},
           HoldsOnce(q, head, tail, S)
    PROVE  head # tail
  BY OccupiedSlots DEF HoldsOnce

-----------------------------------------------------------------------------
(* The ring as a sequence.                                                 *)

\* The slot of the k-th element, counted from the oldest.
LEMMA SlotAt ==
    ASSUME NEW head \in Slot, NEW k \in 1 .. MAX_PROCESSES
    PROVE  /\ (head + k - 1) % MAX_PROCESSES \in Slot
           /\ (head + k - 1) % MAX_PROCESSES =
                  IF head + k - 1 < MAX_PROCESSES THEN head + k - 1
                  ELSE head + k - 1 - MAX_PROCESSES
  <1>1. CASE head + k - 1 < MAX_PROCESSES
    BY <1>1, MaxProcessesAssumption DEF Slot
  <1>2. CASE ~(head + k - 1 < MAX_PROCESSES)
    BY <1>2, MaxProcessesAssumption DEF Slot
  <1>3. QED
    BY <1>1, <1>2

\* The contents of a ring are a sequence, with an element for each occupied slot.
LEMMA ContentsType ==
    ASSUME NEW head \in Slot, NEW tail \in Slot, NEW q, NEW D, \A i \in Slot : q[i] \in D
    PROVE  /\ QueueLength(head, tail) \in 0 .. MAX_PROCESSES - 1
           /\ Contents(q, head, tail) \in Seq(D)
           /\ Len(Contents(q, head, tail)) = QueueLength(head, tail)
  <1> DEFINE n == QueueLength(head, tail)
             c == [k \in 1 .. n |-> q[(head + k - 1) % MAX_PROCESSES]]
  <1>1. n \in 0 .. MAX_PROCESSES - 1 /\ n \in Nat
    BY MaxProcessesAssumption DEF QueueLength, Slot
  <1>2. \A k \in 1 .. n : k \in 1 .. MAX_PROCESSES
    BY <1>1, MaxProcessesAssumption
  <1>3. \A k \in 1 .. n : q[(head + k - 1) % MAX_PROCESSES] \in D
    BY <1>2, SlotAt
  <1> HIDE DEF n
  <1>4. c \in Seq(D) /\ Len(c) = n
    BY <1>1, <1>3
  <1>5. QED
    BY <1>1, <1>4 DEF Contents, n

Holds(seq, x)           == \E k \in DOMAIN seq : seq[k] = x
InRing(q, head, tail, x) == \E i \in Occupied(head, tail) : q[i] = x

\* What the sequence holds is what the occupied slots hold.
LEMMA ContentsMembers ==
    ASSUME NEW head \in Slot, NEW tail \in Slot, NEW q, NEW x
    PROVE  Holds(Contents(q, head, tail), x) <=> InRing(q, head, tail, x)
  <1> DEFINE n == QueueLength(head, tail)
             at(k) == (head + k - 1) % MAX_PROCESSES
             Occ == Occupied(head, tail)
  <1>1. n \in 0 .. MAX_PROCESSES - 1
    BY MaxProcessesAssumption DEF QueueLength, Slot
  <1>2. ASSUME NEW k \in 1 .. n PROVE at(k) \in Occ
    <2>1. k \in 1 .. MAX_PROCESSES
      BY <1>1, MaxProcessesAssumption
    <2>2. at(k) = IF head + k - 1 < MAX_PROCESSES THEN head + k - 1
                  ELSE head + k - 1 - MAX_PROCESSES
      BY <2>1, SlotAt
    <2> HIDE DEF at
    <2>3. QED
      BY <2>1, <2>2, MaxProcessesAssumption DEF Occupied, QueueLength, Slot
  <1>3. ASSUME NEW i \in Occ PROVE \E k \in 1 .. n : at(k) = i
    <2> DEFINE k == IF i >= head THEN i - head + 1 ELSE i + MAX_PROCESSES - head + 1
    <2>1. k \in 1 .. n /\ k \in 1 .. MAX_PROCESSES
      BY MaxProcessesAssumption DEF Occupied, QueueLength, Slot
    <2>2. i = IF head + k - 1 < MAX_PROCESSES THEN head + k - 1
              ELSE head + k - 1 - MAX_PROCESSES
      BY MaxProcessesAssumption DEF Occupied, Slot
    <2> HIDE DEF k
    <2>3. at(k) = i
      BY <2>1, <2>2, SlotAt
    <2>4. QED
      BY <2>1, <2>3
  <1> HIDE DEF n, Occ
  <1>4. Contents(q, head, tail) = [k \in 1 .. n |-> q[at(k)]]
    BY DEF Contents, n
  <1>5. (\E k \in 1 .. n : q[at(k)] = x) <=> (\E i \in Occ : q[i] = x)
    BY <1>2, <1>3
  <1>6. QED
    BY <1>4, <1>5 DEF Occ, Holds, InRing

\* A ring that is not full has room for one more element.
LEMMA LengthPush ==
    ASSUME NEW head \in Slot, NEW tail \in Slot, ~IsFull(head, tail)
    PROVE  /\ QueueLength(head, tail) \in 0 .. MAX_PROCESSES - 2
           /\ QueueLength(head, Advance(tail)) = QueueLength(head, tail) + 1
  <1>1. /\ head \in 0 .. MAX_PROCESSES - 1 /\ tail \in 0 .. MAX_PROCESSES - 1
        /\ Advance(tail) = IF tail = MAX_PROCESSES - 1 THEN 0 ELSE tail + 1
        /\ Advance(tail) # head
    BY AdvanceValue DEF Slot, IsFull
  <1>2. CASE tail = MAX_PROCESSES - 1
    BY <1>1, <1>2, MaxProcessesAssumption DEF QueueLength
  <1>3. CASE tail # MAX_PROCESSES - 1
    BY <1>1, <1>3, MaxProcessesAssumption DEF QueueLength
  <1>4. QED
    BY <1>2, <1>3

LEMMA LengthPop ==
    ASSUME NEW head \in Slot, NEW tail \in Slot, head # tail
    PROVE  /\ QueueLength(head, tail) \in 1 .. MAX_PROCESSES - 1
           /\ QueueLength(Advance(head), tail) = QueueLength(head, tail) - 1
  <1>1. /\ head \in 0 .. MAX_PROCESSES - 1 /\ tail \in 0 .. MAX_PROCESSES - 1
        /\ Advance(head) = IF head = MAX_PROCESSES - 1 THEN 0 ELSE head + 1
    BY AdvanceValue DEF Slot
  <1>2. CASE head = MAX_PROCESSES - 1
    BY <1>1, <1>2, MaxProcessesAssumption DEF QueueLength
  <1>3. CASE head # MAX_PROCESSES - 1
    BY <1>1, <1>3, MaxProcessesAssumption DEF QueueLength
  <1>4. QED
    BY <1>2, <1>3

\* r is q with x at tail.
Adds(q, tail, x, r) == r[tail] = x /\ \A i \in Slot \ {tail} : r[i] = q[i]

\* Adding an element to a ring that is not full appends it to the contents.
LEMMA ContentsPush ==
    ASSUME NEW head \in Slot, NEW tail \in Slot, ~IsFull(head, tail),
           NEW q, NEW r, NEW x, Adds(q, tail, x, r)
    PROVE  Contents(r, head, Advance(tail)) = Append(Contents(q, head, tail), x)
  <1> DEFINE n == QueueLength(head, tail)
             at(k) == (head + k - 1) % MAX_PROCESSES
             old == Contents(q, head, tail)
             new == Contents(r, head, Advance(tail))
  <1>0. r[tail] = x /\ \A i \in Slot \ {tail} : r[i] = q[i]
    BY DEF Adds
  <1>1. n \in 0 .. MAX_PROCESSES - 2 /\ QueueLength(head, Advance(tail)) = n + 1
    BY LengthPush
  <1>2. \A k \in 1 .. n + 1 :
            /\ k \in 1 .. MAX_PROCESSES
            /\ k = n + 1 => at(k) = tail
            /\ k # n + 1 => at(k) # tail
    <2> SUFFICES ASSUME NEW k \in 1 .. n + 1
                 PROVE  /\ k \in 1 .. MAX_PROCESSES
                        /\ k = n + 1 => at(k) = tail
                        /\ k # n + 1 => at(k) # tail
      OBVIOUS
    <2>1. k \in 1 .. MAX_PROCESSES
      BY <1>1, MaxProcessesAssumption
    <2>2. at(k) = IF head + k - 1 < MAX_PROCESSES THEN head + k - 1
                  ELSE head + k - 1 - MAX_PROCESSES
      BY <2>1, SlotAt
    <2> HIDE DEF at
    <2>3. QED
      BY <1>1, <2>1, <2>2, MaxProcessesAssumption DEF QueueLength, Slot
  <1> DEFINE D == {q[i] : i \in Slot} \cup {r[i] : i \in Slot}
  <1>3. /\ \A i \in Slot : q[i] \in D /\ r[i] \in D
        /\ Advance(tail) \in Slot
    BY AdvanceValue
  <1> HIDE DEF D
  <1>4. /\ old \in Seq(D) /\ Len(old) = n
        /\ new \in Seq(D) /\ Len(new) = n + 1
    BY <1>1, <1>3, ContentsType
  <1>5. \A k \in 1 .. n : old[k] = q[at(k)]
    BY DEF Contents
  <1>6. \A k \in 1 .. n + 1 : new[k] = r[at(k)]
    BY <1>1 DEF Contents
  <1>7. \A k \in 1 .. n + 1 : at(k) \in Slot
    BY <1>2, SlotAt
  <1>8. r[tail] \in D /\ \A i \in Slot : i # tail => r[i] = q[i]
    BY <1>0, <1>3
  <1> HIDE DEF n, at, old, new
  <1>9. \A k \in 1 .. n + 1 : new[k] = IF k = n + 1 THEN r[tail] ELSE old[k]
    <2> SUFFICES ASSUME NEW k \in 1 .. n + 1
                 PROVE  new[k] = IF k = n + 1 THEN r[tail] ELSE old[k]
      OBVIOUS
    <2>1. CASE k = n + 1
      BY <2>1, <1>2, <1>6, <1>8
    <2>2. CASE k # n + 1
      <3>1. k \in 1 .. n
        BY <2>2, <1>1
      <3>2. QED
        BY <2>2, <3>1, <1>2, <1>5, <1>6, <1>7, <1>8
    <2>3. QED
      BY <2>1, <2>2
  <1>10. new = Append(old, r[tail])
    <2>1. Append(old, r[tail]) \in Seq(D) /\ Len(Append(old, r[tail])) = n + 1
      BY <1>4, <1>8
    <2>2. \A k \in 1 .. n + 1 : Append(old, r[tail])[k] = IF k = n + 1 THEN r[tail] ELSE old[k]
      BY <1>1, <1>4, <1>8
    <2>3. QED
      BY <1>4, <1>9, <2>1, <2>2, SeqEqual
  <1>11. QED
    BY <1>0, <1>10 DEF new, old

\* Taking the oldest element of a ring that is not empty takes the head of the
\* contents.
LEMMA ContentsPop ==
    ASSUME NEW head \in Slot, NEW tail \in Slot, head # tail, NEW q
    PROVE  /\ Contents(q, head, tail) # << >>
           /\ Head(Contents(q, head, tail)) = q[head]
           /\ Tail(Contents(q, head, tail)) = Contents(q, Advance(head), tail)
  <1> DEFINE n == QueueLength(head, tail)
             old == Contents(q, head, tail)
             new == Contents(q, Advance(head), tail)
  <1>1. /\ n \in 1 .. MAX_PROCESSES - 1
        /\ QueueLength(Advance(head), tail) = n - 1
    BY LengthPop
  <1> DEFINE D == {q[i] : i \in Slot}
  <1>2. Advance(head) \in Slot /\ \A i \in Slot : q[i] \in D
    BY AdvanceValue
  <1> HIDE DEF D
  <1>3. /\ old \in Seq(D) /\ Len(old) = n
        /\ new \in Seq(D) /\ Len(new) = n - 1
    BY <1>1, <1>2, ContentsType
  <1>4. old[1] = q[head]
    <2>1. (head + 1 - 1) % MAX_PROCESSES = head
      BY SlotAt, MaxProcessesAssumption DEF Slot
    <2>2. QED
      BY <1>1, <2>1 DEF Contents
  <1>5. \A k \in 1 .. n - 1 : new[k] = old[k + 1]
    <2> SUFFICES ASSUME NEW k \in 1 .. n - 1 PROVE new[k] = old[k + 1]
      OBVIOUS
    <2>1. k \in 1 .. MAX_PROCESSES /\ k + 1 \in 1 .. MAX_PROCESSES /\ k + 1 \in 1 .. n
      BY <1>1, MaxProcessesAssumption
    <2>2. (Advance(head) + k - 1) % MAX_PROCESSES = (head + (k + 1) - 1) % MAX_PROCESSES
      <3>1. (head + (k + 1) - 1) % MAX_PROCESSES =
                IF head + (k + 1) - 1 < MAX_PROCESSES THEN head + (k + 1) - 1
                ELSE head + (k + 1) - 1 - MAX_PROCESSES
        BY <2>1, SlotAt
      <3>2. (Advance(head) + k - 1) % MAX_PROCESSES =
                IF Advance(head) + k - 1 < MAX_PROCESSES THEN Advance(head) + k - 1
                ELSE Advance(head) + k - 1 - MAX_PROCESSES
        BY <1>2, <2>1, SlotAt
      <3>3. Advance(head) = IF head = MAX_PROCESSES - 1 THEN 0 ELSE head + 1
        BY AdvanceValue
      <3> DEFINE a == (head + (k + 1) - 1) % MAX_PROCESSES
                 b == (Advance(head) + k - 1) % MAX_PROCESSES
      <3>4. a = b
        <4> HIDE DEF a, b
        <4>1. /\ a = IF head + (k + 1) - 1 < MAX_PROCESSES THEN head + (k + 1) - 1
                     ELSE head + (k + 1) - 1 - MAX_PROCESSES
              /\ b = IF Advance(head) + k - 1 < MAX_PROCESSES THEN Advance(head) + k - 1
                     ELSE Advance(head) + k - 1 - MAX_PROCESSES
          BY <3>1, <3>2 DEF a, b
        <4>2. QED
          BY <4>1, <3>3, <2>1, <1>1, MaxProcessesAssumption DEF Slot
      <3>5. QED
        BY <3>4
    <2>3. new[k] = q[(Advance(head) + k - 1) % MAX_PROCESSES]
      BY <1>1 DEF Contents
    <2>4. old[k + 1] = q[(head + (k + 1) - 1) % MAX_PROCESSES]
      BY <2>1 DEF Contents
    <2>5. QED
      BY <2>2, <2>3, <2>4
  <1> HIDE DEF n, old, new
  <1>6. old # << >> /\ Head(old) = old[1]
    BY <1>1, <1>3
  <1>7. Tail(old) = new
    <2>1. /\ Tail(old) \in Seq(D) /\ Len(Tail(old)) = n - 1
          /\ \A k \in 1 .. n - 1 : Tail(old)[k] = old[k + 1]
      BY <1>3, <1>6, HeadTailProperties
    <2>2. QED
      BY <1>3, <1>5, <2>1, SeqEqual
  <1>8. QED
    BY <1>4, <1>6, <1>7 DEF old, new

\* The occupied slots are as many as the elements.
LEMMA OccupiedCount ==
    ASSUME NEW head \in Slot, NEW tail \in Slot
    PROVE  /\ IsFiniteSet(Occupied(head, tail))
           /\ Cardinality(Occupied(head, tail)) = QueueLength(head, tail)
           /\ QueueLength(head, tail) \in Nat
  <1>1. CASE head <= tail
    <2>1. head \in Int /\ tail - 1 \in Int /\ tail - 1 - head + 1 = tail - head
      BY DEF Slot
    <2>2. IsFiniteSet(head .. (tail - 1))
          /\ Cardinality(head .. (tail - 1)) = IF head > tail - 1 THEN 0 ELSE tail - 1 - head + 1
      BY <2>1, FS_Interval
    <2> QED
      BY <1>1, <2>1, <2>2 DEF Occupied, QueueLength, Slot
  <1>2. CASE ~(head <= tail)
    <2> DEFINE S == head .. (MAX_PROCESSES - 1)
               T == 0 .. (tail - 1)
    <2>1. /\ IsFiniteSet(S) /\ Cardinality(S) = MAX_PROCESSES - head
      BY FS_Interval, MaxProcessesAssumption DEF Slot
    <2>2. /\ IsFiniteSet(T) /\ Cardinality(T) = tail
      BY FS_Interval, MaxProcessesAssumption DEF Slot
    <2>3. S \cap T = {}
      BY <1>2, MaxProcessesAssumption DEF Slot
    <2>4. Occupied(head, tail) = S \cup T
      BY <1>2 DEF Occupied
    <2>5. QueueLength(head, tail) = MAX_PROCESSES - head + tail
      BY <1>2 DEF QueueLength
    <2> HIDE DEF S, T
    <2>6. /\ IsFiniteSet(S \cup T)
          /\ Cardinality(S \cup T) = Cardinality(S) + Cardinality(T) - Cardinality({})
      BY <2>1, <2>2, <2>3, FS_Union
    <2> QED
      BY <2>1, <2>2, <2>4, <2>5, <2>6, FS_EmptySet, MaxProcessesAssumption DEF Slot
  <1> QED
    BY <1>1, <1>2

\* A slot that is occupied has as many elements before it as it is behind the head.
LEMMA BehindHead ==
    ASSUME NEW head \in Slot, NEW tail \in Slot, NEW i \in Occupied(head, tail)
    PROVE  /\ i \in Slot
           /\ QueueLength(head, i) \in 0 .. QueueLength(head, tail) - 1
           /\ i # head => /\ QueueLength(head, i) >= 1
                          /\ QueueLength(Advance(head), i) = QueueLength(head, i) - 1
  <1>1. i \in Slot
    BY OccupiedSlots
  <1>2. QueueLength(head, i) \in 0 .. QueueLength(head, tail) - 1
    BY <1>1, MaxProcessesAssumption DEF Occupied, QueueLength, Slot
  <1>3. ASSUME i # head
        PROVE  /\ QueueLength(head, i) \in 1 .. MAX_PROCESSES - 1
               /\ QueueLength(Advance(head), i) = QueueLength(head, i) - 1
    BY <1>1, <1>3, LengthPop
  <1> QED
    BY <1>1, <1>2, <1>3, MaxProcessesAssumption

\* A ring that holds each member of a set once holds no more elements than there are
\* members.
LEMMA HoldsOnceLength ==
    ASSUME NEW head \in Slot, NEW tail \in Slot, NEW q,
           NEW S, IsFiniteSet(S), HoldsOnce(q, head, tail, S)
    PROVE  QueueLength(head, tail) <= Cardinality(S)
  <1> SUFFICES ASSUME ~(QueueLength(head, tail) <= Cardinality(S)) PROVE FALSE
    OBVIOUS
  <1> DEFINE Occ == Occupied(head, tail)
             f == [i \in Occ |-> q[i]]
  <1>1. IsFiniteSet(Occ) /\ Cardinality(S) < Cardinality(Occ)
    <2>1. Cardinality(S) \in Nat
      BY FS_CardinalityType
    <2> QED
      BY <2>1, OccupiedCount
  <1>2. f \in [Occ -> S] /\ \A i, j \in Occ : q[i] = q[j] => i = j
    BY DEF HoldsOnce
  <1>3. \A i \in Occ : f[i] = q[i]
    OBVIOUS
  <1> HIDE DEF f, Occ
  <1>4. \E i, j \in Occ : i # j /\ f[i] = f[j]
    BY <1>1, <1>2, FS_PigeonHole
  <1> QED
    BY <1>2, <1>3, <1>4

=============================================================================
