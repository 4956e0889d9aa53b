------------------------ MODULE SessionRecordsProofs ------------------------
(***************************************************************************)
(* Proofs about SessionRecords, for any chats and any limits.              *)
(***************************************************************************)
EXTENDS SessionRecords, SequenceTheorems, FiniteSetTheorems, WellFoundedInduction, TLAPS

-----------------------------------------------------------------------------
(***************************************************************************)
(* Picking from sequences.  Pick is a recursive function: what is said of  *)
(* it is proved by induction, in the form of a set of numbers that holds 0 *)
(* and with each number the next one.                                      *)
(***************************************************************************)

\* A set that holds 0 and, up to N, with each number the next one, holds all up to N.
LEMMA Induction ==
    ASSUME NEW N \in Nat, NEW S, 0 \in S, \A n \in 0..N - 1 : n \in S => n + 1 \in S
    PROVE  \A n \in 0..N : n \in S
<1> SUFFICES ASSUME (0..N) \ S # {}
             PROVE  FALSE
  OBVIOUS
<1>1. PICK n \in (0..N) \ S : \A m \in (0..N) \ S : <<m, n>> \notin OpToRel(<, Nat)
  <2> DEFINE T == (0..N) \ S
  <2>1. T \subseteq Nat /\ T # {}
    OBVIOUS
  <2> HIDE DEF T
  <2>2. \E n \in T : \A m \in T : <<m, n>> \notin OpToRel(<, Nat)
    BY <2>1, NatLessThanWellFounded, WFMin, Zenon
  <2> QED
    BY <2>2 DEF T
<1>2. n - 1 \in 0..N - 1 /\ n - 1 + 1 = n
  OBVIOUS
<1>3. n - 1 \in (0..N) \ S
  BY <1>2
<1>4. <<n - 1, n>> \in OpToRel(<, Nat)
  <2>1. n - 1 \in Nat /\ n \in Nat /\ n - 1 < n
    BY <1>2
  <2> QED
    BY <2>1 DEF OpToRel
<1> QED
  BY <1>1, <1>3, <1>4, Zenon

\* The function that Pick is defined by, place by place.
IsPick(f, seq, places) ==
    /\ f[0] = <<>>
    /\ \A i \in 1..Len(seq) :
          f[i] = IF i \in places THEN Append(f[i - 1], seq[i]) ELSE f[i - 1]

LEMMA PickExists ==
    ASSUME NEW S, NEW seq \in Seq(S), NEW places
    PROVE  \E f : IsPick(f, seq, places) /\ Pick(seq, places) = f[Len(seq)]
<1> DEFINE next(f) ==
             [i \in 0..Len(seq) |->
                IF i = 0 THEN <<>>
                ELSE IF i \in places THEN Append(f[i - 1], seq[i])
                ELSE f[i - 1]]
           upTo[i \in 0..Len(seq)] ==
             IF i = 0 THEN <<>>
             ELSE IF i \in places THEN Append(upTo[i - 1], seq[i])
             ELSE upTo[i - 1]
           good(f, n) ==
             /\ f[0] = <<>>
             /\ \A i \in 1..n :
                   f[i] = IF i \in places THEN Append(f[i - 1], seq[i]) ELSE f[i - 1]
           reached == {n \in 0..Len(seq) : \E f : good(f, n)}
<1>1. Len(seq) \in Nat
  OBVIOUS
<1>2. 0 \in reached
  <2> DEFINE f == [i \in {0} |-> <<>>]
  <2>1. f[0] = <<>>
    OBVIOUS
  <2> HIDE DEF f
  <2>2. good(f, 0)
    BY <2>1
  <2> QED
    BY <2>2, <1>1
<1>3. ASSUME NEW n \in 0..Len(seq) - 1, n \in reached
      PROVE  n + 1 \in reached
  <2>1. PICK f : good(f, n)
    BY <1>3
  <2> DEFINE g == [i \in 0..n + 1 |->
                     IF i = n + 1
                     THEN IF i \in places THEN Append(f[n], seq[i]) ELSE f[n]
                     ELSE f[i]]
  <2>2. \A i \in 0..n : g[i] = f[i]
    BY <1>1
  <2>3. g[n + 1] = IF n + 1 \in places THEN Append(f[n], seq[n + 1]) ELSE f[n]
    BY <1>1
  <2> HIDE DEF g
  <2>4. good(g, n + 1)
    <3>1. g[0] = <<>>
      BY <2>1, <2>2, <1>1
    <3>2. ASSUME NEW i \in 1..n
          PROVE  g[i] = IF i \in places THEN Append(g[i - 1], seq[i]) ELSE g[i - 1]
      <4>1. g[i] = f[i] /\ g[i - 1] = f[i - 1]
        BY <2>2, <1>1
      <4> QED
        BY <4>1, <2>1
    <3>3. g[n + 1] = IF n + 1 \in places THEN Append(g[n + 1 - 1], seq[n + 1]) ELSE g[n + 1 - 1]
      BY <2>2, <2>3, <1>1
    <3> QED
      BY <3>1, <3>2, <3>3, <1>1
  <2> HIDE DEF good
  <2> QED
    BY <2>4, <1>1
<1>4. Len(seq) \in reached
  <2> HIDE DEF reached
  <2>1. \A n \in 0..Len(seq) : n \in reached
    BY <1>1, <1>2, <1>3, Induction
  <2> QED
    BY <1>1, <2>1
<1>5. PICK f : good(f, Len(seq))
  BY <1>4
<1>6. next([i \in 0..Len(seq) |-> f[i]]) = [i \in 0..Len(seq) |-> f[i]]
  BY <1>1, <1>5
<1>7. upTo = next(upTo)
  <2> DEFINE h == [i \in 0..Len(seq) |-> f[i]]
  <2>1. h = next(h)
    BY <1>6
  <2> HIDE DEF h
  <2>2. \E g : g = next(g)
    BY <2>1
  <2>3. upTo = CHOOSE g : g = next(g)
    BY Zenon
  <2> HIDE DEF next, upTo
  <2> QED
    BY <2>2, <2>3, Zenon
<1>8. Pick(seq, places) = upTo[Len(seq)]
  BY DEF Pick
<1> HIDE DEF upTo
<1>9. upTo[0] = <<>>
  BY <1>1, <1>7
<1>10. ASSUME NEW i \in 1..Len(seq)
       PROVE  upTo[i] = IF i \in places THEN Append(upTo[i - 1], seq[i]) ELSE upTo[i - 1]
  <2>1. i \in 0..Len(seq) /\ i # 0
    BY <1>1
  <2>2. upTo[i] = next(upTo)[i]
    BY <1>7
  <2> QED
    BY <2>1, <2>2
<1> QED
  BY <1>8, <1>9, <1>10 DEF IsPick

\* What is picked are elements of the sequence at the places, all of them.
LEMMA PickFacts ==
    ASSUME NEW S, NEW seq \in Seq(S), NEW places, NEW f, IsPick(f, seq, places),
           NEW n \in 0..Len(seq)
    PROVE  /\ f[n] \in Seq(S)
           /\ \A j \in DOMAIN f[n] : \E i \in 1..n : i \in places /\ f[n][j] = seq[i]
           /\ \A i \in 1..n : i \in places => \E j \in DOMAIN f[n] : f[n][j] = seq[i]
<1> DEFINE fine(m) ==
             /\ f[m] \in Seq(S)
             /\ \A j \in DOMAIN f[m] : \E i \in 1..m : i \in places /\ f[m][j] = seq[i]
             /\ \A i \in 1..m : i \in places => \E j \in DOMAIN f[m] : f[m][j] = seq[i]
           reached == {m \in 0..Len(seq) : fine(m)}
<1>1. Len(seq) \in Nat
  OBVIOUS
<1>2. 0 \in reached
  <2>1. f[0] = <<>>
    BY DEF IsPick
  <2>2. <<>> \in Seq(S) /\ DOMAIN <<>> = {}
    OBVIOUS
  <2>3. fine(0)
    BY <2>1, <2>2
  <2> HIDE DEF fine
  <2> QED
    BY <1>1, <2>3
<1>3. ASSUME NEW m \in 0..Len(seq) - 1, m \in reached
      PROVE  m + 1 \in reached
  <2>1. fine(m) /\ m + 1 \in 1..Len(seq) /\ m + 1 - 1 = m /\ m + 1 \in 0..Len(seq)
    <3>1. fine(m)
      BY <1>3
    <3> HIDE DEF fine, reached
    <3> QED
      BY <3>1, <1>1
  <2>2. seq[m + 1] \in S
    BY <2>1
  <2>3. f[m + 1] = IF m + 1 \in places THEN Append(f[m], seq[m + 1]) ELSE f[m]
    BY <2>1 DEF IsPick
  <2>4. CASE m + 1 \in places
    <3> DEFINE new == Append(f[m], seq[m + 1])
    <3>1. /\ new \in Seq(S) /\ Len(new) = Len(f[m]) + 1
          /\ \A j \in 1..Len(f[m]) : new[j] = f[m][j]
          /\ new[Len(f[m]) + 1] = seq[m + 1]
      BY <2>1, <2>2, AppendProperties
    <3>2. Len(f[m]) \in Nat /\ DOMAIN f[m] = 1..Len(f[m]) /\ DOMAIN new = 1..Len(f[m]) + 1
      BY <2>1, <3>1
    <3>3. f[m + 1] = new
      BY <2>3, <2>4
    <3> HIDE DEF new
    <3>4. \A j \in DOMAIN new : \E i \in 1..m + 1 : i \in places /\ new[j] = seq[i]
      <4> SUFFICES ASSUME NEW j \in DOMAIN new
                   PROVE  \E i \in 1..m + 1 : i \in places /\ new[j] = seq[i]
        OBVIOUS
      <4>1. CASE j = Len(f[m]) + 1
        <5>1. m + 1 \in 1..m + 1
          BY <1>1
        <5> QED
          BY <4>1, <5>1, <2>4, <3>1
      <4>2. CASE j \in 1..Len(f[m])
        <5>1. j \in DOMAIN f[m] /\ new[j] = f[m][j]
          BY <4>2, <3>1, <3>2
        <5>2. PICK i \in 1..m : i \in places /\ f[m][j] = seq[i]
          BY <5>1, <2>1
        <5>3. i \in 1..m + 1
          BY <1>1
        <5> QED
          BY <5>1, <5>2, <5>3
      <4>3. j = Len(f[m]) + 1 \/ j \in 1..Len(f[m])
        <5>1. Len(f[m]) \in Nat /\ j \in 1..Len(f[m]) + 1
          BY <3>2
        <5> HIDE DEF fine, reached
        <5> QED
          BY <5>1
      <4> QED
        BY <4>1, <4>2, <4>3
    <3>5. \A i \in 1..m + 1 : i \in places => \E j \in DOMAIN new : new[j] = seq[i]
      <4> SUFFICES ASSUME NEW i \in 1..m + 1, i \in places
                   PROVE  \E j \in DOMAIN new : new[j] = seq[i]
        OBVIOUS
      <4>1. CASE i = m + 1
        <5>1. Len(f[m]) + 1 \in DOMAIN new
          <6>1. Len(f[m]) \in Nat /\ DOMAIN new = 1..Len(f[m]) + 1
            BY <3>2
          <6> HIDE DEF fine, reached
          <6> QED
            BY <6>1
        <5>2. new[Len(f[m]) + 1] = seq[i]
          BY <4>1, <3>1
        <5> QED
          BY <5>1, <5>2
      <4>2. CASE i \in 1..m
        <5>1. PICK j \in DOMAIN f[m] : f[m][j] = seq[i]
          BY <4>2, <2>1
        <5> QED
          BY <5>1, <3>1, <3>2
      <4> QED
        BY <4>1, <4>2
    <3> QED
      BY <2>1, <3>1, <3>3, <3>4, <3>5
  <2>5. CASE m + 1 \notin places
    <3>1. f[m + 1] = f[m]
      BY <2>3, <2>5
    <3>2. \A i \in 1..m + 1 : i \in places => i \in 1..m
      BY <2>5
    <3>3. \A i \in 1..m : i \in 1..m + 1
      OBVIOUS
    <3> QED
      BY <2>1, <3>1, <3>2, <3>3
  <2> QED
    BY <2>4, <2>5
<1> HIDE DEF reached
<1>4. n \in reached
  BY <1>1, <1>2, <1>3, Induction
<1> QED
  BY <1>4 DEF reached

\* Where two sequences and two sets of places agree, so does what is picked.
LEMMA PickAgrees ==
    ASSUME NEW S, NEW s \in Seq(S), NEW t \in Seq(S), NEW A, NEW B,
           NEW f, IsPick(f, s, A), NEW g, IsPick(g, t, B),
           NEW n \in Nat, n <= Len(s), n <= Len(t),
           \A i \in 1..n : s[i] = t[i] /\ (i \in A <=> i \in B)
    PROVE  f[n] = g[n]
<1> DEFINE reached == {m \in 0..n : f[m] = g[m]}
<1>1. 0 \in reached
  BY DEF IsPick
<1>2. ASSUME NEW m \in 0..n - 1, m \in reached
      PROVE  m + 1 \in reached
  <2>1. m + 1 \in 1..Len(s) /\ m + 1 \in 1..Len(t) /\ m + 1 - 1 = m /\ m + 1 \in 1..n
    OBVIOUS
  <2>2. f[m + 1] = IF m + 1 \in A THEN Append(f[m], s[m + 1]) ELSE f[m]
    BY <2>1 DEF IsPick
  <2>3. g[m + 1] = IF m + 1 \in B THEN Append(g[m], t[m + 1]) ELSE g[m]
    BY <2>1 DEF IsPick
  <2>4. f[m + 1] = g[m + 1]
    BY <1>2, <2>1, <2>2, <2>3
  <2> QED
    BY <2>1, <2>4
<1> HIDE DEF reached
<1>3. \A m \in 0..n : m \in reached
  BY <1>1, <1>2, Induction
<1>4. n \in reached
  BY <1>3
<1> QED
  BY <1>4 DEF reached

\* Sequences are equal if they agree, and so is what is picked from them.
LEMMA PickEqual ==
    ASSUME NEW S, NEW s \in Seq(S), NEW A, NEW B, \A i \in DOMAIN s : i \in A <=> i \in B
    PROVE  Pick(s, A) = Pick(s, B)
<1>1. PICK f : IsPick(f, s, A) /\ Pick(s, A) = f[Len(s)]
  BY PickExists
<1>2. PICK g : IsPick(g, s, B) /\ Pick(s, B) = g[Len(s)]
  BY PickExists
<1>3. f[Len(s)] = g[Len(s)]
  BY <1>1, <1>2, PickAgrees
<1> QED
  BY <1>1, <1>2, <1>3

\* A pick from all but the last element.
LEMMA PickAppend ==
    ASSUME NEW S, NEW s \in Seq(S), NEW x \in S, NEW A
    PROVE  Pick(Append(s, x), A) =
             IF Len(s) + 1 \in A THEN Append(Pick(s, A), x) ELSE Pick(s, A)
<1> DEFINE t == Append(s, x)
<1>1. /\ t \in Seq(S) /\ Len(t) = Len(s) + 1 /\ t[Len(s) + 1] = x
      /\ \A i \in 1..Len(s) : t[i] = s[i]
      /\ Len(s) \in Nat
  BY AppendProperties
<1> HIDE DEF t
<1>2. PICK f : IsPick(f, s, A) /\ Pick(s, A) = f[Len(s)]
  BY PickExists
<1>3. PICK g : IsPick(g, t, A) /\ Pick(t, A) = g[Len(t)]
  BY <1>1, PickExists
<1>4. f[Len(s)] = g[Len(s)]
  BY <1>1, <1>2, <1>3, PickAgrees
<1>5. g[Len(s) + 1] =
         IF Len(s) + 1 \in A THEN Append(g[Len(s) + 1 - 1], t[Len(s) + 1]) ELSE g[Len(s) + 1 - 1]
  BY <1>1, <1>3 DEF IsPick
<1>6. Len(s) + 1 - 1 = Len(s)
  BY <1>1
<1> QED
  BY <1>1, <1>2, <1>3, <1>4, <1>5, <1>6 DEF t

-----------------------------------------------------------------------------
(***************************************************************************)
(* What the operations on a record do to its type, to whose rows and turns *)
(* it has, and to what its memory sums up.                                 *)
(***************************************************************************)

Authors(seq) == {seq[i].by : i \in DOMAIN seq}

\* Whoever has pushed something that is still in a record.
Writers(rec) == Authors(rec.rows) \cup Authors(rec.turns)

\* MemoryIsOfRecord and TurnsFollowRows, for one record
Sums(rec) == rec.memory \subseteq Authors(rec.rows) \cup rec.dropped
Follows(rec) == ~rec.skewed => TurnsOf(rec.rows) = rec.turns

LEMMA Constants ==
    /\ KeepRecent \in Nat \ {0} /\ KeepTight \in Nat \ {0}
    /\ Trigger \in Nat \ {0} /\ KeepTurns \in Nat \ {0} /\ KeepTurns <= Trigger
    /\ MaxCalls \in Nat /\ MaxEvents \in Nat
    /\ Past \notin Chats /\ NoChat \notin Chats /\ Tuner \notin Chats
    /\ Past # NoChat /\ Tuner # Past
BY RecordAssumption DEF RecordAssumption

LEMMA AuthorTypes ==
    ASSUME NEW s \in Seq(Row)
    PROVE  Authors(s) \subseteq Chats \cup {Past}
<1>1. \A i \in DOMAIN s : s[i] \in Row
  OBVIOUS
<1> QED
  BY <1>1 DEF Authors, Row

LEMMA TurnsAreRows == Seq(Turn) \subseteq Seq(Row)
<1>1. Turn \subseteq Row
  BY DEF Turn
<1> QED
  BY <1>1, SeqMonotonic

\* A piece of a sequence is a sequence of the same elements.
LEMMA Piece ==
    ASSUME NEW S, NEW s \in Seq(S), NEW m \in Nat \ {0}, NEW n \in Nat, n <= Len(s)
    PROVE  /\ SubSeq(s, m, n) \in Seq(S)
           /\ Len(SubSeq(s, m, n)) = IF m <= n THEN n - m + 1 ELSE 0
           /\ \A i \in DOMAIN SubSeq(s, m, n) :
                 /\ i + m - 1 \in DOMAIN s
                 /\ SubSeq(s, m, n)[i] = s[i + m - 1]
           /\ Authors(SubSeq(s, m, n)) \subseteq Authors(s)
<1>1. \A i \in m..n : s[i] \in S
  OBVIOUS
<1>2. /\ SubSeq(s, m, n) \in Seq(S)
      /\ Len(SubSeq(s, m, n)) = IF m <= n THEN n - m + 1 ELSE 0
      /\ \A i \in 1..n - m + 1 : SubSeq(s, m, n)[i] = s[m + i - 1]
  BY <1>1, SubSeqProperties
<1>3. DOMAIN SubSeq(s, m, n) = 1..Len(SubSeq(s, m, n))
  BY <1>2
<1>4. \A i \in DOMAIN SubSeq(s, m, n) : i \in 1..n - m + 1 /\ i + m - 1 \in DOMAIN s /\ m + i - 1 = i + m - 1
  BY <1>2, <1>3
<1>5. \A i \in DOMAIN SubSeq(s, m, n) : i + m - 1 \in DOMAIN s /\ SubSeq(s, m, n)[i] = s[i + m - 1]
  BY <1>2, <1>4
<1>6. Authors(SubSeq(s, m, n)) \subseteq Authors(s)
  BY <1>5 DEF Authors
<1> QED
  BY <1>2, <1>5, <1>6

LEMMA RepairedFacts ==
    ASSUME NEW s \in Seq(Row)
    PROVE  Repaired(s) \in Seq(Row) /\ Authors(Repaired(s)) \subseteq Authors(s)
<1> DEFINE at == {i \in DOMAIN s : Matched(s, i)}
<1>1. Repaired(s) = Pick(s, at)
  BY DEF Repaired
<1> HIDE DEF at
<1>2. PICK f : IsPick(f, s, at) /\ Pick(s, at) = f[Len(s)]
  BY PickExists
<1>3. Len(s) \in 0..Len(s) /\ 1..Len(s) = DOMAIN s
  OBVIOUS
<1>4. /\ Repaired(s) \in Seq(Row)
      /\ \A j \in DOMAIN Repaired(s) : \E i \in DOMAIN s : Repaired(s)[j] = s[i]
  BY <1>1, <1>2, <1>3, PickFacts
<1>5. Authors(Repaired(s)) \subseteq Authors(s)
  BY <1>4 DEF Authors
<1> QED
  BY <1>4, <1>5

LEMMA CutFacts ==
    ASSUME NEW s \in Seq(Row), NEW keep \in Nat
    PROVE  Cut(s, keep) \in Seq(Row) /\ Authors(Cut(s, keep)) \subseteq Authors(s)
<1>1. CASE Len(s) > keep
  <2>1. Cut(s, keep) = SubSeq(s, 1, Len(s) - keep)
    BY <1>1 DEF Cut
  <2>2. Len(s) - keep \in Nat /\ Len(s) - keep <= Len(s)
    BY <1>1
  <2> QED
    BY <2>1, <2>2, Piece
<1>2. CASE ~(Len(s) > keep)
  <2>1. Cut(s, keep) = <<>>
    BY <1>2 DEF Cut
  <2>2. Authors(<<>>) = {}
    BY DEF Authors
  <2> QED
    BY <2>1, <2>2
<1> QED
  BY <1>1, <1>2

\* A compaction writes the projection and the memory, which it extends by authors of rows.
LEMMA CompactFacts ==
    ASSUME NEW r \in Record, NEW keep \in Nat,
           NEW new \in Micro(r, keep) \cup Structured(r, keep) \cup WithoutModel(r)
    PROVE  /\ new \in Record
           /\ new.rows = r.rows /\ new.turns = r.turns /\ new.skewed = r.skewed
           /\ Writers(new) = Writers(r)
           /\ Sums(r) => Sums(new)
<1>1. r.rows \in Seq(Row)
  BY DEF Record
<1> DEFINE all == Repaired(r.rows)
<1>2. /\ all \in Seq(Row) /\ Authors(all) \subseteq Authors(r.rows)
      /\ \A k \in Nat : Cut(all, k) \in Seq(Row) /\ Authors(Cut(all, k)) \subseteq Authors(r.rows)
  <2>1. all \in Seq(Row) /\ Authors(all) \subseteq Authors(r.rows)
    BY <1>1, RepairedFacts
  <2> HIDE DEF all
  <2> QED
    BY <2>1, CutFacts
<1> SUFFICES /\ new \in Record
             /\ new.rows = r.rows /\ new.turns = r.turns /\ new.skewed = r.skewed
             /\ new.dropped = r.dropped
             /\ new.memory \subseteq r.memory \cup Authors(r.rows)
  BY DEF Writers, Sums
<1>3. ASSUME NEW p \in Projection, new = [r EXCEPT !.projection = p]
      PROVE  /\ new \in Record
             /\ new.rows = r.rows /\ new.turns = r.turns /\ new.skewed = r.skewed
             /\ new.dropped = r.dropped
             /\ new.memory \subseteq r.memory \cup Authors(r.rows)
  BY <1>3 DEF Record
<1>4. ASSUME NEW p \in Seq(Row)
      PROVE  [kind |-> "micro", prefix |-> p] \in Projection /\ [kind |-> "memory", prefix |-> p] \in Projection
  BY DEF Projection
<1> HIDE DEF all
<1>5. CASE new \in Micro(r, keep)
  <2>1. new = [r EXCEPT !.projection = [kind |-> "micro", prefix |-> Cut(all, keep)]]
    BY <1>5 DEF Micro, all
  <2> QED
    BY <2>1, <1>2, <1>3, <1>4
<1>6. CASE new \in WithoutModel(r)
  <2>1. new = [r EXCEPT !.projection = [kind |-> "micro", prefix |-> Cut(all, KeepTight)]]
    BY <1>6 DEF WithoutModel, all
  <2> QED
    BY <2>1, <1>2, <1>3, <1>4, Constants
<1>7. CASE new \in Structured(r, keep)
  <2> DEFINE prefix == Cut(all, keep)
             summed == {row.by : row \in ToSet(prefix)}
             p == [kind |-> "memory", prefix |-> prefix]
  <2>1. new = [r EXCEPT !.projection = p, !.memory = @ \cup summed]
    BY <1>7 DEF Structured, all
  <2>2. prefix \in Seq(Row) /\ Authors(prefix) \subseteq Authors(r.rows) /\ p \in Projection
    BY <1>2, <1>4
  <2>3. summed = Authors(prefix)
    BY DEF ToSet, Authors
  <2> HIDE DEF prefix, summed, p
  <2>4. summed \subseteq Authors(r.rows) /\ summed \subseteq Chats \cup {Past}
    BY <2>2, <2>3, <1>1, AuthorTypes
  <2> QED
    BY <2>1, <2>2, <2>4 DEF Record
<1> QED
  BY <1>5, <1>6, <1>7

\* Push appends one row, and one turn if the row is one.
LEMMA PushFacts ==
    ASSUME NEW r \in Record, NEW row \in Row
    PROVE  /\ Push(r, row) \in Record
           /\ Push(r, row).rows = Append(r.rows, row)
           /\ Push(r, row).turns = IF IsTurn(row) THEN Append(r.turns, row) ELSE r.turns
           /\ Push(r, row).skewed = r.skewed
           /\ Writers(Push(r, row)) \subseteq Writers(r) \cup {row.by}
           /\ Authors(Push(r, row).rows) = Authors(r.rows) \cup {row.by}
           /\ Push(r, row).memory = r.memory /\ Push(r, row).dropped = r.dropped
<1> DEFINE new == Push(r, row)
<1>1. /\ r.rows \in Seq(Row) /\ r.turns \in Seq(Turn) /\ r.turns \in Seq(Row)
      /\ row \in Turn <=> IsTurn(row)
  BY TurnsAreRows DEF Record, Turn, IsTurn
<1>2. Append(r.rows, row) \in Seq(Row) /\ (IsTurn(row) => Append(r.turns, row) \in Seq(Turn))
  BY <1>1
<1>3. /\ new \in Record
      /\ new.rows = Append(r.rows, row)
      /\ new.turns = IF IsTurn(row) THEN Append(r.turns, row) ELSE r.turns
      /\ new.skewed = r.skewed /\ new.memory = r.memory /\ new.dropped = r.dropped
  <2>1. CASE IsTurn(row)
    BY <2>1, <1>2 DEF Push, Record
  <2>2. CASE ~IsTurn(row)
    BY <2>2, <1>2 DEF Push, Record
  <2> QED
    BY <2>1, <2>2
<1>4. \A s \in Seq(Row) : Authors(Append(s, row)) = Authors(s) \cup {row.by}
  <2> SUFFICES ASSUME NEW s \in Seq(Row)
               PROVE  Authors(Append(s, row)) = Authors(s) \cup {row.by}
    OBVIOUS
  <2>1. DOMAIN Append(s, row) = DOMAIN s \cup {Len(s) + 1}
    OBVIOUS
  <2>2. Append(s, row)[Len(s) + 1] = row /\ \A i \in DOMAIN s : Append(s, row)[i] = s[i]
    OBVIOUS
  <2> QED
    BY <2>1, <2>2 DEF Authors
<1>5. Authors(new.rows) = Authors(r.rows) \cup {row.by}
  BY <1>1, <1>3, <1>4
<1>6. Authors(new.turns) \subseteq Authors(r.turns) \cup {row.by}
  BY <1>1, <1>3, <1>4
<1> HIDE DEF new
<1>7. Writers(new) \subseteq Writers(r) \cup {row.by}
  BY <1>5, <1>6 DEF Writers
<1> QED
  BY <1>3, <1>5, <1>7 DEF new

\* The place of a display row is a position or 0.
LEMMA PlaceFacts ==
    ASSUME NEW s \in Seq(Row), NEW k
    PROVE  DisplayAt(s, k) \in 0..Len(s)
<1> DEFINE at == {i \in DOMAIN s : IsDisplay(s[i])
                    /\ Cardinality({j \in 1..i : IsDisplay(s[j])}) = k}
<1>1. at \subseteq 1..Len(s) /\ Len(s) \in Nat
  OBVIOUS
<1>2. DisplayAt(s, k) = IF at = {} THEN 0 ELSE CHOOSE i \in at : TRUE
  BY DEF DisplayAt
<1> HIDE DEF at
<1>3. CASE at = {}
  BY <1>1, <1>2, <1>3
<1>4. CASE at # {}
  <2>1. (CHOOSE i \in at : TRUE) \in at
    BY <1>4
  <2>2. DisplayAt(s, k) \in at
    BY <2>1, <1>2, <1>4
  <2>3. DisplayAt(s, k) \in 1..Len(s)
    BY <2>2, <1>1, Zenon
  <2>4. 1..Len(s) \subseteq 0..Len(s)
    BY <1>1
  <2> QED
    BY <2>3, <2>4, Zenon
<1> QED
  BY <1>3, <1>4

\* Trimming leaves ends of the rows and of the turns, and remembers whose rows went.
LEMMA TrimFacts ==
    ASSUME NEW r \in Record, Len(r.turns) > KeepTurns
    PROVE  /\ Trimmed(r) \in Record
           /\ \E cut \in Nat :
                 /\ Trimmed(r).rows = SubSeq(r.rows, cut + 1, Len(r.rows))
                 /\ Trimmed(r).dropped = r.dropped \cup {r.rows[i].by : i \in (1..cut) \cap DOMAIN r.rows}
                 /\ DisplayAt(r.rows, Len(r.turns) - KeepTurns + 1) > 0 =>
                       cut = DisplayAt(r.rows, Len(r.turns) - KeepTurns + 1) - 1
           /\ Trimmed(r).turns = SubSeq(r.turns, Len(r.turns) - KeepTurns + 1, Len(r.turns))
           /\ Trimmed(r).memory = r.memory
           /\ Trimmed(r).skewed = Skewed(r)
<1> DEFINE drop == Len(r.turns) - KeepTurns
           place == DisplayAt(r.rows, drop + 1)
           displays == Cardinality({i \in DOMAIN r.rows : IsDisplay(r.rows[i])})
           share == (drop * Len(r.rows)) \div (IF displays = 0 THEN 1 ELSE displays)
           cut == IF place > 0 THEN place - 1 ELSE share
           gone == {r.rows[i].by : i \in (1..cut) \cap DOMAIN r.rows}
<1>1. /\ r.rows \in Seq(Row) /\ r.turns \in Seq(Turn)
      /\ drop \in Nat \ {0} /\ Len(r.rows) \in Nat /\ place \in Nat
      /\ DOMAIN r.rows = 1..Len(r.rows)
  BY PlaceFacts, Constants DEF Record
<1>2. displays \in Nat
  <2> DEFINE shown == {i \in DOMAIN r.rows : IsDisplay(r.rows[i])}
  <2>1. IsFiniteSet(1..Len(r.rows))
    <3>1. 1 \in Int /\ Len(r.rows) \in Int
      BY <1>1
    <3> QED
      BY <3>1, FS_Interval
  <2>2. shown \subseteq 1..Len(r.rows)
    BY <1>1
  <2> HIDE DEF shown
  <2>3. IsFiniteSet(shown)
    BY <2>1, <2>2, FS_Subset
  <2>4. Cardinality(shown) \in Nat
    BY <2>3, FS_CardinalityType
  <2> QED
    BY <2>4 DEF shown
<1>3. share \in Nat
  <2>1. \A a \in Nat, b \in Nat : a * b \in Nat
    OBVIOUS
  <2>2. \A a \in Nat, b \in Nat \ {0} : a \div b \in Nat
    OBVIOUS
  <2>3. drop \in Nat
    BY <1>1
  <2> HIDE DEF drop, displays
  <2>4. drop * Len(r.rows) \in Nat
    BY <1>1, <2>1, <2>3
  <2>5. (IF displays = 0 THEN 1 ELSE displays) \in Nat \ {0}
    BY <1>2
  <2> QED
    BY <2>2, <2>4, <2>5
<1>4. cut \in Nat
  <2> HIDE DEF place, share
  <2> QED
    BY <1>1, <1>3
<1>5. DisplayAt(r.rows, drop + 1) > 0 => cut = DisplayAt(r.rows, drop + 1) - 1
  OBVIOUS
<1>6. Trimmed(r) = [r EXCEPT !.rows = SubSeq(@, cut + 1, Len(@)), !.turns = SubSeq(@, drop + 1, Len(@)),
                             !.dropped = @ \cup gone, !.skewed = Skewed(r)]
  BY Zenon DEF Trimmed
<1> HIDE DEF cut, drop
<1>7. SubSeq(r.rows, cut + 1, Len(r.rows)) \in Seq(Row) /\ SubSeq(r.turns, drop + 1, Len(r.turns)) \in Seq(Turn)
  <2>1. cut + 1 \in Nat \ {0} /\ drop + 1 \in Nat \ {0} /\ Len(r.rows) <= Len(r.rows) /\ Len(r.turns) \in Nat /\ Len(r.turns) <= Len(r.turns)
    BY <1>1, <1>4
  <2> QED
    BY <1>1, <2>1, Piece
<1>8. gone \subseteq Chats \cup {Past}
  <2>1. \A i \in DOMAIN r.rows : r.rows[i].by \in Authors(r.rows)
    BY DEF Authors
  <2> QED
    BY <1>1, <2>1, AuthorTypes
<1>9. Skewed(r) \in BOOLEAN
  <2>1. r.skewed \in BOOLEAN
    BY DEF Record
  <2> QED
    BY <2>1, Zenon DEF Skewed
<1> HIDE DEF gone
<1>10. /\ Trimmed(r) \in Record
      /\ Trimmed(r).rows = SubSeq(r.rows, cut + 1, Len(r.rows))
      /\ Trimmed(r).turns = SubSeq(r.turns, drop + 1, Len(r.turns))
      /\ Trimmed(r).dropped = r.dropped \cup gone
      /\ Trimmed(r).memory = r.memory
      /\ Trimmed(r).skewed = Skewed(r)
  BY <1>6, <1>7, <1>8, <1>9 DEF Record
<1> QED
  BY <1>4, <1>5, <1>10 DEF gone, drop

\* What a trim takes out of the rows is remembered as dropped.
LEMMA TrimKeeps ==
    ASSUME NEW r \in Record, Len(r.turns) > KeepTurns
    PROVE  Writers(Trimmed(r)) \subseteq Writers(r) /\ (Sums(r) => Sums(Trimmed(r)))
<1> DEFINE new == Trimmed(r)
<1>1. PICK cut \in Nat :
         /\ new.rows = SubSeq(r.rows, cut + 1, Len(r.rows))
         /\ new.dropped = r.dropped \cup {r.rows[i].by : i \in (1..cut) \cap DOMAIN r.rows}
  BY TrimFacts
<1>2. new.turns = SubSeq(r.turns, Len(r.turns) - KeepTurns + 1, Len(r.turns)) /\ new.memory = r.memory
  BY TrimFacts
<1>3. /\ r.rows \in Seq(Row) /\ r.turns \in Seq(Turn)
      /\ Len(r.rows) \in Nat /\ Len(r.turns) \in Nat
      /\ cut + 1 \in Nat \ {0} /\ Len(r.turns) - KeepTurns + 1 \in Nat \ {0}
      /\ Len(r.rows) <= Len(r.rows) /\ Len(r.turns) <= Len(r.turns)
      /\ DOMAIN r.rows = 1..Len(r.rows)
  BY Constants DEF Record
<1> HIDE DEF new
<1>4. Authors(new.rows) \subseteq Authors(r.rows) /\ Authors(new.turns) \subseteq Authors(r.turns)
  <2>1. Authors(new.rows) \subseteq Authors(r.rows)
    BY <1>1, <1>3, Piece
  <2>2. Authors(new.turns) \subseteq Authors(r.turns)
    <3> DEFINE m == Len(r.turns) - KeepTurns + 1
    <3>1. new.turns = SubSeq(r.turns, m, Len(r.turns)) /\ m \in Nat \ {0}
      BY <1>2, <1>3
    <3> HIDE DEF m
    <3> QED
      BY <3>1, <1>3, Piece, SMTT(30)
  <2> QED
    BY <2>1, <2>2
<1>5. Authors(r.rows) \subseteq Authors(new.rows) \cup new.dropped
  <2> SUFFICES ASSUME NEW i \in DOMAIN r.rows, r.rows[i].by \notin new.dropped
               PROVE  \E j \in DOMAIN new.rows : new.rows[j] = r.rows[i]
    BY DEF Authors
  <2>1. i \in 1..Len(r.rows) /\ i > cut
    <3>1. i \in 1..Len(r.rows)
      BY <1>1
    <3>2. i \in 1..cut => r.rows[i].by \in new.dropped
      BY <1>1
    <3> HIDE DEF new
    <3> QED
      BY <3>1, <3>2, <1>3
  <2>2. /\ new.rows \in Seq(Row)
        /\ Len(new.rows) = IF cut + 1 <= Len(r.rows) THEN Len(r.rows) - (cut + 1) + 1 ELSE 0
        /\ \A j \in DOMAIN new.rows : new.rows[j] = r.rows[j + (cut + 1) - 1]
    <3> DEFINE first == cut + 1
               last == Len(r.rows)
    <3>1. new.rows = SubSeq(r.rows, first, last) /\ first \in Nat \ {0} /\ last \in Nat /\ last <= Len(r.rows)
      BY <1>1, <1>3
    <3> HIDE DEF first, last
    <3>2. /\ new.rows \in Seq(Row)
          /\ Len(new.rows) = IF first <= last THEN last - first + 1 ELSE 0
          /\ \A j \in DOMAIN new.rows : new.rows[j] = r.rows[j + first - 1]
      BY <1>3, <3>1, Piece, SMTT(30)
    <3> QED
      BY <3>2 DEF first, last
  <2> DEFINE j == i - cut
  <2>3. j \in 1..Len(new.rows) /\ j + (cut + 1) - 1 = i
    BY <2>1, <2>2, <1>3
  <2>4. DOMAIN new.rows = 1..Len(new.rows)
    BY <2>2
  <2> HIDE DEF j
  <2> QED
    BY <2>2, <2>3, <2>4
<1>6. r.dropped \subseteq new.dropped
  BY <1>1
<1> QED
  BY <1>2, <1>4, <1>5, <1>6 DEF Writers, Sums, new

\* A save leaves the record as it is, or trims it.
LEMMA SavedFacts ==
    ASSUME NEW r \in Record, NEW s \in Saved(r)
    PROVE  /\ s \in Record
           /\ Writers(s) \subseteq Writers(r)
           /\ Sums(r) => Sums(s)
           /\ s = r \/ (s = Trimmed(r) /\ Len(r.turns) > KeepTurns)
<1>1. Len(r.turns) \in Nat
  BY DEF Record
<1>2. s = r \/ (s = Trimmed(r) /\ Len(r.turns) > KeepTurns)
  BY <1>1, Constants DEF Saved
<1> QED
  BY <1>2, TrimFacts, TrimKeeps

LEMMA CutToFacts ==
    ASSUME store \in Record, NEW rows \in Seq(Row), NEW turns \in Seq(Turn)
    PROVE  /\ CutTo(rows, turns) \in Record
           /\ CutTo(rows, turns).rows = rows /\ CutTo(rows, turns).turns = turns
           /\ CutTo(rows, turns).skewed = Skewed(store)
           /\ Sums(CutTo(rows, turns))
<1>1. Skewed(store) \in BOOLEAN
  <2>1. store.skewed \in BOOLEAN
    BY DEF Record
  <2> QED
    BY <2>1, Zenon DEF Skewed
<1>2. NoProjection \in Projection
  BY DEF NoProjection, Projection
<1> DEFINE new == CutTo(rows, turns)
<1>3. /\ new \in Record
      /\ new.rows = rows /\ new.turns = turns
      /\ new.skewed = Skewed(store) /\ new.memory = {}
  BY <1>1, <1>2 DEF CutTo, Record
<1> HIDE DEF new
<1> QED
  BY <1>3 DEF Sums, new

LEMMA SliceFacts ==
    ASSUME NEW S, NEW s \in Seq(S), NEW n \in Nat
    PROVE  /\ Slice(s, n) \in Seq(S)
           /\ Len(Slice(s, n)) = IF n < Len(s) THEN n ELSE Len(s)
           /\ \A i \in DOMAIN Slice(s, n) : i \in DOMAIN s /\ Slice(s, n)[i] = s[i]
           /\ Authors(Slice(s, n)) \subseteq Authors(s)
<1> DEFINE m == IF n < Len(s) THEN n ELSE Len(s)
<1>1. m \in Nat /\ m <= Len(s) /\ 1 \in Nat \ {0}
  OBVIOUS
<1>2. Slice(s, n) = SubSeq(s, 1, m)
  BY DEF Slice
<1> HIDE DEF m
<1>3. /\ SubSeq(s, 1, m) \in Seq(S)
      /\ Len(SubSeq(s, 1, m)) = IF 1 <= m THEN m - 1 + 1 ELSE 0
      /\ \A i \in DOMAIN SubSeq(s, 1, m) :
            i + 1 - 1 \in DOMAIN s /\ SubSeq(s, 1, m)[i] = s[i + 1 - 1]
      /\ Authors(SubSeq(s, 1, m)) \subseteq Authors(s)
  BY <1>1, Piece
<1>4. \A i \in DOMAIN SubSeq(s, 1, m) : i + 1 - 1 = i
  BY <1>3
<1>5. Len(SubSeq(s, 1, m)) = m
  BY <1>1, <1>3
<1> QED
  BY <1>2, <1>3, <1>4, <1>5 DEF m

-----------------------------------------------------------------------------
(***************************************************************************)
(* The turns a transcript tells of, place by place.                        *)
(***************************************************************************)

\* The turns told of by the first n rows.
Told(rows, n) == TurnsOf(SubSeq(rows, 1, n))

LEMMA Beginning ==
    ASSUME NEW S, NEW s \in Seq(S), NEW n \in 0..Len(s)
    PROVE  /\ SubSeq(s, 1, n) \in Seq(S) /\ Len(SubSeq(s, 1, n)) = n
           /\ \A i \in 1..n : SubSeq(s, 1, n)[i] = s[i]
<1>1. n \in Nat /\ n <= Len(s) /\ 1 \in Nat \ {0}
  OBVIOUS
<1>2. /\ SubSeq(s, 1, n) \in Seq(S)
      /\ Len(SubSeq(s, 1, n)) = IF 1 <= n THEN n - 1 + 1 ELSE 0
      /\ \A i \in DOMAIN SubSeq(s, 1, n) : SubSeq(s, 1, n)[i] = s[i + 1 - 1]
  BY <1>1, Piece
<1>3. Len(SubSeq(s, 1, n)) = n
  BY <1>1, <1>2
<1>4. DOMAIN SubSeq(s, 1, n) = 1..n
  BY <1>2, <1>3
<1>5. \A i \in 1..n : i + 1 - 1 = i
  OBVIOUS
<1> QED
  BY <1>2, <1>3, <1>4, <1>5

LEMMA ToldIsPicked ==
    ASSUME NEW rows \in Seq(Row)
    PROVE  \E f : /\ IsPick(f, rows, {i \in DOMAIN rows : IsTurn(rows[i])})
                  /\ TurnsOf(rows) = f[Len(rows)]
                  /\ \A n \in 0..Len(rows) : Told(rows, n) = f[n]
<1> DEFINE at(s) == {i \in DOMAIN s : IsTurn(s[i])}
<1>1. PICK f : IsPick(f, rows, at(rows)) /\ TurnsOf(rows) = f[Len(rows)]
  BY PickExists DEF TurnsOf
<1>2. ASSUME NEW n \in 0..Len(rows)
      PROVE  Told(rows, n) = f[n]
  <2> DEFINE s == SubSeq(rows, 1, n)
  <2>1. s \in Seq(Row) /\ Len(s) = n /\ \A i \in 1..n : s[i] = rows[i]
    BY Beginning
  <2> HIDE DEF s
  <2>2. PICK g : IsPick(g, s, at(s)) /\ TurnsOf(s) = g[Len(s)]
    BY <2>1, PickExists DEF TurnsOf
  <2>3. \A i \in 1..n : i \in DOMAIN s /\ i \in DOMAIN rows /\ s[i] = rows[i]
    BY <2>1
  <2>4. \A i \in 1..n : i \in at(s) <=> i \in at(rows)
    BY <2>3
  <2>5. n \in Nat /\ n <= Len(s) /\ n <= Len(rows)
    BY <2>1
  <2> HIDE DEF at
  <2>6. g[n] = f[n]
    <3> DEFINE A == at(s)
               B == at(rows)
    <3>1. IsPick(g, s, A) /\ IsPick(f, rows, B)
      BY <1>1, <2>2
    <3>2. \A i \in 1..n : s[i] = rows[i] /\ (i \in A <=> i \in B)
      BY <2>3, <2>4
    <3> HIDE DEF A, B
    <3> QED
      BY <3>1, <3>2, <2>1, <2>5, PickAgrees
  <2> QED
    BY <2>1, <2>2, <2>6 DEF Told, s
<1> QED
  BY <1>1, <1>2

\* Row by row, a turn is told of or is not.
LEMMA ToldFacts ==
    ASSUME NEW rows \in Seq(Row)
    PROVE  /\ Told(rows, 0) = <<>>
           /\ Told(rows, Len(rows)) = TurnsOf(rows)
           /\ \A n \in 0..Len(rows) : Told(rows, n) \in Seq(Turn)
           /\ \A n \in 0..Len(rows) - 1 :
                 Told(rows, n + 1) = IF IsTurn(rows[n + 1]) THEN Append(Told(rows, n), rows[n + 1])
                                     ELSE Told(rows, n)
<1> DEFINE at == {i \in DOMAIN rows : IsTurn(rows[i])}
<1>1. PICK f : /\ IsPick(f, rows, at)
               /\ TurnsOf(rows) = f[Len(rows)]
               /\ \A n \in 0..Len(rows) : Told(rows, n) = f[n]
  BY ToldIsPicked
<1>2. Len(rows) \in Nat /\ DOMAIN rows = 1..Len(rows)
  OBVIOUS
<1>3. Told(rows, 0) = <<>> /\ Told(rows, Len(rows)) = TurnsOf(rows)
  BY <1>1, <1>2 DEF IsPick
<1>4. ASSUME NEW n \in 0..Len(rows)
      PROVE  Told(rows, n) \in Seq(Turn)
  <2>1. f[n] \in Seq(Row) /\ \A j \in DOMAIN f[n] : \E i \in 1..n : i \in at /\ f[n][j] = rows[i]
    <3> HIDE DEF at
    <3> QED
      BY <1>1, PickFacts
  <2>2. \A j \in 1..Len(f[n]) : f[n][j] \in Turn
    <3>1. \A i \in at : rows[i] \in Turn
      BY DEF Turn, IsTurn
    <3> HIDE DEF at
    <3> QED
      BY <2>1, <3>1
  <2>3. f[n] \in Seq(Turn)
    BY <2>1, <2>2
  <2> QED
    BY <1>1, <2>3
<1>5. ASSUME NEW n \in 0..Len(rows) - 1
      PROVE  Told(rows, n + 1) = IF IsTurn(rows[n + 1]) THEN Append(Told(rows, n), rows[n + 1])
                                 ELSE Told(rows, n)
  <2>1. n \in 0..Len(rows) /\ n + 1 \in 0..Len(rows) /\ n + 1 \in 1..Len(rows) /\ n + 1 - 1 = n
    BY <1>2
  <2>2. f[n + 1] = IF n + 1 \in at THEN Append(f[n], rows[n + 1]) ELSE f[n]
    <3> HIDE DEF at
    <3> QED
      BY <1>1, <2>1 DEF IsPick
  <2>3. n + 1 \in at <=> IsTurn(rows[n + 1])
    BY <1>2, <2>1
  <2> QED
    BY <1>1, <2>1, <2>2, <2>3
<1> QED
  BY <1>3, <1>4, <1>5

\* A row more is at most a turn more.
LEMMA TurnsAppend ==
    ASSUME NEW rows \in Seq(Row), NEW row \in Row
    PROVE  /\ TurnsOf(Append(rows, row)) =
                IF IsTurn(row) THEN Append(TurnsOf(rows), row) ELSE TurnsOf(rows)
           /\ \A n \in 0..Len(rows) : Told(Append(rows, row), n) = Told(rows, n)
<1> DEFINE more == Append(rows, row)
<1>1. /\ more \in Seq(Row) /\ Len(more) = Len(rows) + 1 /\ Len(rows) \in Nat
      /\ more[Len(rows) + 1] = row
      /\ \A i \in 1..Len(rows) : more[i] = rows[i]
  BY AppendProperties
<1> HIDE DEF more
<1>2. ASSUME NEW n \in 0..Len(rows)
      PROVE  SubSeq(more, 1, n) = SubSeq(rows, 1, n)
  <2>1. n \in 0..Len(more)
    BY <1>1
  <2>2. /\ SubSeq(rows, 1, n) \in Seq(Row) /\ Len(SubSeq(rows, 1, n)) = n
        /\ \A i \in 1..n : SubSeq(rows, 1, n)[i] = rows[i]
    BY Beginning
  <2>3. /\ SubSeq(more, 1, n) \in Seq(Row) /\ Len(SubSeq(more, 1, n)) = n
        /\ \A i \in 1..n : SubSeq(more, 1, n)[i] = more[i]
    BY <1>1, <2>1, Beginning
  <2>4. \A i \in 1..n : i \in 1..Len(rows)
    BY <1>1
  <2> QED
    BY <1>1, <2>2, <2>3, <2>4, SeqEqual
<1>3. \A n \in 0..Len(rows) : Told(more, n) = Told(rows, n)
  BY <1>2 DEF Told
<1>4. Len(rows) \in 0..Len(rows) /\ Len(rows) \in 0..Len(more) - 1
  BY <1>1
<1>5. Told(more, Len(rows) + 1) =
         IF IsTurn(more[Len(rows) + 1]) THEN Append(Told(more, Len(rows)), more[Len(rows) + 1])
         ELSE Told(more, Len(rows))
  BY <1>1, <1>4, ToldFacts
<1>6. Told(more, Len(rows) + 1) = TurnsOf(more) /\ Told(rows, Len(rows)) = TurnsOf(rows)
  BY <1>1, ToldFacts
<1> QED
  BY <1>1, <1>3, <1>4, <1>5, <1>6 DEF more

\* What the first rows tell of is a beginning of what all tell of.
LEMMA ToldPrefix ==
    ASSUME NEW rows \in Seq(Row), NEW n \in 0..Len(rows)
    PROVE  /\ Len(Told(rows, n)) <= Len(TurnsOf(rows))
           /\ Told(rows, n) = SubSeq(TurnsOf(rows), 1, Len(Told(rows, n)))
<1> DEFINE low == Told(rows, n)
           begins(m) == /\ Len(low) <= Len(Told(rows, m))
                        /\ \A i \in 1..Len(low) : low[i] = Told(rows, m)[i]
           S == {k \in 0..Len(rows) - n : begins(n + k)}
<1>1. Len(rows) \in Nat /\ n \in Nat /\ Len(rows) - n \in Nat
  OBVIOUS
<1>2. low \in Seq(Turn) /\ Len(low) \in Nat
  BY ToldFacts
<1>3. 0 \in S
  BY <1>1, <1>2
<1>4. ASSUME NEW k \in 0..Len(rows) - n - 1, k \in S
      PROVE  k + 1 \in S
  <2> DEFINE m == n + k
  <2>1. m \in 0..Len(rows) /\ m \in 0..Len(rows) - 1 /\ n + (k + 1) = m + 1
    BY <1>1
  <2>2. begins(m)
    BY <1>4
  <2> HIDE DEF m, low
  <2>3. Told(rows, m) \in Seq(Turn) /\ m + 1 \in 0..Len(rows) /\ Told(rows, m + 1) \in Seq(Turn)
    BY <1>1, <2>1, ToldFacts
  <2>4. Told(rows, m + 1) = IF IsTurn(rows[m + 1]) THEN Append(Told(rows, m), rows[m + 1])
                            ELSE Told(rows, m)
    BY <2>1, ToldFacts
  <2>5. begins(m + 1)
    <3>1. CASE IsTurn(rows[m + 1])
      <4>1. rows[m + 1] \in Row
        BY <1>1, <2>1
      <4>2. rows[m + 1] \in Turn
        BY <4>1, <3>1 DEF Turn, IsTurn
      <4>3. /\ Len(Told(rows, m + 1)) = Len(Told(rows, m)) + 1
            /\ \A i \in 1..Len(Told(rows, m)) : Told(rows, m + 1)[i] = Told(rows, m)[i]
        <5>1. Told(rows, m + 1) = Append(Told(rows, m), rows[m + 1])
          BY <3>1, <2>4
        <5>2. Told(rows, m) \in Seq(Turn)
          BY <2>3
        <5> QED
          BY <4>2, <5>1, <5>2, AppendProperties, SMTT(60)
      <4>4. Len(Told(rows, m)) \in Nat
        BY <2>3
      <4> QED
        BY <4>3, <4>4, <2>2, <1>2
    <3>2. CASE ~IsTurn(rows[m + 1])
      BY <3>2, <2>2, <2>4
    <3> QED
      BY <3>1, <3>2
  <2> HIDE DEF begins
  <2> QED
    BY <2>1, <2>5, <1>1
<1>5. \A k \in 0..Len(rows) - n : k \in S
  <2> HIDE DEF S
  <2> DEFINE N == Len(rows) - n
  <2>1. N \in Nat
    BY <1>1
  <2> HIDE DEF N
  <2>2. \A k \in 0..N : k \in S
    <3>1. \A k \in 0..N - 1 : k \in S => k + 1 \in S
      BY <1>4 DEF N
    <3> QED
      BY <2>1, <1>3, <3>1, Induction
  <2> QED
    BY <2>2 DEF N
<1>6. begins(Len(rows))
  <2> DEFINE k == Len(rows) - n
  <2>1. k \in 0..Len(rows) - n /\ n + k = Len(rows)
    BY <1>1
  <2>2. k \in S
    <3> HIDE DEF S, k
    <3> QED
      BY <1>5, <2>1
  <2>3. begins(n + k)
    <3> HIDE DEF begins, k
    <3> QED
      BY <2>2
  <2> HIDE DEF begins, k
  <2> QED
    BY <2>1, <2>3
<1> DEFINE told == TurnsOf(rows)
<1>7. /\ told \in Seq(Turn) /\ Len(low) <= Len(told)
      /\ \A i \in 1..Len(low) : low[i] = told[i]
  BY <1>1, <1>6, ToldFacts
<1> HIDE DEF told, low
<1>8. Len(low) \in 0..Len(told)
  BY <1>2, <1>7
<1>9. /\ SubSeq(told, 1, Len(low)) \in Seq(Turn) /\ Len(SubSeq(told, 1, Len(low))) = Len(low)
      /\ \A i \in 1..Len(low) : SubSeq(told, 1, Len(low))[i] = told[i]
  BY <1>7, <1>8, Beginning
<1>10. low = SubSeq(told, 1, Len(low))
  BY <1>2, <1>7, <1>9, SeqEqual
<1> QED
  BY <1>7, <1>10 DEF low, told

\* Where there are no drafts, a display row is a turn.
NoDrafts(rows) == \A i \in DOMAIN rows : rows[i].kind # "draft"

LEMMA DisplaysAreTurns ==
    ASSUME NEW row \in Row, row.kind # "draft"
    PROVE  IsDisplay(row) <=> IsTurn(row)
BY DEF IsDisplay, IsTurn, Row, Kinds

\* The display rows among the first n.
Shown(rows, n) == {j \in 1..n : IsDisplay(rows[j])}

LEMMA ToldCount ==
    ASSUME NEW rows \in Seq(Row), NoDrafts(rows), NEW n \in 0..Len(rows)
    PROVE  Cardinality(Shown(rows, n)) = Len(Told(rows, n))
<1> DEFINE fine(m) == IsFiniteSet(Shown(rows, m)) /\ Cardinality(Shown(rows, m)) = Len(Told(rows, m))
           S == {m \in 0..Len(rows) : fine(m)}
<1>1. Len(rows) \in Nat
  OBVIOUS
<1>2. 0 \in S
  <2>1. Shown(rows, 0) = {}
    BY DEF Shown
  <2>2. Told(rows, 0) = <<>> /\ Len(<<>>) = 0
    BY ToldFacts
  <2>3. fine(0)
    BY <2>1, <2>2, FS_EmptySet
  <2> QED
    BY <2>3, <1>1
<1>3. ASSUME NEW m \in 0..Len(rows) - 1, m \in S
      PROVE  m + 1 \in S
  <2>1. m + 1 \in 1..Len(rows) /\ m + 1 \in 0..Len(rows) /\ m \in 0..Len(rows) /\ m \in Nat
    BY <1>1
  <2>2. rows[m + 1] \in Row /\ rows[m + 1].kind # "draft"
    BY <2>1 DEF NoDrafts
  <2>3. IsDisplay(rows[m + 1]) <=> IsTurn(rows[m + 1])
    BY <2>2, DisplaysAreTurns
  <2>4. Told(rows, m + 1) = IF IsTurn(rows[m + 1]) THEN Append(Told(rows, m), rows[m + 1])
                            ELSE Told(rows, m)
    BY ToldFacts
  <2>5. Told(rows, m) \in Seq(Turn)
    BY <2>1, ToldFacts
  <2>6. fine(m)
    BY <1>3
  <2>7. Shown(rows, m + 1) = IF IsDisplay(rows[m + 1]) THEN Shown(rows, m) \cup {m + 1} ELSE Shown(rows, m)
    BY <2>1 DEF Shown
  <2>8. m + 1 \notin Shown(rows, m)
    BY <2>1 DEF Shown
  <2>9. fine(m + 1)
    <3>1. CASE IsTurn(rows[m + 1])
      <4>1. Shown(rows, m + 1) = Shown(rows, m) \cup {m + 1}
        BY <3>1, <2>3, <2>7
      <4>2. IsFiniteSet(Shown(rows, m + 1)) /\ Cardinality(Shown(rows, m + 1)) = Cardinality(Shown(rows, m)) + 1
        <5> DEFINE T == Shown(rows, m)
        <5>1. IsFiniteSet(T) /\ m + 1 \notin T
          BY <2>6, <2>8
        <5> HIDE DEF T
        <5>2. IsFiniteSet(T \cup {m + 1}) /\ Cardinality(T \cup {m + 1}) = Cardinality(T) + 1
          BY <5>1, FS_AddElement
        <5> QED
          BY <4>1, <5>2 DEF T
      <4>3. Len(Told(rows, m + 1)) = Len(Told(rows, m)) + 1
        <5>1. rows[m + 1] \in Turn
          BY <2>2, <3>1 DEF Turn, IsTurn
        <5> QED
          BY <3>1, <5>1, <2>4, <2>5, AppendProperties
      <4> QED
        BY <4>2, <4>3, <2>6
    <3>2. CASE ~IsTurn(rows[m + 1])
      BY <3>2, <2>3, <2>4, <2>6, <2>7
    <3> QED
      BY <3>1, <3>2
  <2> HIDE DEF fine
  <2> QED
    BY <2>1, <2>9
<1>4. \A m \in 0..Len(rows) : m \in S
  <2> HIDE DEF S
  <2> QED
    BY <1>1, <1>2, <1>3, Induction
<1> QED
  BY <1>4

\* Where there are no drafts, the place of the k-th display row is that of the k-th turn.
LEMMA PlaceOfTurn ==
    ASSUME NEW rows \in Seq(Row), NoDrafts(rows), NEW k \in 1..Len(TurnsOf(rows))
    PROVE  /\ DisplayAt(rows, k) \in 1..Len(rows)
           /\ Len(Told(rows, DisplayAt(rows, k))) = k
           /\ Len(Told(rows, DisplayAt(rows, k) - 1)) = k - 1
<1> DEFINE at == {i \in DOMAIN rows : IsDisplay(rows[i])
                    /\ Cardinality({j \in 1..i : IsDisplay(rows[j])}) = k}
           low == {n \in 0..Len(rows) : Len(Told(rows, n)) < k}
<1>1. /\ Len(rows) \in Nat /\ DOMAIN rows = 1..Len(rows) /\ k \in Nat \ {0}
      /\ TurnsOf(rows) = Told(rows, Len(rows))
      /\ \A n \in 0..Len(rows) : Told(rows, n) \in Seq(Turn)
  <2>1. /\ Told(rows, Len(rows)) = TurnsOf(rows)
        /\ \A n \in 0..Len(rows) : Told(rows, n) \in Seq(Turn)
    BY ToldFacts
  <2>2. Len(rows) \in Nat /\ DOMAIN rows = 1..Len(rows)
    OBVIOUS
  <2> QED
    BY <2>1, <2>2
<1>2. \A n \in 0..Len(rows) : Len(Told(rows, n)) \in Nat
  BY <1>1
<1>3. \A i \in DOMAIN rows : i \in at <=> (IsTurn(rows[i]) /\ Len(Told(rows, i)) = k)
  <2> SUFFICES ASSUME NEW i \in DOMAIN rows
               PROVE  i \in at <=> (IsTurn(rows[i]) /\ Len(Told(rows, i)) = k)
    OBVIOUS
  <2>1. rows[i] \in Row /\ rows[i].kind # "draft" /\ i \in 0..Len(rows)
    BY <1>1 DEF NoDrafts
  <2>2. IsDisplay(rows[i]) <=> IsTurn(rows[i])
    BY <2>1, DisplaysAreTurns
  <2>3. Cardinality({j \in 1..i : IsDisplay(rows[j])}) = Len(Told(rows, i))
    BY <2>1, ToldCount DEF Shown
  <2> QED
    BY <2>2, <2>3
<1> HIDE DEF at
<1>4. ASSUME NEW n \in 0..Len(rows) - 1
      PROVE  /\ n \in 0..Len(rows) /\ n + 1 \in 0..Len(rows) /\ n + 1 \in DOMAIN rows
             /\ IsTurn(rows[n + 1]) => Len(Told(rows, n + 1)) = Len(Told(rows, n)) + 1
             /\ ~IsTurn(rows[n + 1]) => Told(rows, n + 1) = Told(rows, n)
  <2>1. n \in 0..Len(rows) /\ n + 1 \in 0..Len(rows) /\ n + 1 \in DOMAIN rows
    BY <1>1
  <2>2. Told(rows, n + 1) = IF IsTurn(rows[n + 1]) THEN Append(Told(rows, n), rows[n + 1])
                            ELSE Told(rows, n)
    BY ToldFacts
  <2>3. ASSUME IsTurn(rows[n + 1])
        PROVE  Len(Told(rows, n + 1)) = Len(Told(rows, n)) + 1
    <3>1. Told(rows, n) \in Seq(Turn) /\ rows[n + 1] \in Row
      BY <2>1, <1>1
    <3>2. rows[n + 1] \in Turn
      BY <3>1, <2>3 DEF Turn, IsTurn
    <3> QED
      BY <3>1, <3>2, <2>2, <2>3, AppendProperties
  <2> QED
    BY <2>1, <2>2, <2>3
<1>5. at # {}
  <2> SUFFICES ASSUME at = {}
               PROVE  FALSE
    OBVIOUS
  <2>1. 0 \in low
    <3>1. Told(rows, 0) = <<>> /\ Len(<<>>) = 0
      BY ToldFacts
    <3> QED
      BY <3>1, <1>1
  <2>2. ASSUME NEW n \in 0..Len(rows) - 1, n \in low
        PROVE  n + 1 \in low
    <3>1. Len(Told(rows, n)) < k /\ Len(Told(rows, n)) \in Nat
      BY <1>2, <1>4, <2>2
    <3>2. Len(Told(rows, n + 1)) < k
      <4>1. CASE IsTurn(rows[n + 1])
        <5>1. Len(Told(rows, n + 1)) # k
          BY <1>3, <1>4, <4>1
        <5> QED
          BY <5>1, <4>1, <3>1, <1>1, <1>4
      <4>2. CASE ~IsTurn(rows[n + 1])
        BY <4>2, <3>1, <1>4
      <4> QED
        BY <4>1, <4>2
    <3> QED
      BY <3>2, <1>4
  <2>3. \A n \in 0..Len(rows) : n \in low
    <3> HIDE DEF low
    <3> QED
      BY <1>1, <2>1, <2>2, Induction
  <2>4. Len(rows) \in 0..Len(rows)
    BY <1>1
  <2>5. Len(Told(rows, Len(rows))) < k
    BY <2>3, <2>4
  <2> QED
    BY <2>5, <1>1
<1>6. DisplayAt(rows, k) = IF at = {} THEN 0 ELSE CHOOSE i \in at : TRUE
  BY DEF DisplayAt, at
<1> DEFINE p == DisplayAt(rows, k)
<1>7. p \in at
  <2>1. (CHOOSE i \in at : TRUE) \in at
    BY <1>5
  <2> QED
    BY <2>1, <1>5, <1>6
<1> HIDE DEF p
<1>8. p \in 1..Len(rows) /\ IsTurn(rows[p]) /\ Len(Told(rows, p)) = k
  <2>1. at \subseteq DOMAIN rows
    BY DEF at
  <2> QED
    BY <2>1, <1>1, <1>3, <1>7
<1>9. Len(Told(rows, p - 1)) = k - 1
  <2>1. p - 1 \in 0..Len(rows) - 1 /\ (p - 1) + 1 = p /\ p - 1 \in 0..Len(rows)
    BY <1>1, <1>8
  <2>2. Len(Told(rows, p)) = Len(Told(rows, p - 1)) + 1
    BY <1>4, <1>8, <2>1
  <2>3. Len(Told(rows, p - 1)) \in Nat
    BY <1>2, <2>1
  <2> QED
    BY <1>1, <1>8, <2>2, <2>3
<1> QED
  BY <1>8, <1>9 DEF p

\* What rows tell of is what some of them tell of, and then the others.
LEMMA TurnsOfEnd ==
    ASSUME NEW rows \in Seq(Row), NEW n \in 0..Len(rows)
    PROVE  TurnsOf(rows) = Told(rows, n) \o TurnsOf(SubSeq(rows, n + 1, Len(rows)))
<1> DEFINE end == SubSeq(rows, n + 1, Len(rows))
<1>1. Len(rows) \in Nat /\ n \in Nat /\ n <= Len(rows) /\ n + 1 \in Nat \ {0} /\ Len(rows) <= Len(rows)
  OBVIOUS
<1>2. /\ end \in Seq(Row)
      /\ Len(end) = IF n + 1 <= Len(rows) THEN Len(rows) - (n + 1) + 1 ELSE 0
      /\ \A i \in DOMAIN end : i + (n + 1) - 1 \in DOMAIN rows /\ end[i] = rows[i + (n + 1) - 1]
  BY <1>1, Piece
<1> HIDE DEF end
<1>3. Len(end) = Len(rows) - n /\ Len(end) \in Nat /\ DOMAIN end = 1..Len(end)
  BY <1>1, <1>2
<1> DEFINE fine(m) == Told(rows, n + m) = Told(rows, n) \o Told(end, m)
           S == {m \in 0..Len(end) : fine(m)}
<1>4. /\ Told(end, 0) = <<>> /\ Told(end, Len(end)) = TurnsOf(end)
      /\ \A m \in 0..Len(end) : Told(end, m) \in Seq(Turn)
      /\ \A m \in 0..Len(end) - 1 :
            Told(end, m + 1) = IF IsTurn(end[m + 1]) THEN Append(Told(end, m), end[m + 1])
                               ELSE Told(end, m)
  BY <1>2, ToldFacts
<1>5. /\ Told(rows, Len(rows)) = TurnsOf(rows)
      /\ Told(rows, n) \in Seq(Turn)
      /\ \A m \in 0..Len(rows) - 1 :
            Told(rows, m + 1) = IF IsTurn(rows[m + 1]) THEN Append(Told(rows, m), rows[m + 1])
                                ELSE Told(rows, m)
  BY ToldFacts
<1>6. 0 \in S
  <2>1. Told(rows, n) \o <<>> = Told(rows, n) /\ n + 0 = n
    BY <1>1, <1>5, ConcatEmptySeq
  <2>2. fine(0)
    BY <2>1, <1>4
  <2> QED
    BY <2>2, <1>3
<1>7. ASSUME NEW m \in 0..Len(end) - 1, m \in S
      PROVE  m + 1 \in S
  <2>1. /\ m \in 0..Len(end) /\ m + 1 \in 0..Len(end) /\ m + 1 \in DOMAIN end
        /\ n + m \in 0..Len(rows) - 1 /\ (n + m) + 1 = n + (m + 1)
        /\ (m + 1) + (n + 1) - 1 = (n + m) + 1
    BY <1>1, <1>3
  <2>2. end[m + 1] = rows[(n + m) + 1] /\ end[m + 1] \in Row
    BY <1>2, <2>1
  <2>3. Told(rows, (n + m) + 1) = IF IsTurn(rows[(n + m) + 1]) THEN Append(Told(rows, n + m), rows[(n + m) + 1])
                                  ELSE Told(rows, n + m)
    BY <1>5, <2>1
  <2>4. Told(end, m + 1) = IF IsTurn(end[m + 1]) THEN Append(Told(end, m), end[m + 1])
                           ELSE Told(end, m)
    BY <1>4
  <2>5. fine(m)
    BY <1>7
  <2>6. CASE IsTurn(end[m + 1])
    <3> DEFINE a == Told(rows, n)
               b == Told(end, m)
               x == end[m + 1]
    <3>1. a \in Seq(Turn) /\ b \in Seq(Turn) /\ x \in Turn
      BY <1>4, <1>5, <2>1, <2>2, <2>6 DEF Turn, IsTurn
    <3>2. Told(rows, (n + m) + 1) = Append(a \o b, x) /\ Told(end, m + 1) = Append(b, x)
      BY <2>2, <2>3, <2>4, <2>5, <2>6
    <3> HIDE DEF a, b, x
    <3>3. Append(a \o b, x) = a \o Append(b, x)
      <4>1. a \o b \in Seq(Turn) /\ <<x>> \in Seq(Turn)
        BY <3>1, ConcatProperties
      <4>2. Append(a \o b, x) = (a \o b) \o <<x>> /\ Append(b, x) = b \o <<x>>
        BY <3>1, <4>1, AppendIsConcat
      <4> QED
        <5> DEFINE l == <<x>>
        <5>1. Append(a \o b, x) = (a \o b) \o l /\ Append(b, x) = b \o l /\ l \in Seq(Turn)
          BY <4>1, <4>2
        <5> HIDE DEF l
        <5>2. (a \o b) \o l = a \o (b \o l)
          BY <3>1, <5>1, ConcatAssociative, SMTT(60)
        <5> QED
          BY <5>1, <5>2
    <3> QED
      BY <2>1, <3>2, <3>3 DEF a
  <2>7. CASE ~IsTurn(end[m + 1])
    BY <2>1, <2>2, <2>3, <2>4, <2>5, <2>7
  <2> QED
    BY <2>6, <2>7
<1>8. Len(end) \in S
  <2> HIDE DEF S
  <2>1. \A m \in 0..Len(end) : m \in S
    BY <1>3, <1>6, <1>7, Induction
  <2> QED
    BY <2>1, <1>3
<1>9. fine(Len(end))
  <2> HIDE DEF fine
  <2> QED
    BY <1>8
<1>10. n + Len(end) = Len(rows)
  BY <1>1, <1>3
<1> QED
  BY <1>4, <1>5, <1>9, <1>10 DEF end

\* Turns tell of themselves.
LEMMA TurnsOfTurns ==
    ASSUME NEW turns \in Seq(Turn)
    PROVE  TurnsOf(turns) = turns
<1> DEFINE S == {n \in 0..Len(turns) : Told(turns, n) = SubSeq(turns, 1, n)}
<1>1. turns \in Seq(Row) /\ Len(turns) \in Nat
  BY TurnsAreRows
<1>2. /\ Told(turns, 0) = <<>> /\ Told(turns, Len(turns)) = TurnsOf(turns)
      /\ \A n \in 0..Len(turns) - 1 :
            Told(turns, n + 1) = IF IsTurn(turns[n + 1]) THEN Append(Told(turns, n), turns[n + 1])
                                 ELSE Told(turns, n)
  BY <1>1, ToldFacts
<1>3. 0 \in S
  <2>1. SubSeq(turns, 1, 0) = <<>>
    BY SubSeqEmpty
  <2>2. Told(turns, 0) = SubSeq(turns, 1, 0)
    BY <2>1, <1>2, Zenon
  <2>3. 0 \in 0..Len(turns)
    BY <1>1
  <2> QED
    BY <2>2, <2>3, Zenon
<1>4. ASSUME NEW n \in 0..Len(turns) - 1, n \in S
      PROVE  n + 1 \in S
  <2>1. n \in 0..Len(turns) /\ n + 1 \in 0..Len(turns) /\ n + 1 \in 1..Len(turns) /\ n \in Nat
    BY <1>1
  <2>2. turns[n + 1] \in Turn /\ IsTurn(turns[n + 1])
    <3>1. turns[n + 1] \in Turn
      BY <2>1
    <3> QED
      BY <3>1 DEF Turn, IsTurn
  <2>3. Told(turns, n + 1) = Append(SubSeq(turns, 1, n), turns[n + 1])
    BY <1>2, <1>4, <2>2
  <2>4. /\ SubSeq(turns, 1, n) \in Seq(Turn) /\ Len(SubSeq(turns, 1, n)) = n
        /\ \A i \in 1..n : SubSeq(turns, 1, n)[i] = turns[i]
    BY <2>1, Beginning
  <2>5. /\ SubSeq(turns, 1, n + 1) \in Seq(Turn) /\ Len(SubSeq(turns, 1, n + 1)) = n + 1
        /\ \A i \in 1..n + 1 : SubSeq(turns, 1, n + 1)[i] = turns[i]
    BY <2>1, Beginning
  <2> DEFINE more == Append(SubSeq(turns, 1, n), turns[n + 1])
  <2>6. /\ more \in Seq(Turn) /\ Len(more) = n + 1 /\ more[n + 1] = turns[n + 1]
        /\ \A i \in 1..n : more[i] = SubSeq(turns, 1, n)[i]
    BY <2>2, <2>4, AppendProperties
  <2> HIDE DEF more
  <2>7. \A i \in 1..n + 1 : i = n + 1 \/ i \in 1..n
    BY <2>1
  <2>8. \A i \in 1..n + 1 : more[i] = SubSeq(turns, 1, n + 1)[i]
    BY <2>4, <2>5, <2>6, <2>7
  <2>9. more = SubSeq(turns, 1, n + 1)
    BY <2>5, <2>6, <2>8, SeqEqual
  <2> QED
    BY <2>1, <2>3, <2>9 DEF more
<1>5. Len(turns) \in S
  <2> HIDE DEF S
  <2>1. \A n \in 0..Len(turns) : n \in S
    BY <1>1, <1>3, <1>4, Induction
  <2> QED
    BY <2>1, <1>1
<1>6. SubSeq(turns, 1, Len(turns)) = turns
  BY SubSeqFull
<1> QED
  BY <1>2, <1>5, <1>6

-----------------------------------------------------------------------------
(***************************************************************************)
(* A record is fit if it is one, its memory is of it, its turns follow its *)
(* rows, and nobody in U has written in it.  What each operation makes of  *)
(* a fit record.                                                           *)
(***************************************************************************)
Fit(rec, U) ==
    /\ rec \in Record
    /\ Sums(rec)
    /\ Follows(rec)
    /\ Writers(rec) \cap U = {}

LEMMA FitForFewer ==
    ASSUME NEW U, NEW V, V \subseteq U, NEW rec, Fit(rec, U)
    PROVE  Fit(rec, V)
BY DEF Fit

LEMMA FitPush ==
    ASSUME NEW U, NEW r, Fit(r, U), NEW row \in Row, row.by \notin U
    PROVE  Fit(Push(r, row), U)
<1> DEFINE new == Push(r, row)
<1>1. /\ new \in Record
      /\ new.rows = Append(r.rows, row)
      /\ new.turns = IF IsTurn(row) THEN Append(r.turns, row) ELSE r.turns
      /\ new.skewed = r.skewed
      /\ Writers(new) \subseteq Writers(r) \cup {row.by}
      /\ Authors(new.rows) = Authors(r.rows) \cup {row.by}
      /\ new.memory = r.memory /\ new.dropped = r.dropped
  BY PushFacts DEF Fit
<1> HIDE DEF new
<1>2. r.rows \in Seq(Row)
  BY DEF Fit, Record
<1>3. TurnsOf(new.rows) = IF IsTurn(row) THEN Append(TurnsOf(r.rows), row) ELSE TurnsOf(r.rows)
  BY <1>1, <1>2, TurnsAppend
<1>4. Follows(new)
  BY <1>1, <1>3 DEF Fit, Follows
<1>5. Sums(new)
  BY <1>1 DEF Fit, Sums
<1> QED
  BY <1>1, <1>4, <1>5 DEF Fit, new

LEMMA FitCompact ==
    ASSUME NEW U, NEW r, Fit(r, U), NEW keep \in Nat,
           NEW new \in Micro(r, keep) \cup Structured(r, keep) \cup WithoutModel(r)
    PROVE  Fit(new, U)
BY CompactFacts DEF Fit, Follows

\* A trim leaves the last turns, and the rows that tell of them.
LEMMA FollowsTrim ==
    ASSUME NEW r \in Record, Len(r.turns) > KeepTurns, Follows(r)
    PROVE  Follows(Trimmed(r))
<1> SUFFICES ASSUME ~Trimmed(r).skewed
             PROVE  TurnsOf(Trimmed(r).rows) = Trimmed(r).turns
  BY DEF Follows
<1>1. ~Skewed(r) /\ r.rows \in Seq(Row) /\ r.turns \in Seq(Turn)
  BY TrimFacts DEF Record
<1>2. ~r.skewed /\ NoDrafts(r.rows)
  BY <1>1 DEF Skewed, NoDrafts
<1>3. TurnsOf(r.rows) = r.turns
  BY <1>2 DEF Follows
<1> DEFINE drop == Len(r.turns) - KeepTurns
           first == drop + 1
           place == DisplayAt(r.rows, first)
<1>4. /\ drop \in Nat /\ first = drop + 1 /\ first \in 1..Len(r.turns)
      /\ Len(r.turns) \in Nat /\ Len(r.rows) \in Nat
  BY <1>1, Constants
<1>5. PICK cut \in Nat :
         /\ Trimmed(r).rows = SubSeq(r.rows, cut + 1, Len(r.rows))
         /\ place > 0 => cut = place - 1
  BY TrimFacts
<1>6. Trimmed(r).turns = SubSeq(r.turns, first, Len(r.turns))
  BY TrimFacts
<1> HIDE DEF drop, first
<1>7. place \in 1..Len(r.rows) /\ Len(Told(r.rows, place - 1)) = first - 1
  BY <1>1, <1>2, <1>3, <1>4, PlaceOfTurn
<1> HIDE DEF place
<1>8. cut = place - 1 /\ cut \in 0..Len(r.rows) /\ Len(Told(r.rows, cut)) = drop
  BY <1>4, <1>5, <1>7
<1> DEFINE a == Told(r.rows, cut)
           b == TurnsOf(Trimmed(r).rows)
<1>9. a \in Seq(Turn) /\ b \in Seq(Turn)
  <2>1. Trimmed(r).rows \in Seq(Row)
    BY TrimFacts DEF Record
  <2>2. Told(Trimmed(r).rows, Len(Trimmed(r).rows)) = b
    BY <2>1, ToldFacts
  <2>3. Len(Trimmed(r).rows) \in 0..Len(Trimmed(r).rows)
    BY <2>1
  <2> QED
    BY <1>1, <1>8, <2>1, <2>2, <2>3, ToldFacts
<1>10. r.turns = a \o b
  BY <1>1, <1>3, <1>5, <1>8, TurnsOfEnd
<1> HIDE DEF a, b
<1>11. Len(a) = drop /\ Len(r.turns) = Len(a) + Len(b) /\ Len(b) \in Nat
  BY <1>8, <1>9, <1>10, ConcatProperties DEF a
<1> DEFINE last == Len(r.turns)
<1>12. first \in Len(a) + 1..Len(a) + Len(b) /\ last \in Len(a) + 1..Len(a) + Len(b)
  BY <1>4, <1>11
<1>13. first - Len(a) = 1 /\ last - Len(a) = Len(b)
  BY <1>4, <1>11
<1> HIDE DEF last
<1>14. SubSeq(a \o b, first, last) = SubSeq(b, first - Len(a), last - Len(a))
  BY <1>9, <1>12, SubSeqOfConcat2
<1>15. SubSeq(b, 1, Len(b)) = b
  BY <1>9, SubSeqFull
<1>16. SubSeq(a \o b, first, last) = b
  BY <1>13, <1>14, <1>15
<1> QED
  BY <1>6, <1>10, <1>16 DEF b, last

LEMMA FitSaved ==
    ASSUME NEW U, NEW r, Fit(r, U), NEW s \in Saved(r)
    PROVE  Fit(s, U)
<1>1. r \in Record
  BY DEF Fit
<1>2. /\ s \in Record
      /\ Writers(s) \subseteq Writers(r)
      /\ Sums(r) => Sums(s)
      /\ s = r \/ (s = Trimmed(r) /\ Len(r.turns) > KeepTurns)
  BY <1>1, SavedFacts
<1>3. Follows(s)
  BY <1>1, <1>2, FollowsTrim DEF Fit
<1> QED
  BY <1>2, <1>3 DEF Fit

LEMMA FitNew ==
    ASSUME NEW U
    PROVE  Fit(NewRecord, U)
<1>1. NewRecord \in Record /\ NewRecord.rows = <<>> /\ NewRecord.turns = <<>> /\ NewRecord.memory = {}
  BY DEF NewRecord, Record, NoProjection, Projection
<1>2. TurnsOf(<<>>) = <<>>
  <2>1. <<>> \in Seq(Turn)
    OBVIOUS
  <2> QED
    BY <2>1, TurnsOfTurns, Zenon
<1>3. Authors(<<>>) = {}
  BY DEF Authors
<1> QED
  BY <1>1, <1>2, <1>3 DEF Fit, Sums, Follows, Writers

\* The record with an answered question from before the process started.
LEMMA FitPast ==
    ASSUME NEW U, Past \notin U
    PROVE  Fit(PastRecord, U)
<1> DEFINE both == <<PastRow("user"), PastRow("reply")>>
<1>1. PastRow("user") \in Turn /\ PastRow("reply") \in Turn /\ PastRow("user").by = Past /\ PastRow("reply").by = Past
  BY DEF PastRow, Turn, Row, Kinds
<1>2. both \in Seq(Turn) /\ both \in Seq(Row)
  <2>1. both \in Seq(Turn)
    BY <1>1
  <2> QED
    BY <2>1, TurnsAreRows, Zenon
<1>3. Authors(both) = {Past}
  <2>1. DOMAIN both = {1, 2} /\ both[1].by = Past /\ both[2].by = Past
    BY <1>1
  <2> HIDE DEF both
  <2> QED
    BY <2>1 DEF Authors
<1> HIDE DEF both
<1>4. PastRecord = [NewRecord EXCEPT !.rows = both, !.turns = both]
  BY DEF PastRecord, both
<1>5. NewRecord \in Record /\ NewRecord.memory = {}
  BY DEF NewRecord, Record, NoProjection, Projection
<1>6. PastRecord \in Record /\ PastRecord.rows = both /\ PastRecord.turns = both /\ PastRecord.memory = {}
  BY <1>2, <1>4, <1>5 DEF Record
<1>7. TurnsOf(both) = both
  BY <1>2, TurnsOfTurns
<1> QED
  BY <1>3, <1>6, <1>7 DEF Fit, Sums, Follows, Writers

\* The rows before the k-th display row tell of the turns before the k-th.
LEMMA CutAtTurn ==
    ASSUME NEW rows \in Seq(Row), NoDrafts(rows), NEW k \in 1..Len(TurnsOf(rows))
    PROVE  /\ DisplayAt(rows, k) \in 1..Len(rows)
           /\ TurnsOf(SubSeq(rows, 1, DisplayAt(rows, k))) = SubSeq(TurnsOf(rows), 1, k)
           /\ TurnsOf(SubSeq(rows, 1, DisplayAt(rows, k) - 1)) = SubSeq(TurnsOf(rows), 1, k - 1)
<1> DEFINE p == DisplayAt(rows, k)
<1>1. p \in 1..Len(rows) /\ Len(Told(rows, p)) = k /\ Len(Told(rows, p - 1)) = k - 1
  BY PlaceOfTurn
<1> HIDE DEF p
<1>2. p \in 0..Len(rows) /\ p - 1 \in 0..Len(rows)
  BY <1>1
<1>3. /\ Told(rows, p) = SubSeq(TurnsOf(rows), 1, Len(Told(rows, p)))
      /\ Told(rows, p - 1) = SubSeq(TurnsOf(rows), 1, Len(Told(rows, p - 1)))
  BY <1>2, ToldPrefix
<1> QED
  BY <1>1, <1>3 DEF Told, p

\* No row is the 0th display row.
LEMMA PlaceOfNone ==
    ASSUME NEW rows \in Seq(Row)
    PROVE  DisplayAt(rows, 0) = 0
<1> DEFINE at == {i \in DOMAIN rows : IsDisplay(rows[i])
                    /\ Cardinality({j \in 1..i : IsDisplay(rows[j])}) = 0}
<1>1. ASSUME NEW i \in at
      PROVE  FALSE
  <2> DEFINE shown == {j \in 1..i : IsDisplay(rows[j])}
  <2>1. i \in Nat /\ i \in shown /\ shown \subseteq 1..i /\ Cardinality(shown) = 0
    OBVIOUS
  <2> HIDE DEF shown
  <2>2. IsFiniteSet(1..i)
    <3>1. 1 \in Int /\ i \in Int
      BY <2>1
    <3> QED
      BY <3>1, FS_Interval
  <2>3. IsFiniteSet(shown)
    BY <2>1, <2>2, FS_Subset
  <2> QED
    BY <2>1, <2>3, FS_EmptySet
<1>2. at = {}
  BY <1>1
<1> HIDE DEF at
<1> QED
  BY <1>2 DEF DisplayAt, at

LEMMA FitTruncate ==
    ASSUME NEW U, Fit(store, U), NEW k \in DOMAIN store.turns, DisplayAt(store.rows, k) > 0
    PROVE  Fit(CutTo(SubSeq(store.rows, 1, DisplayAt(store.rows, k) - 1),
                     SubSeq(store.turns, 1, k - 1)), U)
<1> DEFINE p == DisplayAt(store.rows, k)
           rows == SubSeq(store.rows, 1, p - 1)
           turns == SubSeq(store.turns, 1, k - 1)
           new == CutTo(rows, turns)
<1>1. /\ store \in Record /\ store.rows \in Seq(Row) /\ store.turns \in Seq(Turn)
      /\ k \in 1..Len(store.turns)
  BY DEF Fit, Record
<1>2. p \in 1..Len(store.rows)
  BY <1>1, PlaceFacts
<1> HIDE DEF p
<1>3. rows \in Seq(Row) /\ Authors(rows) \subseteq Authors(store.rows)
  <2> DEFINE n == p - 1
  <2>1. n \in Nat /\ n <= Len(store.rows) /\ 1 \in Nat \ {0}
    BY <1>1, <1>2
  <2> HIDE DEF n
  <2>2. SubSeq(store.rows, 1, n) \in Seq(Row) /\ Authors(SubSeq(store.rows, 1, n)) \subseteq Authors(store.rows)
    BY <1>1, <2>1, Piece
  <2> QED
    BY <2>2 DEF n
<1>4. turns \in Seq(Turn) /\ Authors(turns) \subseteq Authors(store.turns)
  <2> DEFINE n == k - 1
  <2>1. n \in Nat /\ n <= Len(store.turns) /\ 1 \in Nat \ {0}
    BY <1>1
  <2> HIDE DEF n
  <2>2. SubSeq(store.turns, 1, n) \in Seq(Turn) /\ Authors(SubSeq(store.turns, 1, n)) \subseteq Authors(store.turns)
    BY <1>1, <2>1, Piece
  <2> QED
    BY <2>2 DEF n
<1>5. Skewed(store) \/ TurnsOf(rows) = turns
  <2> SUFFICES ASSUME ~Skewed(store)
               PROVE  TurnsOf(rows) = turns
    OBVIOUS
  <2>1. NoDrafts(store.rows) /\ TurnsOf(store.rows) = store.turns
    BY DEF Skewed, NoDrafts, Fit, Follows
  <2> QED
    BY <1>1, <2>1, CutAtTurn DEF p
<1> HIDE DEF rows, turns
<1>6. /\ new \in Record /\ new.rows = rows /\ new.turns = turns
      /\ new.skewed = Skewed(store) /\ Sums(new)
  BY <1>1, <1>3, <1>4, CutToFacts
<1> HIDE DEF new
<1>7. Fit(new, U)
  BY <1>3, <1>4, <1>5, <1>6 DEF Fit, Follows, Writers
<1> QED
  BY <1>7 DEF new, rows, turns, p

\* The record that applyCheckpoint makes, with that many turns to keep.
Restored(keep) ==
    LET turns == SubSeq(store.turns, 1, keep)
        place == DisplayAt(store.rows, keep)
        rows == IF keep > 0 /\ place = 0 THEN turns ELSE SubSeq(store.rows, 1, place)
    IN  CutTo(rows, turns)

LEMMA FitRestore ==
    ASSUME NEW U, Fit(store, U), NEW keep \in 0..Len(store.turns) - 1
    PROVE  Fit(Restored(keep), U)
<1> DEFINE turns == SubSeq(store.turns, 1, keep)
           place == DisplayAt(store.rows, keep)
           rows == IF keep > 0 /\ place = 0 THEN turns ELSE SubSeq(store.rows, 1, place)
           new == CutTo(rows, turns)
<1>1. /\ store \in Record /\ store.rows \in Seq(Row) /\ store.turns \in Seq(Turn)
      /\ Len(store.turns) \in Nat /\ Len(store.rows) \in Nat
  BY DEF Fit, Record
<1>2. keep \in Nat /\ keep <= Len(store.turns) /\ 1 \in Nat \ {0}
  BY <1>1
<1>3. turns \in Seq(Turn) /\ turns \in Seq(Row) /\ Authors(turns) \subseteq Authors(store.turns)
  <2>1. turns \in Seq(Turn) /\ Authors(turns) \subseteq Authors(store.turns)
    BY <1>1, <1>2, Piece
  <2> HIDE DEF turns
  <2> QED
    BY <2>1, TurnsAreRows
<1>4. place \in Nat /\ place <= Len(store.rows)
  <2>1. place \in 0..Len(store.rows)
    BY <1>1, PlaceFacts
  <2> HIDE DEF place
  <2> QED
    BY <2>1, <1>1
<1>5. /\ rows \in Seq(Row)
      /\ Authors(rows) \subseteq Authors(store.rows) \cup Authors(store.turns)
  <2> HIDE DEF place, turns
  <2>1. SubSeq(store.rows, 1, place) \in Seq(Row) /\ Authors(SubSeq(store.rows, 1, place)) \subseteq Authors(store.rows)
    BY <1>1, <1>2, <1>4, Piece
  <2> QED
    BY <2>1, <1>3
<1>6. Skewed(store) \/ TurnsOf(rows) = turns
  <2> SUFFICES ASSUME ~Skewed(store)
               PROVE  TurnsOf(rows) = turns
    OBVIOUS
  <2>1. NoDrafts(store.rows) /\ TurnsOf(store.rows) = store.turns
    BY DEF Skewed, NoDrafts, Fit, Follows
  <2>2. CASE keep = 0
    <3>1. place = 0
      BY <1>1, <2>2, PlaceOfNone
    <3>2. rows = SubSeq(store.rows, 1, 0) /\ turns = SubSeq(store.turns, 1, 0)
      BY <2>2, <3>1
    <3>3. SubSeq(store.rows, 1, 0) = <<>> /\ SubSeq(store.turns, 1, 0) = <<>>
      BY SubSeqEmpty
    <3>4. TurnsOf(<<>>) = <<>>
      <4>1. <<>> \in Seq(Turn)
        OBVIOUS
      <4> QED
        BY <4>1, TurnsOfTurns, Zenon
    <3> HIDE DEF rows, turns
    <3> QED
      BY <3>2, <3>3, <3>4
  <2>3. CASE keep # 0
    <3>1. keep \in 1..Len(TurnsOf(store.rows))
      BY <1>1, <1>2, <2>1, <2>3
    <3>2. place \in 1..Len(store.rows) /\ TurnsOf(SubSeq(store.rows, 1, place)) = turns
      BY <1>1, <2>1, <3>1, CutAtTurn
    <3> HIDE DEF place, turns
    <3>3. rows = SubSeq(store.rows, 1, place)
      BY <3>2
    <3> QED
      BY <3>2, <3>3
  <2> QED
    BY <2>2, <2>3
<1> HIDE DEF rows, turns, place
<1>7. /\ new \in Record /\ new.rows = rows /\ new.turns = turns
      /\ new.skewed = Skewed(store) /\ Sums(new)
  BY <1>1, <1>3, <1>5, CutToFacts
<1>8. Restored(keep) = new
  BY DEF Restored, rows, turns, place
<1> HIDE DEF new
<1>9. Fit(new, U)
  BY <1>3, <1>5, <1>6, <1>7 DEF Fit, Follows, Writers
<1> QED
  BY <1>8, <1>9

-----------------------------------------------------------------------------
(***************************************************************************)
(* The bases of a chat at work: what is at and after mBase is its own,     *)
(* even in a copy that was trimmed; in one that was not, the bases are     *)
(* where its question is, and the rows up to there tell of the turns up    *)
(* to there.                                                               *)
(***************************************************************************)
Question(c) == [by |-> c, kind |-> "user", round |-> 0]

Base(c, rec, m, t, trimmed) ==
    /\ \A i \in DOMAIN rec.rows : i >= m => rec.rows[i].by = c
    /\ ~trimmed =>
          /\ m \in DOMAIN rec.rows /\ t + 1 \in DOMAIN rec.turns
          /\ \A i \in DOMAIN rec.rows : rec.rows[i] = Question(c) <=> i = m
          /\ \A i \in DOMAIN rec.rows : rec.rows[i].by = c <=> i >= m
          /\ \A i \in DOMAIN rec.turns : rec.turns[i].by = c <=> i >= t + 1
          /\ ~rec.skewed => Told(rec.rows, m) = SubSeq(rec.turns, 1, t + 1)

\* The question is pushed to a record its chat has not written in.
LEMMA BaseEnter ==
    ASSUME NEW c \in Chats, NEW r \in Record, Follows(r), c \notin Writers(r)
    PROVE  Base(c, Push(r, Question(c)), Len(r.rows) + 1, Len(r.turns), FALSE)
<1> DEFINE own == Question(c)
           new == Push(r, own)
           m == Len(r.rows) + 1
           t == Len(r.turns)
<1>1. own \in Row /\ own \in Turn /\ IsTurn(own) /\ own.by = c
  BY DEF Question, Row, Turn, Kinds, IsTurn
<1> HIDE DEF own
<1>2. /\ new \in Record /\ new.rows = Append(r.rows, own) /\ new.turns = Append(r.turns, own)
      /\ new.skewed = r.skewed
  BY <1>1, PushFacts
<1>3. /\ r.rows \in Seq(Row) /\ r.turns \in Seq(Turn) /\ new.rows \in Seq(Row) /\ new.turns \in Seq(Turn)
  BY <1>2 DEF Record
<1>4. /\ Len(new.rows) = m /\ new.rows[m] = own /\ \A i \in 1..Len(r.rows) : new.rows[i] = r.rows[i]
      /\ Len(new.turns) = t + 1 /\ new.turns[t + 1] = own /\ \A i \in 1..Len(r.turns) : new.turns[i] = r.turns[i]
      /\ Len(r.rows) \in Nat /\ Len(r.turns) \in Nat
  BY <1>1, <1>2, <1>3, AppendProperties
<1>5. /\ DOMAIN new.rows = 1..m /\ DOMAIN new.turns = 1..t + 1
      /\ DOMAIN r.rows = 1..Len(r.rows) /\ DOMAIN r.turns = 1..Len(r.turns)
      /\ m \in 1..m /\ t + 1 \in 1..t + 1
  BY <1>3, <1>4
<1>6. /\ \A i \in DOMAIN r.rows : r.rows[i].by # c
      /\ \A i \in DOMAIN r.turns : r.turns[i].by # c
  BY DEF Writers, Authors
<1>7. ~r.skewed => Told(new.rows, m) = SubSeq(new.turns, 1, t + 1)
  <2>1. Told(new.rows, m) = TurnsOf(new.rows)
    BY <1>3, <1>4, ToldFacts
  <2>2. TurnsOf(new.rows) = Append(TurnsOf(r.rows), own)
    BY <1>1, <1>2, <1>3, TurnsAppend
  <2>3. SubSeq(new.turns, 1, t + 1) = new.turns
    BY <1>3, <1>4, SubSeqFull
  <2> QED
    BY <2>1, <2>2, <2>3, <1>2 DEF Follows
<1>8. \A i \in DOMAIN new.rows : i = m \/ (i \in DOMAIN r.rows /\ i < m)
  BY <1>4, <1>5
<1>9. \A i \in DOMAIN new.turns : i = t + 1 \/ (i \in DOMAIN r.turns /\ i < t + 1)
  BY <1>4, <1>5
<1>10. m >= m /\ t + 1 >= t + 1 /\ \A i \in DOMAIN new.rows, j \in DOMAIN new.turns :
          (i < m => ~(i >= m)) /\ (j < t + 1 => ~(j >= t + 1)) /\ (i < m => i # m)
  BY <1>4, <1>5
<1>11. /\ \A i \in DOMAIN new.rows : new.rows[i] = own <=> i = m
       /\ \A i \in DOMAIN new.rows : new.rows[i].by = c <=> i >= m
  <2> SUFFICES ASSUME NEW i \in DOMAIN new.rows
               PROVE  (new.rows[i] = own <=> i = m) /\ (new.rows[i].by = c <=> i >= m)
    OBVIOUS
  <2>1. CASE i = m
    BY <2>1, <1>1, <1>4, <1>10
  <2>2. CASE i \in DOMAIN r.rows /\ i < m
    <3>1. new.rows[i] = r.rows[i] /\ r.rows[i].by # c
      BY <2>2, <1>4, <1>5, <1>6
    <3>2. i # m /\ ~(i >= m)
      BY <2>2, <1>4, <1>5
    <3> QED
      BY <3>1, <3>2, <1>1
  <2> QED
    BY <2>1, <2>2, <1>8
<1>12. \A i \in DOMAIN new.turns : new.turns[i].by = c <=> i >= t + 1
  <2> SUFFICES ASSUME NEW i \in DOMAIN new.turns
               PROVE  new.turns[i].by = c <=> i >= t + 1
    OBVIOUS
  <2>1. CASE i = t + 1
    BY <2>1, <1>1, <1>4, <1>10
  <2>2. CASE i \in DOMAIN r.turns /\ i < t + 1
    <3>1. new.turns[i] = r.turns[i] /\ r.turns[i].by # c
      BY <2>2, <1>4, <1>5, <1>6
    <3>2. ~(i >= t + 1)
      BY <2>2, <1>4, <1>5
    <3> QED
      BY <3>1, <3>2
  <2> QED
    BY <2>1, <2>2, <1>9
<1>13. m \in DOMAIN new.rows /\ t + 1 \in DOMAIN new.turns
  BY <1>5
<1> HIDE DEF new, m, t
<1>14. Base(c, new, m, t, FALSE)
  BY <1>2, <1>7, <1>11, <1>12, <1>13 DEF Base, own
<1> QED
  BY <1>14 DEF new, m, t, own

\* The chat pushes something that is not a question.
LEMMA BasePush ==
    ASSUME NEW c \in Chats, NEW r \in Record, NEW m \in Nat, NEW t \in Nat, NEW trimmed,
           Base(c, r, m, t, trimmed), NEW row \in Row, row.by = c, row.kind # "user"
    PROVE  Base(c, Push(r, row), m, t, trimmed)
<1> DEFINE new == Push(r, row)
<1>1. /\ new \in Record /\ new.rows = Append(r.rows, row)
      /\ new.turns = IF IsTurn(row) THEN Append(r.turns, row) ELSE r.turns
      /\ new.skewed = r.skewed
  BY PushFacts
<1>2. r.rows \in Seq(Row) /\ r.turns \in Seq(Turn) /\ new.turns \in Seq(Turn)
  BY <1>1 DEF Record
<1> HIDE DEF new
<1>3. /\ Len(new.rows) = Len(r.rows) + 1 /\ new.rows[Len(r.rows) + 1] = row
      /\ \A i \in 1..Len(r.rows) : new.rows[i] = r.rows[i]
      /\ Len(r.rows) \in Nat /\ new.rows \in Seq(Row)
  BY <1>1, <1>2, AppendProperties
<1>4. \A i \in DOMAIN new.rows :
         \/ i = Len(r.rows) + 1 /\ new.rows[i] = row
         \/ i \in DOMAIN r.rows /\ i <= Len(r.rows) /\ new.rows[i] = r.rows[i]
  <2> SUFFICES ASSUME NEW i \in DOMAIN new.rows
               PROVE  \/ i = Len(r.rows) + 1 /\ new.rows[i] = row
                      \/ i \in DOMAIN r.rows /\ i <= Len(r.rows) /\ new.rows[i] = r.rows[i]
    OBVIOUS
  <2>1. DOMAIN new.rows = 1..Len(r.rows) + 1 /\ DOMAIN r.rows = 1..Len(r.rows)
    BY <1>2, <1>3
  <2>2. i = Len(r.rows) + 1 \/ i \in 1..Len(r.rows)
    BY <2>1, <1>3
  <2> QED
    BY <1>3, <2>1, <2>2
<1>5. \A i \in DOMAIN new.rows : i >= m => new.rows[i].by = c
  BY <1>4 DEF Base
<1>6. ASSUME ~trimmed
      PROVE  /\ m \in DOMAIN new.rows /\ t + 1 \in DOMAIN new.turns
             /\ \A i \in DOMAIN new.rows : new.rows[i] = Question(c) <=> i = m
             /\ \A i \in DOMAIN new.rows : new.rows[i].by = c <=> i >= m
             /\ \A i \in DOMAIN new.turns : new.turns[i].by = c <=> i >= t + 1
             /\ ~new.skewed => Told(new.rows, m) = SubSeq(new.turns, 1, t + 1)
  <2>1. /\ m \in DOMAIN r.rows /\ t + 1 \in DOMAIN r.turns
        /\ \A i \in DOMAIN r.rows : r.rows[i] = Question(c) <=> i = m
        /\ \A i \in DOMAIN r.rows : r.rows[i].by = c <=> i >= m
        /\ \A i \in DOMAIN r.turns : r.turns[i].by = c <=> i >= t + 1
        /\ ~r.skewed => Told(r.rows, m) = SubSeq(r.turns, 1, t + 1)
    BY <1>6 DEF Base
  <2>2. m \in 1..Len(r.rows) /\ m \in DOMAIN new.rows /\ t + 1 \in 1..Len(r.turns) /\ Len(r.turns) \in Nat
    BY <2>1, <1>2, <1>3
  <2>3. row # Question(c)
    BY DEF Question
  <2>4. \A i \in DOMAIN new.rows : new.rows[i] = Question(c) <=> i = m
    <3> SUFFICES ASSUME NEW i \in DOMAIN new.rows
                 PROVE  new.rows[i] = Question(c) <=> i = m
      OBVIOUS
    <3>1. CASE i = Len(r.rows) + 1 /\ new.rows[i] = row
      BY <3>1, <2>2, <2>3, <1>3
    <3>2. CASE i \in DOMAIN r.rows /\ new.rows[i] = r.rows[i]
      BY <3>2, <2>1
    <3> QED
      BY <3>1, <3>2, <1>4
  <2>5. \A i \in DOMAIN new.rows : new.rows[i].by = c <=> i >= m
    <3> SUFFICES ASSUME NEW i \in DOMAIN new.rows
                 PROVE  new.rows[i].by = c <=> i >= m
      OBVIOUS
    <3>1. CASE i = Len(r.rows) + 1 /\ new.rows[i] = row
      BY <3>1, <2>2, <1>3
    <3>2. CASE i \in DOMAIN r.rows /\ new.rows[i] = r.rows[i]
      BY <3>2, <2>1
    <3> QED
      BY <3>1, <3>2, <1>4
  <2>6. Told(new.rows, m) = Told(r.rows, m)
    <3>1. m \in 0..Len(r.rows)
      BY <2>2
    <3> QED
      BY <3>1, <1>1, <1>2, TurnsAppend
  <2>7. CASE ~IsTurn(row)
    BY <2>7, <1>1, <2>1, <2>2, <2>4, <2>5, <2>6
  <2>8. CASE IsTurn(row)
    <3>1. row \in Turn /\ new.turns = Append(r.turns, row)
      BY <2>8, <1>1 DEF Turn, IsTurn
    <3>2. /\ Len(new.turns) = Len(r.turns) + 1 /\ new.turns[Len(r.turns) + 1] = row
          /\ \A i \in 1..Len(r.turns) : new.turns[i] = r.turns[i]
      BY <3>1, <1>2, AppendProperties
    <3>3. \A i \in DOMAIN new.turns :
             \/ i = Len(r.turns) + 1 /\ new.turns[i] = row
             \/ i \in DOMAIN r.turns /\ new.turns[i] = r.turns[i]
      <4>1. DOMAIN new.turns = 1..Len(r.turns) + 1 /\ DOMAIN r.turns = 1..Len(r.turns)
        BY <3>2, <1>2
      <4>2. \A i \in 1..Len(r.turns) + 1 : i = Len(r.turns) + 1 \/ i \in 1..Len(r.turns)
        BY <2>2
      <4> QED
        BY <4>1, <4>2, <3>2
    <3>4. t + 1 \in DOMAIN new.turns
      BY <3>2, <1>2, <2>2
    <3>5. \A i \in DOMAIN new.turns : new.turns[i].by = c <=> i >= t + 1
      <4> SUFFICES ASSUME NEW i \in DOMAIN new.turns
                   PROVE  new.turns[i].by = c <=> i >= t + 1
        OBVIOUS
      <4>1. CASE i = Len(r.turns) + 1 /\ new.turns[i] = row
        BY <4>1, <2>2
      <4>2. CASE i \in DOMAIN r.turns /\ new.turns[i] = r.turns[i]
        BY <4>2, <2>1
      <4> QED
        BY <4>1, <4>2, <3>3
    <3>6. SubSeq(new.turns, 1, t + 1) = SubSeq(r.turns, 1, t + 1)
      <4> DEFINE n == t + 1
      <4>1. n \in 0..Len(r.turns) /\ n \in 0..Len(new.turns) /\ \A i \in 1..n : i \in 1..Len(r.turns)
        BY <2>2, <3>2
      <4> HIDE DEF n
      <4>2. /\ SubSeq(r.turns, 1, n) \in Seq(Turn) /\ Len(SubSeq(r.turns, 1, n)) = n
            /\ \A i \in 1..n : SubSeq(r.turns, 1, n)[i] = r.turns[i]
        BY <4>1, <1>2, Beginning
      <4>3. /\ SubSeq(new.turns, 1, n) \in Seq(Turn) /\ Len(SubSeq(new.turns, 1, n)) = n
            /\ \A i \in 1..n : SubSeq(new.turns, 1, n)[i] = new.turns[i]
        BY <4>1, <1>2, Beginning
      <4>4. SubSeq(new.turns, 1, n) = SubSeq(r.turns, 1, n)
        BY <4>1, <4>2, <4>3, <3>2, SeqEqual
      <4> QED
        BY <4>4 DEF n
    <3> QED
      BY <1>1, <2>1, <2>2, <2>4, <2>5, <2>6, <3>4, <3>5, <3>6
  <2> QED
    BY <2>7, <2>8
<1>7. Base(c, new, m, t, trimmed)
  BY <1>5, <1>6 DEF Base
<1> QED
  BY <1>7 DEF new

\* What is compacted keeps its rows and turns.
LEMMA BaseSame ==
    ASSUME NEW c, NEW r, NEW m, NEW t, NEW trimmed, Base(c, r, m, t, trimmed),
           NEW new, new.rows = r.rows, new.turns = r.turns, new.skewed = r.skewed
    PROVE  Base(c, new, m, t, trimmed)
BY DEF Base

\* A save that trims the copy leaves nothing but the chat's own after mBase.
LEMMA BaseSaved ==
    ASSUME NEW c \in Chats, NEW r \in Record, NEW m \in Nat, NEW t \in Nat, NEW trimmed \in BOOLEAN,
           Base(c, r, m, t, trimmed), NEW s \in Saved(r)
    PROVE  Base(c, s, m, t, trimmed \/ s # r)
<1>1. s \in Record /\ (s = r \/ (s = Trimmed(r) /\ Len(r.turns) > KeepTurns))
  BY SavedFacts
<1>2. CASE s = r
  BY <1>2
<1>3. CASE s # r
  <2>1. s = Trimmed(r) /\ Len(r.turns) > KeepTurns
    BY <1>1, <1>3
  <2>2. PICK cut \in Nat : s.rows = SubSeq(r.rows, cut + 1, Len(r.rows))
    BY <2>1, TrimFacts
  <2>3. r.rows \in Seq(Row) /\ Len(r.rows) \in Nat /\ cut + 1 \in Nat \ {0} /\ Len(r.rows) <= Len(r.rows)
    BY DEF Record
  <2>4. /\ s.rows \in Seq(Row)
        /\ \A i \in DOMAIN s.rows : i + (cut + 1) - 1 \in DOMAIN r.rows /\ s.rows[i] = r.rows[i + (cut + 1) - 1]
    BY <2>2, <2>3, Piece
  <2>5. ASSUME NEW i \in DOMAIN s.rows, i >= m
        PROVE  s.rows[i].by = c
    <3> DEFINE j == i + (cut + 1) - 1
    <3>1. i \in Nat
      BY <2>4
    <3>2. j \in DOMAIN r.rows /\ s.rows[i] = r.rows[j] /\ j >= m
      BY <2>4, <2>5, <3>1
    <3> HIDE DEF j
    <3> QED
      BY <3>2 DEF Base
  <2> QED
    BY <1>3, <2>5 DEF Base
<1> QED
  BY <1>2, <1>3

\* The record finalizeCancelled makes of a copy.
Cancel(r, m, t, trimmed, row) ==
    Push([r EXCEPT !.rows = Slice(@, m), !.turns = Slice(@, t + 1), !.skewed = @ \/ trimmed], row)

LEMMA FitCancel ==
    ASSUME NEW U, NEW c \in Chats, c \notin U, NEW r, Fit(r, U),
           NEW m \in Nat, NEW t \in Nat, NEW trimmed \in BOOLEAN, Base(c, r, m, t, trimmed),
           NEW row \in Row, row.by = c
    PROVE  Fit(Cancel(r, m, t, trimmed, row), U)
<1> DEFINE rows == Slice(r.rows, m)
           turns == Slice(r.turns, t + 1)
           back == [r EXCEPT !.rows = rows, !.turns = turns, !.skewed = @ \/ trimmed]
           new == Push(back, row)
<1>1. /\ r \in Record /\ r.rows \in Seq(Row) /\ r.turns \in Seq(Turn) /\ t + 1 \in Nat
      /\ Len(r.rows) \in Nat /\ Len(r.turns) \in Nat /\ r.skewed \in BOOLEAN
  BY DEF Fit, Record
<1>2. /\ rows \in Seq(Row) /\ Authors(rows) \subseteq Authors(r.rows)
      /\ Len(rows) = IF m < Len(r.rows) THEN m ELSE Len(r.rows)
      /\ \A i \in DOMAIN rows : i \in DOMAIN r.rows /\ rows[i] = r.rows[i]
  BY <1>1, SliceFacts
<1>3. turns \in Seq(Turn) /\ Authors(turns) \subseteq Authors(r.turns)
  <2> DEFINE n == t + 1
  <2>1. n \in Nat
    OBVIOUS
  <2> HIDE DEF n
  <2>2. Slice(r.turns, n) \in Seq(Turn) /\ Authors(Slice(r.turns, n)) \subseteq Authors(r.turns)
    BY <1>1, <2>1, SliceFacts
  <2> QED
    BY <2>2 DEF n
<1>4. Authors(r.rows) \subseteq Authors(rows) \cup {c}
  <2> SUFFICES ASSUME NEW i \in DOMAIN r.rows, r.rows[i].by # c
               PROVE  \E j \in DOMAIN rows : rows[j] = r.rows[i]
    BY DEF Authors
  <2>1. i \in 1..Len(r.rows) /\ i < m
    BY <1>1 DEF Base
  <2>2. i \in DOMAIN rows
    <3> HIDE DEF rows
    <3> QED
      BY <2>1, <1>1, <1>2
  <2> QED
    BY <1>2, <2>2
<1>5. ASSUME ~r.skewed, ~trimmed
      PROVE  TurnsOf(rows) = turns
  <2>1. m \in DOMAIN r.rows /\ t + 1 \in DOMAIN r.turns /\ Told(r.rows, m) = SubSeq(r.turns, 1, t + 1)
    BY <1>5 DEF Base
  <2>2. rows = SubSeq(r.rows, 1, m)
    <3>1. m \in 1..Len(r.rows)
      BY <1>1, <2>1
    <3>2. (IF m < Len(r.rows) THEN m ELSE Len(r.rows)) = m
      BY <1>1, <3>1
    <3> QED
      BY <3>2 DEF Slice
  <2>3. turns = SubSeq(r.turns, 1, t + 1)
    <3>1. t + 1 \in 1..Len(r.turns)
      BY <1>1, <2>1
    <3>2. (IF t + 1 < Len(r.turns) THEN t + 1 ELSE Len(r.turns)) = t + 1
      BY <1>1, <3>1
    <3> QED
      BY <3>2 DEF Slice
  <2> QED
    BY <2>1, <2>2, <2>3 DEF Told
<1> HIDE DEF rows, turns
<1>6. /\ back \in Record /\ back.rows = rows /\ back.turns = turns
      /\ back.memory = r.memory /\ back.dropped = r.dropped
      /\ back.skewed = (r.skewed \/ trimmed)
  BY <1>1, <1>2, <1>3 DEF Record
<1> HIDE DEF back
<1>7. /\ new \in Record
      /\ new.rows = Append(rows, row)
      /\ new.turns = IF IsTurn(row) THEN Append(turns, row) ELSE turns
      /\ new.skewed = (r.skewed \/ trimmed)
      /\ Writers(new) \subseteq Writers(back) \cup {c}
      /\ Authors(new.rows) = Authors(rows) \cup {c}
      /\ new.memory = r.memory /\ new.dropped = r.dropped
  BY <1>6, PushFacts
<1>8. new = Cancel(r, m, t, trimmed, row)
  BY DEF Cancel, new, back, rows, turns
<1> HIDE DEF new
<1>9. Sums(new)
  BY <1>4, <1>7 DEF Sums, Fit
<1>10. Follows(new)
  <2>1. TurnsOf(Append(rows, row)) = IF IsTurn(row) THEN Append(TurnsOf(rows), row) ELSE TurnsOf(rows)
    BY <1>2, TurnsAppend
  <2> QED
    BY <1>5, <1>7, <2>1 DEF Follows
<1>11. Writers(new) \subseteq Writers(r) \cup {c}
  BY <1>2, <1>3, <1>6, <1>7 DEF Writers
<1>12. Fit(new, U)
  BY <1>7, <1>9, <1>10, <1>11 DEF Fit
<1> QED
  BY <1>8, <1>12

-----------------------------------------------------------------------------
(***************************************************************************)
(* The invariant: every copy is fit, with regard to the chats that have    *)
(* not entered yet, and every chat at work has its bases.                  *)
(***************************************************************************)
Unentered == {c \in Chats : chats[c].phase \in {"none", "opening"}}

Based(c) == Base(c, chats[c].rec, chats[c].mBase, chats[c].tBase, chats[c].trimmed)

AtWork == {"round", "budget", "asking", "tools"}

Safe ==
    /\ TypeOK
    /\ \A rec \in Copies : Fit(rec, Unentered)
    /\ UndisturbedIsSaved
    /\ \A c \in Chats : Entered(c) => Based(c)

\* What Safe says of the parts of the state.
LEMMA SafeFacts ==
    ASSUME Safe
    PROVE  /\ store \in Record /\ Fit(store, Unentered)
           /\ chats \in [Chats -> Chat]
           /\ \A c \in Chats : chats[c] \in Chat /\ chats[c].rec \in Record /\ Fit(chats[c].rec, Unentered)
           /\ tuner \in [busy : BOOLEAN, rec : Record] /\ Fit(tuner.rec, Unentered)
           /\ \A c \in Chats : Entered(c) => Based(c) /\ c \notin Unentered
<1>1. /\ store \in Copies /\ tuner.rec \in Copies
      /\ \A c \in Chats : chats[c].rec \in Copies
  BY DEF Copies
<1>2. \A c \in Chats : chats[c] \in Chat
  BY DEF Safe, TypeOK
<1>3. \A c \in Chats : chats[c].rec \in Record
  BY <1>2 DEF Chat
<1>4. \A c \in Chats : Entered(c) => c \notin Unentered
  BY DEF Entered, Unentered
<1> QED
  BY <1>1, <1>2, <1>3, <1>4 DEF Safe, TypeOK

\* A step of one chat: it goes on as "new", the others keep their copies and bases, and
\* whoever is undisturbed after it was so before or has just read or saved.
LEMMA ChatStep ==
    ASSUME Safe, NEW c \in Chats, NEW new \in Chat,
           chats' \in [Chats -> Chat], chats'[c] = new,
           \A d \in Chats \ {c} :
              /\ chats'[d].phase = chats[d].phase /\ chats'[d].rec = chats[d].rec
              /\ chats'[d].mBase = chats[d].mBase /\ chats'[d].tBase = chats[d].tBase
              /\ chats'[d].trimmed = chats[d].trimmed,
           new.phase \in {"none", "opening"} => c \in Unentered,
           Fit(store', Unentered \ {c}), Fit(new.rec, Unentered \ {c}),
           c \in Unentered' => c \notin Writers(store') \cup Writers(new.rec),
           new.phase \in AtWork => Base(c, new.rec, new.mBase, new.tBase, new.trimmed),
           fresh' \subseteq Chats \cup {Tuner},
           \A x \in fresh' : (x = c /\ new.rec = store') \/ (x # c /\ x \in fresh /\ store' = store),
           known' \in Chats \cup {NoChat},
           known' # NoChat => (known' = c /\ new.phase \in AtWork) \/ (known' = known /\ known # c),
           tuner' = tuner, events' \in 0..MaxEvents
    PROVE  Safe'
<1>1. /\ chats \in [Chats -> Chat] /\ tuner \in [busy : BOOLEAN, rec : Record]
      /\ \A d \in Chats : Fit(chats[d].rec, Unentered)
      /\ Fit(tuner.rec, Unentered)
  BY SafeFacts
<1>2. \A d \in Chats \ {c} : d \in Unentered' <=> d \in Unentered
  BY DEF Unentered
<1>3. c \in Unentered' => c \in Unentered
  BY DEF Unentered
<1>4. Unentered' \subseteq Unentered
  BY <1>2, <1>3 DEF Unentered
<1>5. Fit(tuner.rec, Unentered') /\ \A d \in Chats : Fit(chats[d].rec, Unentered')
  BY <1>1, <1>4, FitForFewer
<1>6. Fit(new.rec, Unentered') /\ Fit(store', Unentered')
  <2>1. Unentered' \subseteq (Unentered \ {c}) \cup {c}
    BY <1>4
  <2> QED
    BY <2>1 DEF Fit
<1>7. \A d \in Chats : Fit(chats'[d].rec, Unentered')
  BY <1>5, <1>6
<1>8. \A rec \in Copies' : Fit(rec, Unentered')
  BY <1>5, <1>6, <1>7 DEF Copies
<1>9. \A d \in Chats \ {c} : Entered(d)' <=> Entered(d)
  BY DEF Entered
<1>10. Entered(c)' <=> new.phase \in AtWork
  BY DEF Entered, AtWork
<1>11. TypeOK'
  <2>1. store' \in Record
    BY <1>6 DEF Fit
  <2>2. (known # NoChat => Entered(known))'
    <3>1. known # NoChat => Entered(known)
      BY DEF Safe, TypeOK
    <3>2. ASSUME known' # NoChat
          PROVE  chats'[known'].phase \in AtWork
      <4>1. CASE known' = c /\ new.phase \in AtWork
        BY <4>1
      <4>2. CASE known' = known /\ known # c
        <5>1. known \in Chats \ {c} /\ Entered(known)
          BY <3>1, <3>2, <4>2
        <5> QED
          BY <5>1, <4>2 DEF Entered, AtWork
      <4> QED
        BY <3>2, <4>1, <4>2
    <3> QED
      BY <3>2 DEF Entered, AtWork
  <2> QED
    BY <2>1, <2>2, <1>1 DEF TypeOK
<1>12. \A d \in Chats : Entered(d)' => Based(d)'
  <2> SUFFICES ASSUME NEW d \in Chats, Entered(d)'
               PROVE  Based(d)'
    OBVIOUS
  <2>1. CASE d = c
    BY <2>1, <1>10 DEF Based
  <2>2. CASE d # c
    <3>1. Based(d)
      BY <2>2, <1>9 DEF Safe
    <3> QED
      BY <2>2, <3>1 DEF Based
  <2> QED
    BY <2>1, <2>2
<1>13. UndisturbedIsSaved'
  <2>1. Tuner # c /\ Tuner \notin Chats
    BY Constants
  <2>2. ASSUME NEW d \in Chats, d \in fresh'
        PROVE  chats'[d].rec = store'
    BY <2>2 DEF Safe, UndisturbedIsSaved
  <2>3. Tuner \in fresh' => tuner'.rec = store'
    BY <2>1 DEF Safe, UndisturbedIsSaved
  <2> QED
    BY <2>2, <2>3 DEF UndisturbedIsSaved
<1> QED
  BY <1>8, <1>11, <1>12, <1>13 DEF Safe

\* A chat at work saves its copy.
LEMMA SaveStep ==
    ASSUME Safe, NEW c \in Chats, Entered(c),
           NEW next \in Chat, next.phase \in AtWork, Fit(next.rec, Unentered),
           Base(c, next.rec, next.mBase, next.tBase, next.trimmed),
           Save(c, next), UNCHANGED <<known, tuner>>, events' \in 0..MaxEvents
    PROVE  Safe'
<1>1. PICK rec \in Saved(next.rec) :
         /\ store' = rec
         /\ chats' = [chats EXCEPT ![c] = [next EXCEPT !.rec = rec, !.trimmed = @ \/ rec # next.rec]]
         /\ fresh' = {c}
  BY DEF Save
<1> DEFINE new == [next EXCEPT !.rec = rec, !.trimmed = @ \/ rec # next.rec]
<1>2. next.rec \in Record /\ next.mBase \in Nat /\ next.tBase \in Nat /\ next.trimmed \in BOOLEAN
  BY DEF Chat
<1>3. rec \in Record /\ Fit(rec, Unentered)
  BY <1>1, FitSaved DEF Fit
<1>4. Base(c, rec, next.mBase, next.tBase, next.trimmed \/ rec # next.rec)
  BY <1>1, <1>2, BaseSaved
<1>5. /\ new \in Chat /\ new.rec = rec /\ new.phase = next.phase
      /\ new.mBase = next.mBase /\ new.tBase = next.tBase
      /\ new.trimmed = (next.trimmed \/ rec # next.rec)
  BY <1>3 DEF Chat
<1>6. chats' = [chats EXCEPT ![c] = new]
  BY <1>1
<1> HIDE DEF new
<1>7. chats \in [Chats -> Chat] /\ known \in Chats \cup {NoChat} /\ c \notin Unentered
  BY SafeFacts DEF Safe, TypeOK
<1>8. chats' \in [Chats -> Chat] /\ chats'[c] = new /\ \A d \in Chats \ {c} : chats'[d] = chats[d]
  BY <1>5, <1>6, <1>7
<1>9. new.phase \notin {"none", "opening"}
  BY <1>5 DEF AtWork
<1>10. c \notin Unentered'
  BY <1>8, <1>9 DEF Unentered
<1>11. Fit(store', Unentered \ {c}) /\ Fit(new.rec, Unentered \ {c})
  BY <1>1, <1>3, <1>5, FitForFewer
<1>12. /\ fresh' \subseteq Chats \cup {Tuner}
       /\ \A x \in fresh' : x = c /\ new.rec = store'
  BY <1>1, <1>5
<1>13. known' \in Chats \cup {NoChat} /\ (known' # NoChat => (known' = c /\ new.phase \in AtWork) \/ (known' = known /\ known # c))
  BY <1>5, <1>7
<1> QED
  BY <1>4, <1>5, <1>8, <1>9, <1>10, <1>11, <1>12, <1>13, ChatStep

\* A chat at work goes on with the copy it has.
LEMMA QuietStep ==
    ASSUME Safe, NEW c \in Chats, NEW new \in Chat, chats' = [chats EXCEPT ![c] = new],
           new.phase \in AtWork <=> Entered(c), new.phase \in {"none", "opening"} => c \in Unentered,
           new.rec = chats[c].rec, new.mBase = chats[c].mBase, new.tBase = chats[c].tBase,
           new.trimmed = chats[c].trimmed,
           UNCHANGED <<store, known, tuner, fresh>>, events' \in 0..MaxEvents
    PROVE  Safe'
<1>1. /\ chats \in [Chats -> Chat] /\ known \in Chats \cup {NoChat}
      /\ known # NoChat => Entered(known)
      /\ Fit(store, Unentered) /\ Fit(chats[c].rec, Unentered)
      /\ Entered(c) => Based(c)
  BY SafeFacts DEF Safe, TypeOK
<1>2. chats' \in [Chats -> Chat] /\ chats'[c] = new /\ \A d \in Chats \ {c} : chats'[d] = chats[d]
  BY <1>1
<1>3. c \in Unentered' => c \in Unentered
  BY <1>2 DEF Unentered
<1>4. c \in Unentered' => c \notin Writers(store') \cup Writers(new.rec)
  BY <1>1, <1>3 DEF Fit
<1>5. Fit(store', Unentered \ {c}) /\ Fit(new.rec, Unentered \ {c})
  BY <1>1, FitForFewer
<1>6. new.phase \in AtWork => Base(c, new.rec, new.mBase, new.tBase, new.trimmed)
  BY <1>1 DEF Based
<1>7. /\ fresh' \subseteq Chats \cup {Tuner}
      /\ \A x \in fresh' : (x = c /\ new.rec = store') \/ (x # c /\ x \in fresh /\ store' = store)
  BY DEF Safe, TypeOK, UndisturbedIsSaved
<1>8. known' \in Chats \cup {NoChat} /\ (known' # NoChat => (known' = c /\ new.phase \in AtWork) \/ (known' = known /\ known # c))
  BY <1>1
<1> QED
  BY <1>2, <1>4, <1>5, <1>6, <1>7, <1>8, ChatStep

LEMMA DoneFacts ==
    /\ DoneChat \in Chat /\ DoneChat.phase = "done" /\ DoneChat.rec = NewRecord
    /\ NewChat \in Chat /\ NewChat.phase = "none" /\ NewChat.rec = NewRecord
<1>1. NewRecord \in Record
  BY FitNew DEF Fit
<1>2. NewChat \in Chat /\ NewChat.phase = "none" /\ NewChat.rec = NewRecord
  BY <1>1 DEF NewChat, Chat
<1> QED
  BY <1>2 DEF DoneChat, Chat

\* A chat ends, and has saved a fit record or nothing.
LEMMA LeaveStep ==
    ASSUME Safe, NEW c \in Chats, chats' = [chats EXCEPT ![c] = DoneChat],
           Fit(store', Unentered),
           fresh' = {} \/ (fresh' = fresh \ {c} /\ store' = store),
           Forget(c), UNCHANGED <<tuner, events>>
    PROVE  Safe'
<1>1. /\ chats \in [Chats -> Chat] /\ known \in Chats \cup {NoChat}
      /\ events \in 0..MaxEvents /\ fresh \subseteq Chats \cup {Tuner}
  BY SafeFacts DEF Safe, TypeOK
<1> DEFINE new == DoneChat
<1>2. new \in Chat /\ new.phase = "done" /\ new.rec = NewRecord
  BY DoneFacts
<1>3. chats' = [chats EXCEPT ![c] = new]
  OBVIOUS
<1> HIDE DEF new
<1>4. chats' \in [Chats -> Chat] /\ chats'[c] = new /\ \A d \in Chats \ {c} : chats'[d] = chats[d]
  BY <1>1, <1>2, <1>3
<1>5. c \notin Unentered' /\ new.phase \notin {"none", "opening"} /\ new.phase \notin AtWork
  BY <1>2, <1>4 DEF Unentered, AtWork
<1>6. Fit(store', Unentered \ {c}) /\ Fit(new.rec, Unentered \ {c})
  BY <1>2, FitNew, FitForFewer
<1>7. /\ fresh' \subseteq Chats \cup {Tuner}
      /\ \A x \in fresh' : x # c /\ x \in fresh /\ store' = store
  BY <1>1
<1>8. known' \in Chats \cup {NoChat} /\ (known' # NoChat => known' = known /\ known # c)
  BY <1>1 DEF Forget
<1>9. events' \in 0..MaxEvents
  BY <1>1
<1> QED
  BY <1>2, <1>4, <1>5, <1>6, <1>7, <1>8, <1>9, ChatStep

\* What a chat at work pushes to its copy keeps it fit, and based.
LEMMA OwnPush ==
    ASSUME Safe, NEW c \in Chats, Entered(c), NEW row \in Row, row.by = c, row.kind # "user"
    PROVE  /\ Push(chats[c].rec, row) \in Record
           /\ Fit(Push(chats[c].rec, row), Unentered)
           /\ Base(c, Push(chats[c].rec, row), chats[c].mBase, chats[c].tBase, chats[c].trimmed)
<1>1. /\ chats[c] \in Chat /\ chats[c].rec \in Record /\ Fit(chats[c].rec, Unentered)
      /\ Based(c) /\ c \notin Unentered
  BY SafeFacts
<1>2. chats[c].mBase \in Nat /\ chats[c].tBase \in Nat
  BY <1>1 DEF Chat
<1>3. Fit(Push(chats[c].rec, row), Unentered)
  BY <1>1, FitPush
<1>4. Base(c, Push(chats[c].rec, row), chats[c].mBase, chats[c].tBase, chats[c].trimmed)
  BY <1>1, <1>2, BasePush DEF Based
<1> QED
  BY <1>3, <1>4 DEF Fit

-----------------------------------------------------------------------------
\* The steps of a chat.

LEMMA EventFacts ==
    ASSUME Safe
    PROVE  /\ events \in 0..MaxEvents
           /\ Event => events' \in 0..MaxEvents
BY Constants DEF Safe, TypeOK, Event

\* A chat that is not at work is not known.
LEMMA KnownIsAtWork ==
    ASSUME Safe, NEW c \in Chats, ~Entered(c)
    PROVE  known # c
<1>1. c # NoChat
  BY Constants
<1> QED
  BY <1>1 DEF Safe, TypeOK

LEMMA OpenSafe ==
    ASSUME Safe, NEW c \in Chats, Open(c)
    PROVE  Safe'
<1> DEFINE new == [NewChat EXCEPT !.phase = "opening", !.rec = store]
<1>1. /\ chats[c].phase = "none" /\ chats' = [chats EXCEPT ![c] = new]
      /\ fresh' = fresh \cup {c} /\ UNCHANGED <<store, known, tuner, events>>
  BY DEF Open
<1>2. chats \in [Chats -> Chat] /\ store \in Record /\ Fit(store, Unentered)
  BY SafeFacts
<1>3. new \in Chat /\ new.phase = "opening" /\ new.rec = store
  BY <1>2, DoneFacts DEF Chat
<1> HIDE DEF new
<1>4. chats' \in [Chats -> Chat] /\ chats'[c] = new /\ \A d \in Chats \ {c} : chats'[d] = chats[d]
  BY <1>1, <1>2, <1>3
<1>5. c \in Unentered /\ ~Entered(c)
  BY <1>1 DEF Unentered, Entered
<1>6. c \notin Writers(store)
  BY <1>2, <1>5 DEF Fit
<1>7. Fit(store', Unentered \ {c}) /\ Fit(new.rec, Unentered \ {c})
  BY <1>1, <1>2, <1>3, FitForFewer
<1>8. known \in Chats \cup {NoChat} /\ fresh \subseteq Chats \cup {Tuner} /\ known # c /\ events \in 0..MaxEvents
  BY <1>5, KnownIsAtWork DEF Safe, TypeOK
<1>9. new.phase \notin AtWork
  BY <1>3 DEF AtWork
<1>10. /\ fresh' \subseteq Chats \cup {Tuner}
       /\ \A x \in fresh' : (x = c /\ new.rec = store') \/ (x # c /\ x \in fresh /\ store' = store)
  BY <1>1, <1>3, <1>8
<1>11. known' \in Chats \cup {NoChat} /\ known' = known /\ tuner' = tuner /\ events' \in 0..MaxEvents
  BY <1>1, <1>8
<1>12. c \notin Writers(store') \cup Writers(new.rec)
  BY <1>1, <1>3, <1>6
<1> QED
  BY <1>3, <1>4, <1>5, <1>7, <1>8, <1>9, <1>10, <1>11, <1>12, ChatStep

LEMMA RefuseSafe ==
    ASSUME Safe, NEW c \in Chats, Refuse(c)
    PROVE  Safe'
<1>1. /\ chats[c].phase = "opening" /\ chats' = [chats EXCEPT ![c] = DoneChat]
      /\ fresh' = fresh \ {c} /\ UNCHANGED <<store, known, tuner, events>>
  BY DEF Refuse
<1>2. ~Entered(c)
  BY <1>1 DEF Entered
<1>3. Forget(c)
  BY <1>1, <1>2, KnownIsAtWork DEF Forget
<1>4. Fit(store', Unentered)
  BY <1>1, SafeFacts
<1> QED
  BY <1>1, <1>3, <1>4, LeaveStep

LEMMA EnterSafe ==
    ASSUME Safe, NEW c \in Chats, Enter(c)
    PROVE  Safe'
<1> DEFINE old == chats[c].rec
           pushed == Push(old, Question(c))
           new(rec) == [chats[c] EXCEPT !.phase = "round", !.rec = rec,
                          !.mBase = MessagesBefore(old), !.tBase = Len(old.turns),
                          !.trimmed = rec # pushed]
           other(d) == [chats[d] EXCEPT !.aborted = @ \/ known = d]
<1>1. PICK rec \in Saved(pushed) :
         /\ store' = rec
         /\ chats' = [d \in Chats |-> IF d = c THEN new(rec) ELSE other(d)]
  BY DEF Enter, Question
<1>2. /\ chats[c].phase = "opening" /\ known' = c /\ fresh' = {c} /\ UNCHANGED <<tuner, events>>
  BY DEF Enter
<1>3. /\ chats \in [Chats -> Chat] /\ old \in Record /\ Fit(old, Unentered)
      /\ \A d \in Chats : chats[d] \in Chat
  BY SafeFacts
<1>4. c \in Unentered
  BY <1>2 DEF Unentered
<1>5. Question(c) \in Row /\ Question(c).by = c
  BY DEF Question, Row, Kinds
<1>6. c \notin Writers(old) /\ Follows(old) /\ old.turns \in Seq(Turn) /\ old.rows \in Seq(Row)
  BY <1>3, <1>4 DEF Fit, Record
<1> HIDE DEF old
<1>7. Fit(old, Unentered \ {c})
  BY <1>3, FitForFewer
<1>8. Fit(pushed, Unentered \ {c}) /\ pushed \in Record
  BY <1>5, <1>7, FitPush DEF Fit
<1>9. Base(c, pushed, Len(old.rows) + 1, Len(old.turns), FALSE)
  BY <1>3, <1>6, BaseEnter
<1>10. Len(old.rows) + 1 \in Nat /\ Len(old.turns) \in Nat /\ MessagesBefore(old) = Len(old.rows) + 1
  BY <1>6 DEF MessagesBefore
<1> HIDE DEF pushed
<1>11. rec \in Record /\ Fit(rec, Unentered \ {c})
  BY <1>1, <1>8, FitSaved DEF Fit
<1>12. Base(c, rec, MessagesBefore(old), Len(old.turns), rec # pushed)
  <2> DEFINE m == MessagesBefore(old)
             t == Len(old.turns)
  <2>1. Base(c, pushed, m, t, FALSE) /\ m \in Nat /\ t \in Nat
    BY <1>9, <1>10
  <2> HIDE DEF m, t
  <2>2. Base(c, rec, m, t, FALSE \/ rec # pushed)
    BY <1>1, <1>8, <2>1, BaseSaved
  <2>3. Base(c, rec, m, t, rec # pushed)
    BY <2>2 DEF Base
  <2> QED
    BY <2>3 DEF m, t
<1>13. /\ new(rec) \in Chat /\ new(rec).phase = "round" /\ new(rec).rec = rec
       /\ new(rec).mBase = MessagesBefore(old) /\ new(rec).tBase = Len(old.turns)
       /\ new(rec).trimmed = (rec # pushed)
  <2>1. chats[c] \in Chat /\ MessagesBefore(old) \in Nat /\ (rec # pushed) \in BOOLEAN
    BY <1>3, <1>10
  <2> DEFINE b == rec # pushed
             m == MessagesBefore(old)
  <2> HIDE DEF b, m
  <2>2. [chats[c] EXCEPT !.phase = "round", !.rec = rec, !.mBase = m, !.tBase = Len(old.turns), !.trimmed = b] \in Chat
    BY <2>1, <1>10, <1>11 DEF Chat, b, m
  <2>3. /\ [chats[c] EXCEPT !.phase = "round", !.rec = rec, !.mBase = m, !.tBase = Len(old.turns), !.trimmed = b].phase = "round"
        /\ [chats[c] EXCEPT !.phase = "round", !.rec = rec, !.mBase = m, !.tBase = Len(old.turns), !.trimmed = b].rec = rec
        /\ [chats[c] EXCEPT !.phase = "round", !.rec = rec, !.mBase = m, !.tBase = Len(old.turns), !.trimmed = b].mBase = m
        /\ [chats[c] EXCEPT !.phase = "round", !.rec = rec, !.mBase = m, !.tBase = Len(old.turns), !.trimmed = b].tBase = Len(old.turns)
        /\ [chats[c] EXCEPT !.phase = "round", !.rec = rec, !.mBase = m, !.tBase = Len(old.turns), !.trimmed = b].trimmed = b
    BY <2>1 DEF Chat
  <2> QED
    BY <2>2, <2>3 DEF b, m
<1>14. ASSUME NEW d \in Chats
       PROVE  /\ other(d) \in Chat
              /\ other(d).phase = chats[d].phase /\ other(d).rec = chats[d].rec
              /\ other(d).mBase = chats[d].mBase /\ other(d).tBase = chats[d].tBase
              /\ other(d).trimmed = chats[d].trimmed
  <2>1. chats[d] \in Chat
    BY <1>3
  <2> QED
    BY <2>1 DEF Chat
<1> HIDE DEF new, other
<1>15. chats' \in [Chats -> Chat] /\ chats'[c] = new(rec) /\ \A d \in Chats \ {c} : chats'[d] = other(d)
  BY <1>1, <1>13, <1>14
<1>16. c \notin Unentered'
  BY <1>13, <1>15 DEF Unentered
<1>17. Fit(store', Unentered \ {c}) /\ Fit(new(rec).rec, Unentered \ {c})
  BY <1>1, <1>11, <1>13
<1>18. \A d \in Chats \ {c} :
          /\ chats'[d].phase = chats[d].phase /\ chats'[d].rec = chats[d].rec
          /\ chats'[d].mBase = chats[d].mBase /\ chats'[d].tBase = chats[d].tBase
          /\ chats'[d].trimmed = chats[d].trimmed
  BY <1>14, <1>15
<1>19. new(rec).phase \in AtWork /\ new(rec).phase \notin {"none", "opening"}
  BY <1>13 DEF AtWork
<1>20. Base(c, new(rec).rec, new(rec).mBase, new(rec).tBase, new(rec).trimmed)
  BY <1>12, <1>13
<1>21. /\ fresh' \subseteq Chats \cup {Tuner}
       /\ \A x \in fresh' : x = c /\ new(rec).rec = store'
  BY <1>1, <1>2, <1>13
<1>22. known' \in Chats \cup {NoChat} /\ known' = c /\ tuner' = tuner /\ events' \in 0..MaxEvents
  BY <1>2 DEF Safe, TypeOK
<1> DEFINE next == new(rec)
<1>23. next \in Chat
  BY <1>13
<1> QED
  BY <1>15, <1>16, <1>17, <1>18, <1>19, <1>20, <1>21, <1>22, <1>23, ChatStep

LEMMA CompactedFacts ==
    ASSUME Safe, NEW c \in Chats, NEW rec \in Compacted(c)
    PROVE  /\ rec \in Record /\ Fit(rec, Unentered)
           /\ rec.rows = chats[c].rec.rows /\ rec.turns = chats[c].rec.turns
           /\ rec.skewed = chats[c].rec.skewed
<1>1. chats[c].rec \in Record /\ Fit(chats[c].rec, Unentered)
  BY SafeFacts
<1>2. Keep(c) \in Nat
  BY Constants DEF Keep
<1>3. rec \in Micro(chats[c].rec, Keep(c)) \cup Structured(chats[c].rec, Keep(c)) \cup WithoutModel(chats[c].rec)
  BY DEF Compacted
<1> QED
  BY <1>1, <1>2, <1>3, FitCompact, CompactFacts

LEMMA BeginRoundSafe ==
    ASSUME Safe, NEW c \in Chats, BeginRound(c)
    PROVE  Safe'
<1> DEFINE quiet == [chats[c] EXCEPT !.phase = "budget", !.tight = FALSE]
           row == [by |-> c, kind |-> "steer", round |-> chats[c].steered + 1]
           next == [quiet EXCEPT !.steered = @ + 1, !.rec = Push(@, row)]
<1>1. chats[c].phase = "round" /\ UNCHANGED <<known, tuner>> /\ Entered(c)
  BY DEF BeginRound, Entered
<1>2. chats[c] \in Chat /\ chats[c].steered \in Nat
  BY SafeFacts DEF Chat
<1>3. /\ quiet \in Chat /\ quiet.phase = "budget" /\ quiet.rec = chats[c].rec
      /\ quiet.mBase = chats[c].mBase /\ quiet.tBase = chats[c].tBase
      /\ quiet.trimmed = chats[c].trimmed /\ quiet.steered = chats[c].steered
  BY <1>2 DEF Chat
<1>4. CASE chats' = [chats EXCEPT ![c] = quiet] /\ UNCHANGED <<store, fresh, events>>
  <2>1. events' \in 0..MaxEvents
    BY <1>4, EventFacts
  <2>2. quiet.phase \in AtWork /\ quiet.phase \notin {"none", "opening"}
    BY <1>3 DEF AtWork
  <2> HIDE DEF quiet
  <2> QED
    BY <1>1, <1>3, <1>4, <2>1, <2>2, QuietStep
<1>5. CASE Event /\ Save(c, next)
  <2>1. row \in Row /\ row.by = c /\ row.kind # "user"
    BY <1>2 DEF Row, Kinds
  <2> HIDE DEF row, quiet
  <2>2. /\ Push(chats[c].rec, row) \in Record
        /\ Fit(Push(chats[c].rec, row), Unentered)
        /\ Base(c, Push(chats[c].rec, row), chats[c].mBase, chats[c].tBase, chats[c].trimmed)
    BY <1>1, <2>1, OwnPush
  <2> DEFINE pushed == Push(quiet.rec, row)
             count == quiet.steered + 1
  <2>6. pushed = Push(chats[c].rec, row) /\ pushed \in Record /\ count \in Nat
    BY <1>2, <1>3, <2>2
  <2> HIDE DEF pushed, count
  <2>3. /\ next \in Chat /\ next.phase = "budget" /\ next.rec = pushed
        /\ next.mBase = chats[c].mBase /\ next.tBase = chats[c].tBase
        /\ next.trimmed = chats[c].trimmed
    <3>1. next = [quiet EXCEPT !.steered = count, !.rec = pushed]
      BY DEF pushed, count
    <3> HIDE DEF next
    <3> QED
      BY <1>3, <2>6, <3>1 DEF Chat
  <2>4. events' \in 0..MaxEvents
    BY <1>5, EventFacts
  <2>5. next.phase \in AtWork
    BY <2>3 DEF AtWork
  <2> HIDE DEF next
  <2> QED
    BY <1>1, <1>5, <2>2, <2>3, <2>4, <2>5, <2>6, SaveStep
<1> QED
  BY <1>4, <1>5 DEF BeginRound

LEMMA BudgetSafe ==
    ASSUME Safe, NEW c \in Chats, Budget(c)
    PROVE  Safe'
<1> DEFINE quiet == [chats[c] EXCEPT !.phase = "asking"]
           next(rec) == [chats[c] EXCEPT !.phase = "asking", !.rec = rec]
<1>1. chats[c].phase = "budget" /\ UNCHANGED <<known, tuner, events>> /\ Entered(c)
  BY DEF Budget, Entered
<1>2. chats[c] \in Chat /\ chats \in [Chats -> Chat] /\ Based(c)
  BY <1>1, SafeFacts
<1>3. events' \in 0..MaxEvents
  BY <1>1, EventFacts
<1>4. CASE chats' = [chats EXCEPT ![c].phase = "asking"] /\ UNCHANGED <<store, fresh>>
  <2>1. /\ quiet \in Chat /\ quiet.phase = "asking" /\ quiet.rec = chats[c].rec
        /\ quiet.mBase = chats[c].mBase /\ quiet.tBase = chats[c].tBase
        /\ quiet.trimmed = chats[c].trimmed
    BY <1>2 DEF Chat
  <2>2. quiet.phase \in AtWork /\ quiet.phase \notin {"none", "opening"}
    BY <2>1 DEF AtWork
  <2>3. chats' = [chats EXCEPT ![c] = quiet]
    BY <1>4
  <2> HIDE DEF quiet
  <2> QED
    BY <1>1, <1>3, <1>4, <2>1, <2>2, <2>3, QuietStep
<1>5. CASE \E rec \in Compacted(c) : Save(c, next(rec))
  <2>1. PICK rec \in Compacted(c) : Save(c, next(rec))
    BY <1>5
  <2> DEFINE new == next(rec)
  <2>2. /\ rec \in Record /\ Fit(rec, Unentered)
        /\ rec.rows = chats[c].rec.rows /\ rec.turns = chats[c].rec.turns
        /\ rec.skewed = chats[c].rec.skewed
    BY CompactedFacts
  <2>3. /\ new \in Chat /\ new.phase = "asking" /\ new.rec = rec
        /\ new.mBase = chats[c].mBase /\ new.tBase = chats[c].tBase
        /\ new.trimmed = chats[c].trimmed
    BY <1>2, <2>2 DEF Chat
  <2>4. Base(c, rec, chats[c].mBase, chats[c].tBase, chats[c].trimmed)
    BY <1>2, <2>2, BaseSame DEF Based
  <2>5. new.phase \in AtWork
    BY <2>3 DEF AtWork
  <2>6. Save(c, new)
    BY <2>1
  <2> HIDE DEF new
  <2> QED
    BY <1>1, <1>3, <2>2, <2>3, <2>4, <2>5, <2>6, SaveStep
<1> QED
  BY <1>4, <1>5 DEF Budget

LEMMA OverflowSafe ==
    ASSUME Safe, NEW c \in Chats, Overflow(c)
    PROVE  Safe'
<1> DEFINE new == [chats[c] EXCEPT !.phase = "budget", !.tight = TRUE]
<1>1. chats[c] \in Chat /\ chats \in [Chats -> Chat]
  BY SafeFacts
<1>2. /\ chats[c].phase = "asking" /\ UNCHANGED <<store, known, tuner, fresh>>
      /\ events' \in 0..MaxEvents /\ Entered(c)
  BY EventFacts DEF Overflow, Asking, Entered
<1>3. chats' = [chats EXCEPT ![c] = new]
  BY <1>1 DEF Overflow
<1>4. /\ new \in Chat /\ new.phase = "budget" /\ new.rec = chats[c].rec
      /\ new.mBase = chats[c].mBase /\ new.tBase = chats[c].tBase
      /\ new.trimmed = chats[c].trimmed
  BY <1>1 DEF Chat
<1>5. new.phase \in AtWork /\ new.phase \notin {"none", "opening"}
  BY <1>4 DEF AtWork
<1> HIDE DEF new
<1> QED
  BY <1>2, <1>3, <1>4, <1>5, QuietStep

LEMMA CallToolsSafe ==
    ASSUME Safe, NEW c \in Chats, CallTools(c)
    PROVE  Safe'
<1> DEFINE row == [by |-> c, kind |-> "call", round |-> chats[c].calls + 1]
           next == [chats[c] EXCEPT !.phase = "tools", !.calls = @ + 1, !.rec = Push(@, row)]
<1>1. chats[c] \in Chat /\ chats[c].calls \in Nat
  BY SafeFacts DEF Chat
<1>2. /\ Save(c, next) /\ UNCHANGED <<known, tuner>> /\ Entered(c)
      /\ events' \in 0..MaxEvents
  BY EventFacts DEF CallTools, Asking, Entered
<1>3. row \in Row /\ row.by = c /\ row.kind # "user"
  BY <1>1 DEF Row, Kinds
<1> HIDE DEF row
<1>4. /\ Push(chats[c].rec, row) \in Record
      /\ Fit(Push(chats[c].rec, row), Unentered)
      /\ Base(c, Push(chats[c].rec, row), chats[c].mBase, chats[c].tBase, chats[c].trimmed)
  BY <1>2, <1>3, OwnPush
<1> DEFINE pushed == Push(chats[c].rec, row)
           count == chats[c].calls + 1
<1>7. pushed \in Record /\ count \in Nat
  BY <1>1, <1>4
<1>5. /\ next \in Chat /\ next.phase = "tools" /\ next.rec = Push(chats[c].rec, row)
      /\ next.mBase = chats[c].mBase /\ next.tBase = chats[c].tBase
      /\ next.trimmed = chats[c].trimmed
  <2>1. next = [chats[c] EXCEPT !.phase = "tools", !.calls = count, !.rec = pushed]
    OBVIOUS
  <2> HIDE DEF next, pushed, count
  <2>2. /\ next \in Chat /\ next.phase = "tools" /\ next.rec = pushed
        /\ next.mBase = chats[c].mBase /\ next.tBase = chats[c].tBase
        /\ next.trimmed = chats[c].trimmed
    BY <1>1, <1>7, <2>1 DEF Chat
  <2> QED
    BY <2>2 DEF pushed
<1>6. next.phase \in AtWork
  BY <1>5 DEF AtWork
<1> HIDE DEF next
<1> QED
  BY <1>2, <1>4, <1>5, <1>6, SaveStep

LEMMA ResultsSafe ==
    ASSUME Safe, NEW c \in Chats, Results(c)
    PROVE  Safe'
<1> DEFINE row == [by |-> c, kind |-> "results", round |-> chats[c].calls]
           next == [chats[c] EXCEPT !.phase = "round", !.rec = Push(@, row)]
<1>1. chats[c] \in Chat /\ chats[c].calls \in Nat
  BY SafeFacts DEF Chat
<1>2. /\ Save(c, next) /\ UNCHANGED <<known, tuner>> /\ Entered(c)
      /\ events' \in 0..MaxEvents
  BY EventFacts DEF Results, Entered
<1>3. row \in Row /\ row.by = c /\ row.kind # "user"
  BY <1>1 DEF Row, Kinds
<1> HIDE DEF row
<1>4. /\ Push(chats[c].rec, row) \in Record
      /\ Fit(Push(chats[c].rec, row), Unentered)
      /\ Base(c, Push(chats[c].rec, row), chats[c].mBase, chats[c].tBase, chats[c].trimmed)
  BY <1>2, <1>3, OwnPush
<1>5. /\ next \in Chat /\ next.phase = "round" /\ next.rec = Push(chats[c].rec, row)
      /\ next.mBase = chats[c].mBase /\ next.tBase = chats[c].tBase
      /\ next.trimmed = chats[c].trimmed
  BY <1>1, <1>4 DEF Chat
<1>6. next.phase \in AtWork
  BY <1>5 DEF AtWork
<1> HIDE DEF next
<1> QED
  BY <1>2, <1>4, <1>5, <1>6, SaveStep

LEMMA DraftSafe ==
    ASSUME Safe, NEW c \in Chats, Draft(c)
    PROVE  Safe'
<1> DEFINE row == [by |-> c, kind |-> "draft", round |-> chats[c].calls]
           next == [chats[c] EXCEPT !.phase = "round", !.drafted = TRUE, !.rec = Push(@, row)]
<1>1. chats[c] \in Chat /\ chats[c].calls \in Nat
  BY SafeFacts DEF Chat
<1>2. /\ Save(c, next) /\ UNCHANGED <<known, tuner>> /\ Entered(c)
      /\ events' \in 0..MaxEvents
  BY EventFacts DEF Draft, Asking, Entered
<1>3. row \in Row /\ row.by = c /\ row.kind # "user"
  BY <1>1 DEF Row, Kinds
<1> HIDE DEF row
<1>4. /\ Push(chats[c].rec, row) \in Record
      /\ Fit(Push(chats[c].rec, row), Unentered)
      /\ Base(c, Push(chats[c].rec, row), chats[c].mBase, chats[c].tBase, chats[c].trimmed)
  BY <1>2, <1>3, OwnPush
<1>5. /\ next \in Chat /\ next.phase = "round" /\ next.rec = Push(chats[c].rec, row)
      /\ next.mBase = chats[c].mBase /\ next.tBase = chats[c].tBase
      /\ next.trimmed = chats[c].trimmed
  BY <1>1, <1>4 DEF Chat
<1>6. next.phase \in AtWork
  BY <1>5 DEF AtWork
<1> HIDE DEF next
<1> QED
  BY <1>2, <1>4, <1>5, <1>6, SaveStep

LEMMA ReplySafe ==
    ASSUME Safe, NEW c \in Chats, Reply(c)
    PROVE  Safe'
<1> DEFINE row == [by |-> c, kind |-> "reply", round |-> chats[c].calls]
<1>1. chats[c] \in Chat /\ chats[c].calls \in Nat
  BY SafeFacts DEF Chat
<1>2. SaveLast(c, Push(chats[c].rec, row)) /\ UNCHANGED <<tuner, events>> /\ Entered(c)
  BY DEF Reply, Asking, Entered
<1>3. row \in Row /\ row.by = c /\ row.kind # "user"
  BY <1>1 DEF Row, Kinds
<1> HIDE DEF row
<1>4. Fit(Push(chats[c].rec, row), Unentered)
  BY <1>2, <1>3, OwnPush
<1>5. Fit(store', Unentered)
  BY <1>2, <1>4, FitSaved DEF SaveLast
<1> QED
  BY <1>2, <1>5, LeaveStep DEF SaveLast

LEMMA ThrowSafe ==
    ASSUME Safe, NEW c \in Chats, Throw(c)
    PROVE  Safe'
<1>1. /\ chats' = [chats EXCEPT ![c] = DoneChat] /\ Forget(c)
      /\ fresh' = fresh \ {c} /\ UNCHANGED <<store, tuner, events>>
  BY DEF Throw
<1>2. Fit(store', Unentered)
  BY <1>1, SafeFacts
<1> QED
  BY <1>1, <1>2, LeaveStep

LEMMA FinalizeSafe ==
    ASSUME Safe, NEW c \in Chats, Finalize(c)
    PROVE  Safe'
<1> DEFINE row == [by |-> c, kind |-> "reply", round |-> chats[c].calls]
<1>1. SaveLast(c, Cancelled(c)) /\ UNCHANGED <<tuner, events>> /\ Entered(c)
  BY DEF Finalize, Entered
<1>2. /\ chats[c] \in Chat /\ Fit(chats[c].rec, Unentered) /\ Based(c) /\ c \notin Unentered
  BY <1>1, SafeFacts
<1>3. chats[c].calls \in Nat /\ chats[c].mBase \in Nat /\ chats[c].tBase \in Nat /\ chats[c].trimmed \in BOOLEAN
  BY <1>2 DEF Chat
<1>4. row \in Row /\ row.by = c
  BY <1>3 DEF Row, Kinds
<1>5. Cancelled(c) = Cancel(chats[c].rec, chats[c].mBase, chats[c].tBase, chats[c].trimmed, row)
  BY DEF Cancelled, Cancel, TurnsKept
<1> HIDE DEF row
<1>6. Fit(Cancelled(c), Unentered)
  BY <1>2, <1>3, <1>4, <1>5, FitCancel DEF Based
<1>7. Fit(store', Unentered)
  BY <1>1, <1>6, FitSaved DEF SaveLast
<1> QED
  BY <1>1, <1>7, LeaveStep DEF SaveLast

LEMMA StopSafe ==
    ASSUME Safe, NEW c \in Chats, Stop(c)
    PROVE  Safe'
<1> DEFINE new == [chats[c] EXCEPT !.aborted = TRUE]
<1>1. chats[c] \in Chat /\ chats \in [Chats -> Chat]
  BY SafeFacts
<1>2. UNCHANGED <<store, known, tuner, fresh, events>> /\ events' \in 0..MaxEvents
  BY EventFacts DEF Stop
<1>3. chats' = [chats EXCEPT ![c] = new]
  BY <1>1 DEF Stop
<1>4. /\ new \in Chat /\ new.phase = chats[c].phase /\ new.rec = chats[c].rec
      /\ new.mBase = chats[c].mBase /\ new.tBase = chats[c].tBase
      /\ new.trimmed = chats[c].trimmed
  BY <1>1 DEF Chat
<1>5. (new.phase \in AtWork <=> Entered(c)) /\ (new.phase \in {"none", "opening"} => c \in Unentered)
  BY <1>4 DEF AtWork, Entered, Unentered
<1> HIDE DEF new
<1> QED
  BY <1>2, <1>3, <1>4, <1>5, QuietStep
-----------------------------------------------------------------------------
\* The requests that change the record, and the crash.

\* A step that leaves the chats alone: nobody but who has just saved is undisturbed,
\* unless the document stays.
LEMMA RecordStep ==
    ASSUME Safe, UNCHANGED <<chats, known>>, Fit(store', Unentered),
           tuner' \in [busy : BOOLEAN, rec : Record], Fit(tuner'.rec, Unentered),
           fresh' \subseteq Chats \cup {Tuner},
           \A c \in Chats : c \in fresh' => c \in fresh /\ store' = store,
           Tuner \in fresh' => tuner'.rec = store',
           events' \in 0..MaxEvents
    PROVE  Safe'
<1>1. Unentered' = Unentered
  BY DEF Unentered
<1>2. \A c \in Chats : Fit(chats'[c].rec, Unentered)
  BY SafeFacts
<1>3. \A rec \in Copies' : Fit(rec, Unentered')
  BY <1>1, <1>2 DEF Copies
<1>4. TypeOK'
  <2>1. store' \in Record
    BY DEF Fit
  <2>2. chats' \in [Chats -> Chat] /\ known' \in Chats \cup {NoChat}
    BY DEF Safe, TypeOK
  <2>3. (known # NoChat => Entered(known))'
    BY DEF Safe, TypeOK, Entered
  <2> QED
    BY <2>1, <2>2, <2>3 DEF TypeOK
<1>5. \A c \in Chats : Entered(c)' => Based(c)'
  BY DEF Safe, Entered, Based
<1>6. UndisturbedIsSaved'
  BY DEF Safe, UndisturbedIsSaved
<1> QED
  BY <1>3, <1>4, <1>5, <1>6 DEF Safe

\* A cut replaces the document, and leaves nobody undisturbed.
LEMMA RewriteSafe ==
    ASSUME Safe, NEW rec, Fit(rec, Unentered), Rewrite(rec)
    PROVE  Safe'
<1>1. /\ store' \in Saved(rec) /\ fresh' = {} /\ events' \in 0..MaxEvents
      /\ UNCHANGED <<chats, known>> /\ tuner' = tuner
  BY EventFacts DEF Rewrite
<1>2. Fit(store', Unentered)
  BY <1>1, FitSaved
<1> QED
  BY <1>1, <1>2, SafeFacts, RecordStep

LEMMA TruncateSafe ==
    ASSUME Safe, Truncate
    PROVE  Safe'
<1>1. PICK k \in DOMAIN store.turns :
         /\ DisplayAt(store.rows, k) > 0
         /\ Rewrite(CutTo(SubSeq(store.rows, 1, DisplayAt(store.rows, k) - 1),
                          SubSeq(store.turns, 1, k - 1)))
  BY DEF Truncate
<1>2. Fit(store, Unentered)
  BY SafeFacts
<1> QED
  BY <1>1, <1>2, FitTruncate, RewriteSafe

LEMMA RestoreSafe ==
    ASSUME Safe, RestoreCheckpoint
    PROVE  Safe'
<1>1. PICK keep \in 0..Len(store.turns) - 1 : Rewrite(Restored(keep))
  BY DEF RestoreCheckpoint, Restored
<1>2. Fit(store, Unentered)
  BY SafeFacts
<1> QED
  BY <1>1, <1>2, FitRestore, RewriteSafe

LEMMA SetModelSafe ==
    ASSUME Safe, SetModel
    PROVE  Safe'
<1>1. PICK rec \in Saved(store) : store' = rec /\ tuner' = [busy |-> TRUE, rec |-> rec]
  BY DEF SetModel
<1>2. fresh' = {Tuner} /\ UNCHANGED <<chats, known>> /\ events' \in 0..MaxEvents
  BY EventFacts DEF SetModel
<1>3. Fit(rec, Unentered)
  BY SafeFacts, FitSaved
<1>4. rec \in Record
  BY <1>3 DEF Fit
<1>5. tuner' \in [busy : BOOLEAN, rec : Record] /\ tuner'.rec = rec
  BY <1>1, <1>4
<1>6. Tuner \notin Chats
  BY Constants
<1> QED
  BY <1>1, <1>2, <1>3, <1>5, <1>6, RecordStep

LEMMA SetModelBudgetSafe ==
    ASSUME Safe, SetModelBudget
    PROVE  Safe'
<1>1. tuner' = Idle /\ UNCHANGED <<chats, known, events>>
  BY DEF SetModelBudget
<1>2. NewRecord \in Record /\ Fit(NewRecord, Unentered)
  BY FitNew DEF Fit
<1>3. tuner' \in [busy : BOOLEAN, rec : Record] /\ Fit(tuner'.rec, Unentered)
  BY <1>1, <1>2 DEF Idle
<1>4. events' \in 0..MaxEvents /\ fresh \subseteq Chats \cup {Tuner}
  BY <1>1, EventFacts DEF Safe, TypeOK
<1>5. CASE UNCHANGED store /\ fresh' = fresh \ {Tuner}
  <2>1. Fit(store', Unentered)
    BY <1>5, SafeFacts
  <2> QED
    BY <1>1, <1>3, <1>4, <1>5, <2>1, RecordStep
<1>6. CASE /\ \E rec \in UNION {Micro(tuner.rec, KeepRecent), Structured(tuner.rec, KeepRecent),
                                WithoutModel(tuner.rec)} : store' \in Saved(rec)
           /\ fresh' = {}
  <2>1. PICK rec \in Micro(tuner.rec, KeepRecent) \cup Structured(tuner.rec, KeepRecent)
                     \cup WithoutModel(tuner.rec) : store' \in Saved(rec)
    BY <1>6
  <2>2. KeepRecent \in Nat /\ Fit(tuner.rec, Unentered)
    BY Constants, SafeFacts
  <2>3. Fit(store', Unentered)
    BY <2>1, <2>2, FitCompact, FitSaved
  <2> QED
    BY <1>1, <1>3, <1>4, <1>6, <2>3, RecordStep
<1> QED
  BY <1>5, <1>6 DEF SetModelBudget

\* The projection that a crash leaves beside the document is one that a copy had, or one
\* that a compaction was about to save.
LEMMA UnderwayFacts ==
    ASSUME Safe
    PROVE  Underway \subseteq Projection
<1>1. \A r \in Record : r.projection \in Projection
  BY DEF Record
<1>2. store.projection \in Projection /\ \A c \in Chats : chats[c].rec.projection \in Projection
  BY <1>1, SafeFacts
<1>3. NoProjection \in Projection
  BY DEF NoProjection, Projection
<1>4. \A c \in Chats : \A rec \in Compacted(c) : rec.projection \in Projection
  BY <1>1, CompactedFacts
<1> QED
  BY <1>2, <1>3, <1>4 DEF Underway

LEMMA CrashSafe ==
    ASSUME Safe, Crash
    PROVE  Safe'
<1>1. PICK p \in Underway : store' = [store EXCEPT !.projection = p]
  BY DEF Crash
<1>2. /\ chats' = [c \in Chats |-> IF Holding(c) THEN DoneChat ELSE chats[c]]
      /\ known' = NoChat /\ tuner' = Idle /\ fresh' = {} /\ events' \in 0..MaxEvents
  BY EventFacts DEF Crash
<1>3. store \in Record /\ Fit(store, Unentered) /\ p \in Projection
  BY <1>1, SafeFacts, UnderwayFacts
<1>4. /\ store' \in Record /\ store'.rows = store.rows /\ store'.turns = store.turns
      /\ store'.memory = store.memory /\ store'.dropped = store.dropped
      /\ store'.skewed = store.skewed
  BY <1>1, <1>3 DEF Record
<1>5. Fit(store', Unentered)
  BY <1>3, <1>4 DEF Fit, Sums, Follows, Writers
<1>6. /\ DoneChat \in Chat /\ DoneChat.phase = "done" /\ DoneChat.rec = NewRecord
      /\ NewRecord \in Record /\ Fit(NewRecord, Unentered)
  BY DoneFacts, FitNew DEF Fit
<1>7. /\ chats' \in [Chats -> Chat]
      /\ \A c \in Chats : Fit(chats'[c].rec, Unentered)
  BY <1>2, <1>6, SafeFacts
<1>8. ASSUME NEW c \in Chats
      PROVE  ~Entered(c)' /\ (c \in Unentered' => c \in Unentered)
  <2>1. CASE Holding(c)
    BY <1>2, <1>6, <2>1 DEF Entered, Unentered
  <2>2. CASE ~Holding(c)
    BY <1>2, <2>2 DEF Holding, Entered, Unentered
  <2> QED
    BY <2>1, <2>2
<1>9. Unentered' \subseteq Unentered
  BY <1>8 DEF Unentered
<1>10. tuner' \in [busy : BOOLEAN, rec : Record] /\ tuner'.rec = NewRecord
  BY <1>2, <1>6 DEF Idle
<1>11. \A rec \in Copies' : Fit(rec, Unentered)
  BY <1>5, <1>6, <1>7, <1>10 DEF Copies
<1>12. \A rec \in Copies' : Fit(rec, Unentered')
  BY <1>9, <1>11, FitForFewer
<1>13. TypeOK'
  BY <1>2, <1>4, <1>7, <1>10 DEF TypeOK
<1>14. UndisturbedIsSaved'
  BY <1>2 DEF UndisturbedIsSaved
<1> QED
  BY <1>8, <1>12, <1>13, <1>14 DEF Safe

-----------------------------------------------------------------------------
\* The theorems.

LEMMA InitSafe ==
    ASSUME Init
    PROVE  Safe
<1>1. /\ \A c \in Chats : chats[c] = NewChat
      /\ chats = [c \in Chats |-> NewChat]
      /\ known = NoChat /\ tuner = Idle /\ fresh = {} /\ events = 0
  BY DEF Init
<1>2. Past \notin Unentered /\ MaxEvents \in Nat
  BY Constants DEF Unentered
<1>3. Fit(NewRecord, Unentered) /\ Fit(store, Unentered)
  BY <1>2, FitNew, FitPast DEF Init
<1>4. NewRecord \in Record /\ store \in Record
  BY <1>3 DEF Fit
<1>5. NewChat \in Chat /\ NewChat.rec = NewRecord /\ NewChat.phase = "none"
  BY <1>4 DEF NewChat, Chat
<1>6. tuner \in [busy : BOOLEAN, rec : Record] /\ tuner.rec = NewRecord
  BY <1>1, <1>4 DEF Idle
<1>7. \A rec \in Copies : Fit(rec, Unentered)
  BY <1>1, <1>3, <1>5, <1>6 DEF Copies
<1>8. TypeOK
  BY <1>1, <1>2, <1>4, <1>5, <1>6 DEF TypeOK
<1>9. UndisturbedIsSaved
  BY <1>1 DEF UndisturbedIsSaved
<1>10. \A c \in Chats : ~Entered(c)
  BY <1>1, <1>5 DEF Entered
<1> QED
  BY <1>7, <1>8, <1>9, <1>10 DEF Safe

LEMMA StepSafe ==
    ASSUME Safe, [Next]_vars
    PROVE  Safe'
<1>1. ASSUME NEW c \in Chats,
             \/ Open(c) \/ Refuse(c) \/ Enter(c)
             \/ BeginRound(c) \/ Budget(c) \/ Overflow(c)
             \/ CallTools(c) \/ Results(c) \/ Draft(c)
             \/ Reply(c) \/ Throw(c) \/ Finalize(c) \/ Stop(c)
      PROVE  Safe'
  BY <1>1, OpenSafe, RefuseSafe, EnterSafe, BeginRoundSafe, BudgetSafe, OverflowSafe,
     CallToolsSafe, ResultsSafe, DraftSafe, ReplySafe, ThrowSafe, FinalizeSafe, StopSafe
<1>2. CASE Truncate \/ RestoreCheckpoint \/ SetModel \/ SetModelBudget \/ Crash
  BY <1>2, TruncateSafe, RestoreSafe, SetModelSafe, SetModelBudgetSafe, CrashSafe
<1>3. CASE UNCHANGED vars
  BY <1>3 DEF vars, Safe, TypeOK, Copies, UndisturbedIsSaved, Entered, Based, Unentered
<1> QED
  BY <1>1, <1>2, <1>3 DEF Next

\* In every state the copies are well formed and told of by their turns, an undisturbed
\* copy is saved, a chat at work has its bases, and one that has yet to push its question
\* has no row anywhere.
THEOREM SafeInvariant == Spec => []Safe
<1> QED
  BY InitSafe, StepSafe, PTL DEF Spec

\* The record, the copies and the chats are of their types, and whom a later chat would
\* abort is at work.
THEOREM TypesAreRight == Spec => []TypeOK
<1>1. Safe => TypeOK
  BY DEF Safe
<1> QED
  BY <1>1, SafeInvariant, PTL

\* The copy of a chat, or of setSessionModel, that nobody has saved over is stored.
THEOREM UndisturbedIsAlwaysSaved == Spec => []UndisturbedIsSaved
<1>1. Safe => UndisturbedIsSaved
  BY DEF Safe
<1> QED
  BY <1>1, SafeInvariant, PTL

\* Unless a cut has counted rows that are not turns, the turns the user sees are the
\* questions, remarks and replies among the messages, in the document and in each copy.
THEOREM TurnsAlwaysFollowRows == Spec => []TurnsFollowRows
<1>1. Safe => TurnsFollowRows
  BY DEF Safe, Fit, Follows, TurnsFollowRows
<1> QED
  BY <1>1, SafeInvariant, PTL

\* The bases that finalizeCancelled cuts at: what precedes the chat's own question is of
\* others, what follows is its own.
THEOREM BasesAlwaysHold == Spec => []BasesHold
<1>1. ASSUME Safe
      PROVE  BasesHold
  <2> SUFFICES ASSUME NEW c \in Chats, Entered(c), ~chats[c].trimmed
               PROVE  LET rows == chats[c].rec.rows
                          turns == chats[c].rec.turns
                          own == [by |-> c, kind |-> "user", round |-> 0]
                      IN  /\ chats[c].mBase \in DOMAIN rows /\ chats[c].tBase + 1 \in DOMAIN turns
                          /\ \A i \in DOMAIN rows : rows[i] = own <=> i = chats[c].mBase
                          /\ \A i \in DOMAIN rows : rows[i].by = c <=> i >= chats[c].mBase
                          /\ \A i \in DOMAIN turns : turns[i].by = c <=> i >= chats[c].tBase + 1
    BY DEF BasesHold
  <2>1. Based(c)
    BY <1>1, SafeFacts
  <2> QED
    BY <2>1 DEF Based, Base, Question
<1>2. Safe => BasesHold
  BY <1>1
<1> QED
  BY <1>2, SafeInvariant, PTL

\* The memory sums up chats with rows in the transcript, or whose rows the soft cap took.
THEOREM MemoryIsAlwaysOfRecord == Spec => []MemoryIsOfRecord
<1>1. \A rec \in Record : {row.by : row \in ToSet(rec.rows)} = Authors(rec.rows)
  BY DEF ToSet, Authors
<1>2. ASSUME Safe
      PROVE  MemoryIsOfRecord
  BY <1>1, <1>2 DEF Safe, Fit, Sums, MemoryIsOfRecord
<1>3. Safe => MemoryIsOfRecord
  BY <1>2
<1> QED
  BY <1>3, SafeInvariant, PTL

-----------------------------------------------------------------------------
(***************************************************************************)
(* What a model is sent.                                                   *)
(***************************************************************************)

\* Each call is followed by its results, and no results come without their call.
Sendable(seq) == \A i \in DOMAIN seq : Matched(seq, i)

\* The results that answer a call.
Answers(results, call) == call.kind = "call" /\ results = [call EXCEPT !.kind = "results"]

\* A row matches its neighbour just if the neighbour matches it.
LEMMA Pairs ==
    ASSUME NEW call \in Row, NEW results \in Row
    PROVE  /\ Answers(results, call) <=> results.kind = "results" /\ call = [results EXCEPT !.kind = "call"]
           /\ Answers(results, call) => results.kind = "results"
<1>1. ASSUME Answers(results, call)
      PROVE  results.kind = "results" /\ call = [results EXCEPT !.kind = "call"]
  <2>1. call.kind = "call" /\ results = [call EXCEPT !.kind = "results"]
    BY <1>1 DEF Answers
  <2>2. results.kind = "results"
    BY <2>1 DEF Row
  <2>3. call = [results EXCEPT !.kind = "call"]
    BY <2>1 DEF Row
  <2> QED
    BY <2>2, <2>3
<1>2. ASSUME results.kind = "results", call = [results EXCEPT !.kind = "call"]
      PROVE  Answers(results, call)
  <2>1. call.kind = "call"
    BY <1>2 DEF Row
  <2>2. results = [call EXCEPT !.kind = "results"]
    BY <1>2 DEF Row
  <2> QED
    BY <2>1, <2>2 DEF Answers
<1> QED
  BY <1>1, <1>2

\* Matched, in terms of neighbours.
LEMMA MatchedFacts ==
    ASSUME NEW s \in Seq(Row), NEW i \in DOMAIN s
    PROVE  Matched(s, i) <=>
             /\ s[i].kind = "call" => i < Len(s) /\ Answers(s[i + 1], s[i])
             /\ s[i].kind = "results" => i > 1 /\ Answers(s[i], s[i - 1])
<1>1. s[i] \in Row /\ Len(s) \in Nat /\ i \in 1..Len(s)
  OBVIOUS
<1>2. i < Len(s) => s[i + 1] \in Row
  BY <1>1
<1>3. ASSUME i > 1, s[i].kind = "results"
      PROVE  s[i - 1] = [s[i] EXCEPT !.kind = "call"] <=> Answers(s[i], s[i - 1])
  <2>1. s[i - 1] \in Row
    BY <1>1, <1>3
  <2> QED
    BY <1>1, <1>3, <2>1, Pairs
<1>4. s[i].kind = "call" =>
        (s[i + 1] = [s[i] EXCEPT !.kind = "results"] <=> Answers(s[i + 1], s[i]))
  BY DEF Answers
<1> QED
  BY <1>3, <1>4 DEF Matched

\* repairToolCallSequences leaves a transcript that needs no repair.
LEMMA RepairedIsSendable ==
    ASSUME NEW rows \in Seq(Row)
    PROVE  Sendable(Repaired(rows))
<1> DEFINE at == {i \in DOMAIN rows : Matched(rows, i)}
           size == Len(rows)
<1>1. Repaired(rows) = Pick(rows, at)
  BY DEF Repaired
<1>2. size \in Nat /\ DOMAIN rows = 1..size /\ \A i \in 1..size : rows[i] \in Row
  OBVIOUS
<1>3. \A i \in 1..size : i \in at <=>
         /\ rows[i].kind = "call" => i < size /\ Answers(rows[i + 1], rows[i])
         /\ rows[i].kind = "results" => i > 1 /\ Answers(rows[i], rows[i - 1])
  BY <1>2, MatchedFacts
<1> HIDE DEF at
<1>4. PICK f : IsPick(f, rows, at) /\ Repaired(rows) = f[size]
  BY <1>1, PickExists
<1>5. \A n \in 0..size : f[n] \in Seq(Row)
  BY <1>4, PickFacts
<1> HIDE DEF size
\* A call that is picked has its results at the next place, which is picked, too.
<1>6. ASSUME NEW n \in 1..size, n \in at, rows[n].kind = "call"
      PROVE  n + 1 \in 1..size /\ n + 1 \in at /\ Answers(rows[n + 1], rows[n])
  <2>1. n < size /\ Answers(rows[n + 1], rows[n])
    BY <1>3, <1>6
  <2>2. n + 1 \in 1..size /\ n + 1 > 1 /\ n + 1 - 1 = n
    BY <1>2, <2>1
  <2>3. rows[n + 1].kind = "results"
    BY <1>2, <2>1, <2>2, Pairs
  <2> QED
    BY <1>3, <2>1, <2>2, <2>3
\* Results that are picked have their call at the place before, which is picked, too.
<1>7. ASSUME NEW n \in 1..size, n \in at, rows[n].kind = "results"
      PROVE  n - 1 \in 1..size /\ n - 1 \in at /\ Answers(rows[n], rows[n - 1])
  <2>1. n > 1 /\ Answers(rows[n], rows[n - 1])
    BY <1>3, <1>7
  <2>2. n - 1 \in 1..size /\ n - 1 < size /\ n - 1 + 1 = n
    BY <1>2, <2>1
  <2>3. rows[n - 1].kind = "call"
    BY <2>1 DEF Answers
  <2> QED
    BY <1>3, <2>1, <2>2, <2>3
<1> DEFINE last(n) == f[n][Len(f[n])]
           closed(n) == \A j \in 1..Len(f[n]) : j < Len(f[n]) \/ f[n][j].kind # "call" =>
                          /\ f[n][j].kind = "call" => Answers(f[n][j + 1], f[n][j])
                          /\ f[n][j].kind = "results" => j > 1 /\ Answers(f[n][j], f[n][j - 1])
           open(n) == Len(f[n]) > 0 /\ last(n).kind = "call" => n > 0 /\ n \in at /\ last(n) = rows[n]
           newest(n) == n > 0 /\ n \in at => Len(f[n]) > 0 /\ last(n) = rows[n]
           reached == {n \in 0..size : closed(n) /\ open(n) /\ newest(n)}
<1>8. 0 \in reached
  <2>1. f[0] = <<>>
    BY <1>4 DEF IsPick
  <2>2. Len(f[0]) = 0
    BY <2>1
  <2>3. closed(0) /\ open(0) /\ newest(0)
    BY <2>2
  <2> HIDE DEF closed, open, newest
  <2> QED
    BY <1>2, <2>3
<1>9. ASSUME NEW n \in 0..size - 1, n \in reached
      PROVE  n + 1 \in reached
  <2>1. closed(n) /\ open(n) /\ newest(n)
    BY <1>9
  <2>2. n + 1 \in 1..size /\ n + 1 - 1 = n /\ n \in 0..size /\ n + 1 \in 0..size /\ n + 1 > 0
    BY <1>2
  <2>3. f[n + 1] = IF n + 1 \in at THEN Append(f[n], rows[n + 1]) ELSE f[n]
    BY <1>4, <2>2 DEF IsPick, size
  <2>4. n > 0 => n \in 1..size
    BY <1>2
  <2>5. CASE n + 1 \notin at
    <3>1. f[n + 1] = f[n]
      BY <2>3, <2>5
    <3>2. ~(Len(f[n]) > 0 /\ last(n).kind = "call")
      BY <1>6, <2>1, <2>4, <2>5
    <3>3. closed(n + 1)
      BY <2>1, <3>1
    <3>4. open(n + 1) /\ newest(n + 1)
      BY <2>5, <3>1, <3>2
    <3> HIDE DEF closed, open, newest
    <3> QED
      BY <2>2, <3>3, <3>4
  <2>6. CASE n + 1 \in at
    <3> DEFINE old == f[n]
               k == Len(old)
               new == f[n + 1]
    <3>1. /\ new \in Seq(Row) /\ Len(new) = k + 1 /\ new[k + 1] = rows[n + 1]
          /\ \A j \in 1..k : new[j] = old[j]
          /\ k \in Nat
      BY <1>2, <1>5, <2>2, <2>3, <2>6, AppendProperties
    <3>2. k > 0 /\ old[k].kind = "call" => Answers(rows[n + 1], old[k])
      BY <1>6, <2>1, <2>4
    <3>3. rows[n + 1].kind = "results" => k > 0 /\ Answers(rows[n + 1], old[k])
      <4> SUFFICES ASSUME rows[n + 1].kind = "results"
                   PROVE  k > 0 /\ Answers(rows[n + 1], old[k])
        OBVIOUS
      <4>1. n \in 1..size /\ n \in at /\ Answers(rows[n + 1], rows[n])
        BY <1>7, <2>2, <2>6
      <4>2. n > 0
        BY <4>1
      <4> QED
        BY <2>1, <4>1, <4>2
    <3>4. \A j \in 1..k : j < k \/ old[j].kind # "call" =>
             /\ old[j].kind = "call" => Answers(old[j + 1], old[j])
             /\ old[j].kind = "results" => j > 1 /\ Answers(old[j], old[j - 1])
      BY <2>1
    <3> HIDE DEF old, k, new, closed, open, newest
    <3>5. ASSUME NEW j \in 1..k + 1, j < k + 1 \/ new[j].kind # "call"
          PROVE  /\ new[j].kind = "call" => Answers(new[j + 1], new[j])
                 /\ new[j].kind = "results" => j > 1 /\ Answers(new[j], new[j - 1])
      <4>1. CASE j < k
        <5>1. j \in 1..k /\ j + 1 \in 1..k /\ (j > 1 => j - 1 \in 1..k)
          BY <3>1, <4>1
        <5>2. /\ old[j].kind = "call" => Answers(old[j + 1], old[j])
              /\ old[j].kind = "results" => j > 1 /\ Answers(old[j], old[j - 1])
          BY <3>4, <4>1, <5>1
        <5> QED
          BY <3>1, <5>1, <5>2
      <4>2. CASE j = k /\ old[k].kind # "call"
        <5>1. j \in 1..k /\ (j > 1 => j - 1 \in 1..k)
          BY <3>1, <4>2
        <5>2. old[j].kind = "results" => j > 1 /\ Answers(old[j], old[j - 1])
          BY <3>4, <4>2, <5>1
        <5> QED
          BY <3>1, <4>2, <5>1, <5>2
      <4>3. CASE j = k /\ old[k].kind = "call"
        <5>1. j \in 1..k /\ k > 0
          BY <3>1, <4>3
        <5>2. new[j] = old[k] /\ new[j + 1] = rows[n + 1]
          BY <3>1, <4>3, <5>1
        <5>3. new[j].kind # "results"
          BY <4>3, <5>2
        <5> QED
          BY <3>2, <4>3, <5>1, <5>2, <5>3
      <4>4. CASE j = k + 1
        <5>1. new[j] = rows[n + 1] /\ new[j].kind # "call"
          BY <3>1, <3>5, <4>4
        <5>2. k > 0 => j > 1 /\ j - 1 = k /\ k \in 1..k /\ new[j - 1] = old[k]
          BY <3>1, <4>4
        <5> QED
          BY <3>3, <5>1, <5>2
      <4> QED
        BY <3>1, <4>1, <4>2, <4>3, <4>4
    <3>6. closed(n + 1)
      BY <3>1, <3>5 DEF closed, new
    <3>7. Len(new) > 0 /\ new[Len(new)] = rows[n + 1]
      BY <3>1
    <3>8. open(n + 1) /\ newest(n + 1)
      BY <2>2, <2>6, <3>7 DEF open, newest, new
    <3> QED
      BY <2>2, <3>6, <3>8
  <2> QED
    BY <2>5, <2>6
<1> HIDE DEF reached
<1>10. \A n \in 0..size : n \in reached
  BY <1>2, <1>8, <1>9, Induction
<1>11. size \in reached /\ size \in 0..size
  BY <1>2, <1>10
<1> DEFINE all == f[size]
           m == Len(all)
<1>12. all \in Seq(Row) /\ m \in Nat /\ DOMAIN all = 1..m
  BY <1>5, <1>11
<1>13. m > 0 => all[m].kind # "call"
  <2> SUFFICES ASSUME m > 0, all[m].kind = "call"
               PROVE  FALSE
    OBVIOUS
  <2>1. size > 0 /\ size \in at /\ all[m] = rows[size]
    BY <1>11 DEF reached
  <2>2. size \in 1..size
    BY <1>2, <2>1
  <2>3. size + 1 \in 1..size
    BY <1>6, <2>1, <2>2
  <2> QED
    BY <1>2, <2>3
<1>14. \A j \in 1..m : j < m \/ all[j].kind # "call" =>
             /\ all[j].kind = "call" => Answers(all[j + 1], all[j])
             /\ all[j].kind = "results" => j > 1 /\ Answers(all[j], all[j - 1])
  BY <1>11 DEF reached
<1> HIDE DEF all, m
<1>15. ASSUME NEW j \in 1..m
       PROVE  Matched(all, j)
  <2>1. all[j].kind = "call" => j < m
    BY <1>12, <1>13
  <2>2. /\ all[j].kind = "call" => j < m /\ Answers(all[j + 1], all[j])
        /\ all[j].kind = "results" => j > 1 /\ Answers(all[j], all[j - 1])
    BY <1>14, <2>1
  <2> QED
    BY <1>12, <2>2, MatchedFacts DEF m
<1> QED
  BY <1>4, <1>12, <1>15 DEF Sendable, all

\* The rest of a transcript from a row that does not answer the one before it.
LEMMA RestIsSendable ==
    ASSUME NEW s \in Seq(Row), Sendable(s), NEW m \in 1..Len(s) + 1,
           m <= Len(s) => s[m].kind # "results" \/ m = 1
    PROVE  Sendable(SubSeq(s, m, Len(s)))
<1> DEFINE size == Len(s)
           rest == SubSeq(s, m, Len(s))
<1>1. size \in Nat /\ m \in Nat \ {0} /\ DOMAIN s = 1..size
  OBVIOUS
<1>2. /\ rest \in Seq(Row)
      /\ Len(rest) = IF m <= size THEN size - m + 1 ELSE 0
      /\ \A i \in DOMAIN rest : i + m - 1 \in DOMAIN s /\ rest[i] = s[i + m - 1]
  BY <1>1, Piece
<1> HIDE DEF rest
<1>3. Len(rest) = size - m + 1 /\ DOMAIN rest = 1..Len(rest)
  BY <1>1, <1>2 DEF size
<1> HIDE DEF size
<1> SUFFICES ASSUME NEW i \in DOMAIN rest
             PROVE  Matched(rest, i)
  BY DEF Sendable, rest, size
<1> DEFINE j == i + m - 1
<1>4. j \in DOMAIN s /\ rest[i] = s[j] /\ j \in 1..size
  BY <1>1, <1>2
<1>5. Matched(s, j)
  BY <1>4 DEF Sendable
<1>6. /\ s[j].kind = "call" => j < Len(s) /\ Answers(s[j + 1], s[j])
      /\ s[j].kind = "results" => j > 1 /\ Answers(s[j], s[j - 1])
  BY <1>4, <1>5, MatchedFacts
<1>7. rest[i].kind = "call" => i < Len(rest) /\ Answers(rest[i + 1], rest[i])
  <2> SUFFICES ASSUME rest[i].kind = "call"
               PROVE  i < Len(rest) /\ Answers(rest[i + 1], rest[i])
    OBVIOUS
  <2>1. j < size /\ Answers(s[j + 1], s[j])
    BY <1>4, <1>6 DEF size
  <2>2. i < Len(rest) /\ i + 1 \in DOMAIN rest /\ i + 1 + m - 1 = j + 1
    BY <1>1, <1>3, <2>1
  <2>3. rest[i + 1] = s[j + 1]
    BY <1>2, <2>2
  <2> QED
    BY <1>4, <2>1, <2>2, <2>3
<1>8. rest[i].kind = "results" => i > 1 /\ Answers(rest[i], rest[i - 1])
  <2> SUFFICES ASSUME rest[i].kind = "results"
               PROVE  i > 1 /\ Answers(rest[i], rest[i - 1])
    OBVIOUS
  <2>1. j > 1 /\ Answers(s[j], s[j - 1])
    BY <1>4, <1>6
  <2>2. i > 1
    <3> SUFFICES ASSUME i = 1
                 PROVE  FALSE
      BY <1>3
    <3>1. j = m
      BY <1>1
    <3>2. m <= Len(s) /\ m # 1 /\ s[m].kind = "results"
      BY <1>4, <2>1, <3>1 DEF size
    <3> QED
      BY <3>2
  <2>3. i - 1 \in DOMAIN rest /\ i - 1 + m - 1 = j - 1
    BY <1>1, <1>3, <2>2
  <2>4. rest[i - 1] = s[j - 1]
    BY <1>2, <2>3
  <2> QED
    BY <1>4, <2>1, <2>2, <2>4
<1> QED
  BY <1>2, <1>7, <1>8, MatchedFacts

\* tailMessagesForLlm starts with whole groups.
LEMMA TailIsSendable ==
    ASSUME NEW rows \in Seq(Row), NEW max \in Nat \ {0}
    PROVE  TailForLlm(rows, max) \in Seq(Row) /\ Sendable(TailForLlm(rows, max))
<1> DEFINE all == Repaired(rows)
           first == IF Len(all) <= max THEN 1 ELSE Len(all) - max + 1
           start == IF first > 1 /\ all[first].kind = "results" THEN first - 1 ELSE first
<1>1. all \in Seq(Row) /\ Sendable(all)
  BY RepairedFacts, RepairedIsSendable
<1>2. TailForLlm(rows, max) = SubSeq(all, start, Len(all))
  BY DEF TailForLlm
<1> HIDE DEF all
<1>3. Len(all) \in Nat /\ DOMAIN all = 1..Len(all)
  BY <1>1
<1>4. first \in 1..Len(all) + 1 /\ (first > 1 => first \in DOMAIN all)
  BY <1>3
<1> HIDE DEF first
<1>5. start \in 1..Len(all) + 1 /\ (start <= Len(all) => all[start].kind # "results" \/ start = 1)
  <2>1. CASE first > 1 /\ all[first].kind = "results"
    <3>1. Matched(all, first) /\ first \in DOMAIN all
      BY <1>1, <1>4, <2>1 DEF Sendable
    <3>2. Answers(all[first], all[first - 1])
      BY <1>1, <2>1, <3>1, MatchedFacts
    <3>3. all[first - 1].kind # "results"
      BY <3>2 DEF Answers
    <3> QED
      BY <1>3, <1>4, <2>1, <3>3
  <2>2. CASE ~(first > 1 /\ all[first].kind = "results")
    BY <1>3, <1>4, <2>2
  <2> QED
    BY <2>1, <2>2
<1> HIDE DEF start
<1>6. Sendable(SubSeq(all, start, Len(all)))
  BY <1>1, <1>5, RestIsSendable
<1>7. SubSeq(all, start, Len(all)) \in Seq(Row)
  <2>1. start \in Nat \ {0}
    BY <1>3, <1>5
  <2> QED
    BY <1>1, <1>3, <2>1, Piece
<1> QED
  BY <1>2, <1>6, <1>7

\* A beginning of a transcript that does not end with a call.
LEMMA StartIsSendable ==
    ASSUME NEW s \in Seq(Row), Sendable(s), NEW p \in Seq(Row), IsPrefix(p, s),
           p # <<>>, Last(p).kind # "call"
    PROVE  Sendable(p)
<1>1. Len(p) \in 1..Len(s) /\ Len(s) \in Nat
  BY DEF IsPrefix
<1>2. SubSeq(p, 1, Len(p)) = SubSeq(s, 1, Len(p)) /\ Len(p) \in 0..Len(s)
  BY <1>1 DEF IsPrefix
<1>3. \A i \in 1..Len(p) : p[i] = s[i]
  <2>1. Len(p) \in 0..Len(p)
    BY <1>1
  <2>2. \A i \in 1..Len(p) : SubSeq(p, 1, Len(p))[i] = p[i]
    BY <2>1, Beginning
  <2>3. \A i \in 1..Len(p) : SubSeq(s, 1, Len(p))[i] = s[i]
    BY <1>2, Beginning
  <2> QED
    BY <1>2, <2>2, <2>3
<1> SUFFICES ASSUME NEW i \in DOMAIN p
             PROVE  Matched(p, i)
  BY DEF Sendable
<1>4. i \in 1..Len(p) /\ i \in DOMAIN s /\ p[i] = s[i]
  BY <1>1, <1>3
<1>5. /\ s[i].kind = "call" => i < Len(s) /\ Answers(s[i + 1], s[i])
      /\ s[i].kind = "results" => i > 1 /\ Answers(s[i], s[i - 1])
  BY <1>4, MatchedFacts DEF Sendable
<1>6. p[i].kind = "call" => i < Len(p) /\ Answers(p[i + 1], p[i])
  <2>1. p[i].kind = "call" => i # Len(p)
    BY DEF Last
  <2>2. i # Len(p) => i < Len(p) /\ i + 1 \in 1..Len(p)
    BY <1>1, <1>4
  <2> QED
    BY <1>3, <1>4, <1>5, <2>1, <2>2
<1>7. p[i].kind = "results" => i > 1 /\ Answers(p[i], p[i - 1])
  <2>1. i > 1 => i - 1 \in 1..Len(p)
    BY <1>1, <1>4
  <2> QED
    BY <1>3, <1>4, <1>5, <2>1
<1> QED
  BY <1>6, <1>7, MatchedFacts

LEMMA JoinIsSendable ==
    ASSUME NEW a \in Seq(Row), Sendable(a), NEW b \in Seq(Row), Sendable(b)
    PROVE  Sendable(a \o b)
<1> DEFINE s == a \o b
           m == Len(a)
           n == Len(b)
<1>1. m \in Nat /\ n \in Nat /\ DOMAIN a = 1..m /\ DOMAIN b = 1..n
  OBVIOUS
<1>2. /\ s \in Seq(Row) /\ Len(s) = m + n
      /\ \A i \in 1..m + n : s[i] = IF i <= m THEN a[i] ELSE b[i - m]
  BY ConcatProperties
<1>3. \A i \in 1..m : /\ a[i].kind = "call" => i < m /\ Answers(a[i + 1], a[i])
                      /\ a[i].kind = "results" => i > 1 /\ Answers(a[i], a[i - 1])
  BY <1>1, MatchedFacts DEF Sendable
<1>4. \A i \in 1..n : /\ b[i].kind = "call" => i < n /\ Answers(b[i + 1], b[i])
                      /\ b[i].kind = "results" => i > 1 /\ Answers(b[i], b[i - 1])
  BY <1>1, MatchedFacts DEF Sendable
<1> HIDE DEF s, m, n
<1>5. DOMAIN s = 1..m + n
  BY <1>2
<1> SUFFICES ASSUME NEW i \in DOMAIN s
             PROVE  Matched(s, i)
  BY DEF Sendable, s
<1>6. /\ s[i].kind = "call" => i < m + n /\ Answers(s[i + 1], s[i])
      /\ s[i].kind = "results" => i > 1 /\ Answers(s[i], s[i - 1])
  <2>1. CASE i <= m
    <3>1. i \in 1..m /\ s[i] = a[i]
      BY <1>1, <1>2, <1>5, <2>1
    <3>2. i < m => i + 1 \in 1..m + n /\ i + 1 <= m /\ i < m + n
      BY <1>1, <3>1
    <3>3. i > 1 => i - 1 \in 1..m + n /\ i - 1 <= m
      BY <1>1, <3>1
    <3>4. /\ i < m => s[i + 1] = a[i + 1]
          /\ i > 1 => s[i - 1] = a[i - 1]
      BY <1>2, <3>2, <3>3
    <3> QED
      BY <1>3, <3>1, <3>2, <3>4
  <2>2. CASE ~(i <= m)
    <3> DEFINE j == i - m
    <3>1. i \in Nat /\ j \in 1..n /\ s[i] = b[j]
      BY <1>1, <1>2, <1>5, <2>2
    <3>2. j < n => i + 1 \in 1..m + n /\ ~(i + 1 <= m) /\ i + 1 - m = j + 1 /\ i < m + n
      BY <1>1, <3>1
    <3>3. j > 1 => i - 1 \in 1..m + n /\ ~(i - 1 <= m) /\ i - 1 - m = j - 1 /\ i > 1
      BY <1>1, <3>1
    <3>4. j < n => s[i + 1] = b[j + 1]
      <4> DEFINE k == i + 1
      <4>1. j < n => k \in 1..m + n /\ ~(k <= m) /\ k - m = j + 1
        BY <1>1, <3>1
      <4> HIDE DEF j, k
      <4>2. j < n => s[k] = b[j + 1]
        BY <1>2, <4>1
      <4> QED
        BY <4>2 DEF k
    <3>5. j > 1 => s[i - 1] = b[j - 1]
      <4>1. j > 1 => s[i - 1] = b[i - 1 - m]
        BY <1>2, <3>3
      <4> HIDE DEF j
      <4> QED
        BY <3>3, <4>1
    <3> HIDE DEF j
    <3> QED
      BY <1>4, <3>1, <3>2, <3>3, <3>4, <3>5
  <2> QED
    BY <2>1, <2>2
<1> QED
  BY <1>2, <1>6, MatchedFacts

\* assembleModelView
LEMMA ViewIsSendable ==
    ASSUME NEW rec \in Record, NEW keep \in Nat \ {0},
           ~(Splits(rec) /\ rec.projection.kind = "micro")
    PROVE  Sendable(View(rec, keep))
<1> DEFINE prefix == rec.projection.prefix
           all == Repaired(rec.rows)
           rest == SubSeq(all, Len(prefix) + 1, Len(all))
           shown == IF rec.projection.kind = "micro" THEN prefix ELSE <<>>
<1>1. rec.rows \in Seq(Row) /\ rec.projection \in Projection
  BY DEF Record
<1>2. prefix \in Seq(Row)
  BY <1>1 DEF Projection
<1>3. all \in Seq(Row) /\ Sendable(all)
  BY <1>1, RepairedFacts, RepairedIsSendable
<1>4. CASE ~Valid(rec)
  <2>1. View(rec, keep) = TailForLlm(rec.rows, keep)
    BY <1>4 DEF View
  <2> QED
    BY <1>1, <2>1, TailIsSendable
<1>5. CASE Valid(rec)
  <2>1. View(rec, keep) = shown \o TailForLlm(rest, keep)
    BY <1>5 DEF View
  <2>2. rest \in Seq(Row)
    <3> HIDE DEF all, prefix
    <3> DEFINE m == Len(prefix) + 1
               n == Len(all)
    <3>1. m \in Nat \ {0} /\ n \in Nat /\ n <= Len(all)
      BY <1>2, <1>3
    <3>2. rest = SubSeq(all, m, n)
      BY DEF rest
    <3> HIDE DEF m, n, rest
    <3> QED
      BY <1>3, <3>1, <3>2, Piece
  <2>3. prefix # <<>> /\ IsPrefix(prefix, all)
    BY <1>5 DEF Valid
  <2>4. Sendable(<<>>) /\ <<>> \in Seq(Row)
    BY DEF Sendable
  <2>5. rec.projection.kind = "micro" => Sendable(prefix)
    <3>1. rec.projection.kind = "micro" => Last(prefix).kind # "call"
      BY <1>5 DEF Splits
    <3> HIDE DEF all, prefix
    <3> QED
      BY <1>2, <1>3, <2>3, <3>1, StartIsSendable
  <2> HIDE DEF all, prefix, rest
  <2>6. shown \in Seq(Row) /\ Sendable(shown)
    BY <1>2, <2>4, <2>5
  <2>7. TailForLlm(rest, keep) \in Seq(Row) /\ Sendable(TailForLlm(rest, keep))
    BY <2>2, TailIsSendable
  <2> HIDE DEF shown
  <2> QED
    BY <2>1, <2>6, <2>7, JoinIsSendable
<1> QED
  BY <1>4, <1>5

\* What a model is sent is well formed, unless a projection in use ends between a call and
\* its results: tailMessagesForLlm and repairToolCallSequences keep groups whole.
THEOREM ViewsAreAlwaysSendable == Spec => []ViewsAreSendable
<1>1. ASSUME Safe
      PROVE  ViewsAreSendable
  <2> SUFFICES ASSUME NEW c \in Chats,
                      ~(Splits(chats[c].rec) /\ chats[c].rec.projection.kind = "micro")
               PROVE  \A i \in DOMAIN ViewOf(c) : Matched(ViewOf(c), i)
    BY DEF ViewsAreSendable
  <2>1. chats[c].rec \in Record
    BY <1>1, SafeFacts
  <2>2. Keep(c) \in Nat \ {0}
    BY Constants DEF Keep
  <2> QED
    BY <2>1, <2>2, ViewIsSendable DEF ViewOf, Sendable
<1>2. Safe => ViewsAreSendable
  BY <1>1
<1> QED
  BY <1>2, SafeInvariant, PTL
-----------------------------------------------------------------------------
(***************************************************************************)
(* Sequences that are made of elements of another one, in their order.     *)
(***************************************************************************)

\* Where the elements of s are in t.
Within(s, t, g) ==
    /\ g \in [DOMAIN s -> DOMAIN t]
    /\ \A i \in DOMAIN s : s[i] = t[g[i]]
    /\ \A i, j \in DOMAIN s : i < j => g[i] < g[j]

IsPartOf(s, t) == \E g : Within(s, t, g)

LEMMA PickIsPart ==
    ASSUME NEW S, NEW seq \in Seq(S), NEW places
    PROVE  Pick(seq, places) \in Seq(S) /\ IsPartOf(Pick(seq, places), seq)
<1>1. PICK f : IsPick(f, seq, places) /\ Pick(seq, places) = f[Len(seq)]
  BY PickExists
<1>2. Len(seq) \in Nat /\ DOMAIN seq = 1..Len(seq)
  OBVIOUS
<1>3. \A n \in 0..Len(seq) : f[n] \in Seq(S)
  BY <1>1, PickFacts
<1> DEFINE fine(n) == \E g : Within(f[n], seq, g) /\ \A i \in DOMAIN f[n] : g[i] <= n
           reached == {n \in 0..Len(seq) : fine(n)}
<1>4. 0 \in reached
  <2>1. f[0] = <<>> /\ DOMAIN <<>> = {}
    BY <1>1 DEF IsPick
  <2> DEFINE g == [i \in {} |-> i]
  <2>2. Within(<<>>, seq, g)
    BY DEF Within
  <2> HIDE DEF g
  <2>3. fine(0)
    BY <2>1, <2>2
  <2> HIDE DEF fine
  <2> QED
    BY <1>2, <2>3
<1>5. ASSUME NEW n \in 0..Len(seq) - 1, n \in reached
      PROVE  n + 1 \in reached
  <2>1. PICK g : Within(f[n], seq, g) /\ \A i \in DOMAIN f[n] : g[i] <= n
    BY <1>5
  <2> HIDE DEF reached
  <2>2. n + 1 \in 1..Len(seq) /\ n + 1 - 1 = n /\ n \in 0..Len(seq) /\ n + 1 \in 0..Len(seq)
        /\ seq[n + 1] \in S
    BY <1>2
  <2>3. f[n + 1] = IF n + 1 \in places THEN Append(f[n], seq[n + 1]) ELSE f[n]
    BY <1>1, <2>2 DEF IsPick
  <2>4. f[n] \in Seq(S)
    BY <1>3, <2>2
  <2>5. CASE n + 1 \in places
    <3> DEFINE old == f[n]
               new == Append(old, seq[n + 1])
               h == [i \in 1..Len(old) + 1 |-> IF i = Len(old) + 1 THEN n + 1 ELSE g[i]]
    <3>1. f[n + 1] = new
      BY <2>3, <2>5
    <3>2. /\ new \in Seq(S) /\ Len(new) = Len(old) + 1 /\ new[Len(old) + 1] = seq[n + 1]
          /\ \A i \in 1..Len(old) : new[i] = old[i]
      BY <2>2, <2>4, AppendProperties
    <3>3. Len(old) \in Nat /\ DOMAIN old = 1..Len(old)
      BY <2>4
    <3>4. /\ g \in [1..Len(old) -> 1..Len(seq)]
          /\ \A i \in 1..Len(old) : old[i] = seq[g[i]] /\ g[i] <= n
          /\ \A i, j \in 1..Len(old) : i < j => g[i] < g[j]
      BY <1>2, <2>1, <3>3 DEF Within
    <3> HIDE DEF old, new, fine
    <3>5. DOMAIN new = 1..Len(old) + 1
      BY <3>2, <3>3
    <3>6. /\ h[Len(old) + 1] = n + 1
          /\ \A i \in 1..Len(old) : h[i] = g[i]
          /\ h \in [1..Len(old) + 1 -> 1..Len(seq)]
      BY <2>2, <3>3, <3>4
    <3> HIDE DEF h
    <3>7. \A i \in DOMAIN new : i \in 1..Len(old) \/ i = Len(old) + 1
      BY <3>3, <3>5
    <3>8. \A i \in DOMAIN new : new[i] = seq[h[i]] /\ h[i] <= n + 1
      <4> SUFFICES ASSUME NEW i \in DOMAIN new
                   PROVE  new[i] = seq[h[i]] /\ h[i] <= n + 1
        OBVIOUS
      <4>1. CASE i \in 1..Len(old)
        <5>1. h[i] = g[i] /\ new[i] = old[i] /\ old[i] = seq[g[i]] /\ g[i] <= n /\ g[i] \in 1..Len(seq)
          BY <3>2, <3>4, <3>6, <4>1
        <5>2. g[i] <= n + 1
          BY <5>1
        <5> QED
          BY <5>1, <5>2
      <4>2. CASE i = Len(old) + 1
        BY <3>2, <3>6, <4>2, <2>2
      <4> QED
        BY <3>7, <4>1, <4>2
    <3>9. ASSUME NEW i \in DOMAIN new, NEW j \in DOMAIN new, i < j
          PROVE  h[i] < h[j]
      <4>1. i \in 1..Len(old)
        BY <3>3, <3>5, <3>9
      <4>2. h[i] = g[i] /\ g[i] <= n /\ g[i] \in Nat
        BY <3>4, <3>6, <4>1
      <4>3. CASE j \in 1..Len(old)
        BY <3>4, <3>6, <3>9, <4>1, <4>3
      <4>4. CASE j = Len(old) + 1
        BY <3>6, <4>2, <4>4
      <4> QED
        BY <3>7, <4>3, <4>4
    <3>10. Within(new, seq, h)
      BY <1>2, <3>5, <3>6, <3>8, <3>9 DEF Within
    <3>11. fine(n + 1)
      BY <3>1, <3>8, <3>10 DEF fine
    <3> QED
      BY <2>2, <3>11 DEF reached
  <2>6. CASE n + 1 \notin places
    <3>1. f[n + 1] = f[n]
      BY <2>3, <2>6
    <3>2. \A i \in DOMAIN f[n] : g[i] \in DOMAIN seq
      BY <2>1 DEF Within
    <3>3. \A i \in DOMAIN f[n] : g[i] <= n + 1
      BY <1>2, <2>1, <3>2
    <3>4. fine(n + 1)
      BY <2>1, <3>1, <3>3
    <3> HIDE DEF fine
    <3> QED
      BY <2>2, <3>4 DEF reached
  <2> QED
    BY <2>5, <2>6
<1> HIDE DEF reached
<1>6. \A n \in 0..Len(seq) : n \in reached
  BY <1>2, <1>4, <1>5, Induction
<1>7. fine(Len(seq)) /\ f[Len(seq)] \in Seq(S)
  BY <1>2, <1>3, <1>6 DEF reached
<1> QED
  BY <1>1, <1>7 DEF IsPartOf

LEMMA PieceIsPart ==
    ASSUME NEW S, NEW s \in Seq(S), NEW m \in Nat \ {0}, NEW n \in Nat, n <= Len(s)
    PROVE  IsPartOf(SubSeq(s, m, n), s)
<1> DEFINE t == SubSeq(s, m, n)
           g == [i \in DOMAIN t |-> i + m - 1]
<1>1. \A i \in DOMAIN t : i + m - 1 \in DOMAIN s /\ t[i] = s[i + m - 1]
  BY Piece
<1>2. t \in Seq(S)
  BY Piece
<1> HIDE DEF t
<1>3. \A i \in DOMAIN t : i \in Nat
  BY <1>2
<1>4. /\ \A i \in DOMAIN t : g[i] = i + m - 1
      /\ g \in [DOMAIN t -> DOMAIN s]
  BY <1>1
<1> HIDE DEF g
<1>5. Within(t, s, g)
  <2>1. \A i \in DOMAIN t : t[i] = s[g[i]]
    BY <1>1, <1>4
  <2>2. \A i, j \in DOMAIN t : i < j => g[i] < g[j]
    BY <1>3, <1>4
  <2> QED
    BY <1>4, <2>1, <2>2 DEF Within
<1> QED
  BY <1>5 DEF IsPartOf, t

LEMMA PartOfPart ==
    ASSUME NEW r, NEW s, NEW t, IsPartOf(r, s), IsPartOf(s, t)
    PROVE  IsPartOf(r, t)
<1>1. PICK g : Within(r, s, g)
  BY DEF IsPartOf
<1>2. PICK h : Within(s, t, h)
  BY DEF IsPartOf
<1> DEFINE k == [i \in DOMAIN r |-> h[g[i]]]
<1>3. \A i \in DOMAIN r : g[i] \in DOMAIN s /\ h[g[i]] \in DOMAIN t /\ k[i] = h[g[i]]
  BY <1>1, <1>2 DEF Within
<1>4. k \in [DOMAIN r -> DOMAIN t]
  BY <1>3
<1> HIDE DEF k
<1>5. \A i \in DOMAIN r : r[i] = t[k[i]]
  BY <1>1, <1>2, <1>3 DEF Within
<1>6. \A i, j \in DOMAIN r : i < j => k[i] < k[j]
  BY <1>1, <1>2, <1>3 DEF Within
<1>7. Within(r, t, k)
  BY <1>4, <1>5, <1>6 DEF Within
<1> QED
  BY <1>7 DEF IsPartOf

\* A beginning of a sequence, followed by a part of the rest.
LEMMA JoinIsPart ==
    ASSUME NEW S, NEW t \in Seq(S), NEW p \in Seq(S), IsPrefix(p, t), NEW v \in Seq(S),
           IsPartOf(v, SubSeq(t, Len(p) + 1, Len(t)))
    PROVE  IsPartOf(p \o v, t)
<1> DEFINE m == Len(p)
           first == m + 1
           last == Len(t)
           rest == SubSeq(t, first, last)
           s == p \o v
           n == Len(v)
<1>1. m \in Nat /\ n \in Nat /\ last \in Nat /\ m <= last /\ first = m + 1 /\ first \in Nat \ {0}
      /\ DOMAIN p = 1..m /\ DOMAIN v = 1..n /\ DOMAIN t = 1..last
  BY DEF IsPrefix
<1>2. \A i \in 1..m : p[i] = t[i]
  <2>1. SubSeq(p, 1, m) = SubSeq(t, 1, m) /\ m \in 0..Len(p) /\ m \in 0..Len(t)
    BY <1>1 DEF IsPrefix
  <2>2. \A i \in 1..m : SubSeq(p, 1, m)[i] = p[i] /\ SubSeq(t, 1, m)[i] = t[i]
    BY <2>1, Beginning
  <2> QED
    BY <2>1, <2>2
<1>3. /\ s \in Seq(S) /\ Len(s) = m + n
      /\ \A i \in 1..m + n : s[i] = IF i <= m THEN p[i] ELSE v[i - m]
  BY ConcatProperties
<1>4. PICK g : Within(v, rest, g)
  BY DEF IsPartOf
<1> HIDE DEF m, first, last
<1>5. /\ rest \in Seq(S)
      /\ \A i \in DOMAIN rest : i + first - 1 \in DOMAIN t /\ rest[i] = t[i + first - 1]
  BY <1>1, Piece DEF last
<1> HIDE DEF rest, s, n
<1>6. \A i \in DOMAIN rest : i \in Nat \ {0} /\ i + m \in 1..last /\ rest[i] = t[i + m]
  <2>1. \A i \in DOMAIN rest : i \in Nat \ {0} /\ i + first - 1 = i + m
    BY <1>1, <1>5
  <2> QED
    BY <1>1, <1>5, <2>1
<1>7. \A i \in 1..n : g[i] \in Nat \ {0} /\ g[i] + m \in 1..last /\ v[i] = t[g[i] + m]
  BY <1>1, <1>4, <1>6 DEF Within
<1>8. \A i, j \in 1..n : i < j => g[i] < g[j]
  BY <1>1, <1>4 DEF Within
<1> DEFINE h == [i \in 1..m + n |-> IF i <= m THEN i ELSE g[i - m] + m]
<1>9. \A i \in 1..m + n : (i <= m => i \in 1..m) /\ (~(i <= m) => i - m \in 1..n)
  BY <1>1
<1>10. \A i \in 1..m + n : h[i] = IF i <= m THEN i ELSE g[i - m] + m
  OBVIOUS
<1>11. h \in [1..m + n -> 1..last]
  BY <1>1, <1>7, <1>9
<1> HIDE DEF h
<1>12. DOMAIN s = 1..m + n
  BY <1>1, <1>3
<1>13. ASSUME NEW i \in DOMAIN s
       PROVE  s[i] = t[h[i]]
  <2>1. CASE i <= m
    BY <1>2, <1>3, <1>9, <1>10, <1>12, <2>1
  <2>2. CASE ~(i <= m)
    <3>1. i - m \in 1..n /\ s[i] = v[i - m] /\ h[i] = g[i - m] + m
      BY <1>3, <1>9, <1>10, <1>12, <2>2
    <3> QED
      BY <1>7, <3>1
  <2> QED
    BY <2>1, <2>2
<1>14. ASSUME NEW i \in DOMAIN s, NEW j \in DOMAIN s, i < j
       PROVE  h[i] < h[j]
  <2>1. CASE j <= m
    <3>1. i <= m /\ h[i] = i /\ h[j] = j
      BY <1>1, <1>10, <1>12, <1>14, <2>1
    <3> QED
      BY <1>14, <3>1
  <2>2. CASE ~(j <= m) /\ i <= m
    <3>1. j - m \in 1..n /\ h[j] = g[j - m] + m /\ h[i] = i
      BY <1>9, <1>10, <1>12, <2>2
    <3>2. g[j - m] \in Nat \ {0} /\ i \in Nat
      BY <1>7, <1>12, <3>1
    <3> QED
      BY <1>1, <2>2, <3>1, <3>2
  <2>3. CASE ~(j <= m) /\ ~(i <= m)
    <3>1. j - m \in 1..n /\ h[j] = g[j - m] + m /\ i - m \in 1..n /\ h[i] = g[i - m] + m
      BY <1>9, <1>10, <1>12, <2>3
    <3>2. i - m < j - m
      BY <1>1, <1>12, <1>14
    <3>3. g[i - m] < g[j - m] /\ g[i - m] \in Nat /\ g[j - m] \in Nat
      BY <1>7, <1>8, <3>1, <3>2
    <3> QED
      BY <1>1, <3>1, <3>3
  <2> QED
    BY <2>1, <2>2, <2>3
<1>15. Within(s, t, h)
  BY <1>1, <1>11, <1>12, <1>13, <1>14 DEF Within
<1> QED
  BY <1>15 DEF IsPartOf, s

\* A part of a sequence without duplicates is what is picked at the places of its elements.
LEMMA PickOfPart ==
    ASSUME NEW S, NEW t \in Seq(S), IsInjective(t), NEW s \in Seq(S), IsPartOf(s, t)
    PROVE  Pick(t, {i \in DOMAIN t : t[i] \in ToSet(s)}) = s
<1> DEFINE at == {i \in DOMAIN t : t[i] \in ToSet(s)}
           size == Len(s)
<1>1. Len(t) \in Nat /\ DOMAIN t = 1..Len(t) /\ size \in Nat /\ DOMAIN s = 1..size
  OBVIOUS
<1>2. PICK g : Within(s, t, g)
  BY DEF IsPartOf
<1>3. /\ \A i \in 1..size : g[i] \in 1..Len(t) /\ s[i] = t[g[i]]
      /\ \A i, j \in 1..size : i < j => g[i] < g[j]
  BY <1>1, <1>2 DEF Within
<1>4. \A i \in 1..Len(t) : i \in at <=> \E j \in 1..size : g[j] = i
  <2> SUFFICES ASSUME NEW i \in 1..Len(t)
               PROVE  i \in at <=> \E j \in 1..size : g[j] = i
    OBVIOUS
  <2>1. i \in at <=> \E j \in 1..size : t[i] = s[j]
    BY <1>1 DEF ToSet
  <2>2. \A j \in 1..size : t[i] = s[j] <=> g[j] = i
    BY <1>1, <1>3 DEF IsInjective
  <2> QED
    BY <2>1, <2>2
<1>5. PICK f : IsPick(f, t, at) /\ Pick(t, at) = f[Len(t)]
  BY PickExists
<1> HIDE DEF at, size
\* The first n elements have the first k elements of the part among them.
<1> DEFINE found(n, k) == /\ f[n] = SubSeq(s, 1, k)
                          /\ \A i \in 1..size : g[i] <= n <=> i <= k
           reached == {n \in 0..Len(t) : \E k \in 0..size : found(n, k)}
<1>6. 0 \in reached
  <2>1. f[0] = <<>> /\ SubSeq(s, 1, 0) = <<>>
    BY <1>5, SubSeqEmpty DEF IsPick
  <2>2. \A i \in 1..size : ~(g[i] <= 0) /\ ~(i <= 0)
    BY <1>1, <1>3
  <2>3. found(0, 0) /\ 0 \in 0..size
    BY <1>1, <2>1, <2>2
  <2> HIDE DEF found
  <2> QED
    BY <1>1, <2>3
<1>7. ASSUME NEW n \in 0..Len(t) - 1, n \in reached
      PROVE  n + 1 \in reached
  <2>1. PICK k \in 0..size : found(n, k)
    BY <1>7
  <2> HIDE DEF reached
  <2>2. n + 1 \in 1..Len(t) /\ n + 1 - 1 = n /\ n + 1 \in 0..Len(t) /\ n \in Nat /\ k \in Nat
    BY <1>1
  <2>3. f[n + 1] = IF n + 1 \in at THEN Append(f[n], t[n + 1]) ELSE f[n]
    BY <1>5, <2>2 DEF IsPick
  <2>4. f[n] = SubSeq(s, 1, k) /\ \A i \in 1..size : g[i] <= n <=> i <= k
    BY <2>1
  <2> HIDE DEF found
  <2>5. CASE n + 1 \in at
    <3>1. PICK j \in 1..size : g[j] = n + 1
      BY <1>4, <2>2, <2>5
    <3>2. j = k + 1
      <4>1. j > k
        BY <2>2, <2>4, <3>1
      <4>2. ASSUME j # k + 1
            PROVE  FALSE
        <5>1. k + 1 \in 1..size /\ k + 1 < j
          BY <1>1, <2>2, <4>1, <4>2
        <5>2. g[k + 1] < n + 1 /\ g[k + 1] \in Nat
          BY <1>1, <1>3, <3>1, <5>1
        <5>3. k + 1 <= k
          BY <2>2, <2>4, <5>1, <5>2
        <5> QED
          BY <2>2, <5>3
      <4> QED
        BY <4>2
    <3>3. k + 1 \in 1..size /\ k + 1 \in 0..size /\ t[n + 1] = s[k + 1] /\ g[k + 1] = n + 1
      BY <1>1, <1>3, <3>1, <3>2
    <3>4. Append(SubSeq(s, 1, k), s[k + 1]) = SubSeq(s, 1, k + 1)
      <4> DEFINE a == SubSeq(s, 1, k)
                 x == s[k + 1]
                 b == SubSeq(s, 1, k + 1)
      <4>1. k \in 0..Len(s) /\ k + 1 \in 0..Len(s) /\ x \in S
        BY <1>1, <3>3 DEF size
      <4>2. a \in Seq(S) /\ Len(a) = k /\ \A i \in 1..k : a[i] = s[i]
        BY <4>1, Beginning
      <4>3. b \in Seq(S) /\ Len(b) = k + 1 /\ \A i \in 1..k + 1 : b[i] = s[i]
        BY <4>1, Beginning
      <4> HIDE DEF a, b
      <4>4. /\ Append(a, x) \in Seq(S) /\ Len(Append(a, x)) = k + 1 /\ Append(a, x)[k + 1] = x
            /\ \A i \in 1..k : Append(a, x)[i] = a[i]
        BY <4>1, <4>2, AppendProperties
      <4>5. \A i \in 1..k + 1 : i \in 1..k \/ i = k + 1
        BY <2>2
      <4> HIDE DEF x
      <4>6. \A i \in 1..k + 1 : Append(a, x)[i] = b[i]
        BY <4>2, <4>3, <4>4, <4>5 DEF x
      <4>7. Append(a, x) = b
        BY <4>3, <4>4, <4>6, SeqEqual
      <4> QED
        BY <4>7 DEF a, b, x
    <3>5. f[n + 1] = SubSeq(s, 1, k + 1)
      BY <2>3, <2>4, <2>5, <3>3, <3>4
    <3>6. ASSUME NEW i \in 1..size
          PROVE  g[i] <= n + 1 <=> i <= k + 1
      <4>1. g[i] \in Nat /\ i \in Nat /\ (g[i] <= n <=> i <= k)
        BY <1>1, <1>3, <2>4
      <4>2. CASE i = k + 1
        BY <2>2, <3>3, <4>2
      <4>3. CASE i < k + 1
        BY <2>2, <4>1, <4>3
      <4>4. CASE i > k + 1
        <5>1. g[i] > n + 1
          BY <1>3, <3>3, <4>4
        <5> QED
          BY <2>2, <4>1, <4>4, <5>1
      <4> QED
        BY <2>2, <4>1, <4>2, <4>3, <4>4
    <3>7. found(n + 1, k + 1)
      BY <3>5, <3>6 DEF found
    <3> QED
      BY <2>2, <3>3, <3>7 DEF reached
  <2>6. CASE n + 1 \notin at
    <3>1. f[n + 1] = SubSeq(s, 1, k)
      BY <2>3, <2>4, <2>6
    <3>2. \A i \in 1..size : g[i] # n + 1
      BY <1>4, <2>2, <2>6
    <3>3. \A i \in 1..size : g[i] \in Nat
      BY <1>1, <1>3
    <3>4. \A i \in 1..size : g[i] <= n + 1 <=> i <= k
      BY <2>2, <2>4, <3>2, <3>3
    <3>5. found(n + 1, k)
      BY <3>1, <3>4 DEF found
    <3> QED
      BY <2>2, <3>5 DEF reached
  <2> QED
    BY <2>5, <2>6
<1> HIDE DEF reached
<1>8. \A n \in 0..Len(t) : n \in reached
  BY <1>1, <1>6, <1>7, Induction
<1>9. PICK k \in 0..size : found(Len(t), k)
  <2>1. Len(t) \in reached
    BY <1>1, <1>8
  <2> HIDE DEF found
  <2> QED
    BY <2>1 DEF reached
<1>10. k = size
  <2>1. k \in Nat /\ k <= size
    BY <1>1
  <2>2. ASSUME k # size
        PROVE  FALSE
    <3>1. k + 1 \in 1..size
      BY <1>1, <2>1, <2>2
    <3>2. g[k + 1] <= Len(t)
      BY <1>1, <1>3, <3>1
    <3>3. k + 1 <= k
      BY <1>9, <3>1, <3>2
    <3> QED
      BY <2>1, <3>3
  <2> QED
    BY <2>2
<1>11. SubSeq(s, 1, size) = s
  BY SubSeqFull DEF size
<1> QED
  BY <1>5, <1>9, <1>10, <1>11 DEF at
-----------------------------------------------------------------------------
\* tailMessagesForLlm takes rows from the end, in their order.
LEMMA TailIsPart ==
    ASSUME NEW rows \in Seq(Row), NEW max \in Nat \ {0}
    PROVE  /\ IsPartOf(TailForLlm(rows, max), rows)
           /\ Repaired(rows) # <<>> => /\ TailForLlm(rows, max) # <<>>
                                       /\ Last(TailForLlm(rows, max)) = Last(Repaired(rows))
<1> DEFINE all == Repaired(rows)
           first == IF Len(all) <= max THEN 1 ELSE Len(all) - max + 1
           start == IF first > 1 /\ all[first].kind = "results" THEN first - 1 ELSE first
           size == Len(all)
           tail == SubSeq(all, start, size)
<1>1. all \in Seq(Row)
  BY RepairedFacts
<1>2. IsPartOf(all, rows)
  BY PickIsPart DEF Repaired
<1>3. TailForLlm(rows, max) = tail
  BY DEF TailForLlm
<1> HIDE DEF all
<1>4. size \in Nat /\ size <= Len(all) /\ DOMAIN all = 1..size
  BY <1>1
<1>5. first \in Nat \ {0} /\ (size > 0 => first <= size)
  BY <1>4
<1> HIDE DEF first, size
<1>6. start \in Nat \ {0} /\ (size > 0 => start <= size)
  BY <1>4, <1>5
<1> HIDE DEF start
<1>7. IsPartOf(tail, all)
  BY <1>1, <1>4, <1>6, PieceIsPart
<1>8. /\ tail \in Seq(Row) /\ Len(tail) = IF start <= size THEN size - start + 1 ELSE 0
      /\ \A i \in DOMAIN tail : tail[i] = all[i + start - 1]
  BY <1>1, <1>4, <1>6, Piece
<1> HIDE DEF tail
<1>9. IsPartOf(tail, rows)
  BY <1>2, <1>7, PartOfPart
<1>10. ASSUME all # <<>>
       PROVE  tail # <<>> /\ Last(tail) = Last(all)
  <2>1. size > 0
    BY <1>1, <1>4, <1>10 DEF size
  <2>2. Len(tail) = size - start + 1 /\ Len(tail) \in DOMAIN tail /\ Len(tail) + start - 1 = size
    BY <1>4, <1>6, <1>8, <2>1
  <2>3. tail[Len(tail)] = all[size]
    BY <1>8, <2>2
  <2> QED
    BY <2>2, <2>3 DEF Last, size
<1> QED
  BY <1>3, <1>9, <1>10 DEF all

\* A transcript whose last row stands by itself, or is results that follow their call, is
\* repaired to one that ends with that row.
LEMMA RepairedEnds ==
    ASSUME NEW rows \in Seq(Row)
    PROVE  /\ rows # <<>> /\ Matched(rows, Len(rows)) =>
                 /\ Repaired(rows) # <<>>
                 /\ Last(Repaired(rows)) = Last(rows)
           /\ rows = <<>> \/ (Len(rows) = 1 /\ rows[1].kind = "results") => Repaired(rows) = <<>>
<1> DEFINE at == {i \in DOMAIN rows : Matched(rows, i)}
           n == Len(rows)
<1>1. n \in Nat /\ DOMAIN rows = 1..n /\ \A i \in 1..n : rows[i] \in Row
  OBVIOUS
<1>2. PICK f : IsPick(f, rows, at) /\ Repaired(rows) = f[n]
  BY PickExists DEF Repaired
<1>3. \A i \in 0..n : f[i] \in Seq(Row)
  BY <1>2, PickFacts
<1>4. ASSUME rows # <<>>, Matched(rows, n)
      PROVE  Repaired(rows) # <<>> /\ Last(Repaired(rows)) = Last(rows)
  <2>1. n \in 1..n /\ n \in at /\ n - 1 \in 0..n /\ rows[n] \in Row
    BY <1>1, <1>4
  <2>2. f[n] = Append(f[n - 1], rows[n]) /\ f[n - 1] \in Seq(Row)
    BY <1>2, <1>3, <2>1 DEF IsPick
  <2> DEFINE before == f[n - 1]
             x == rows[n]
  <2>3. before \in Seq(Row) /\ x \in Row /\ Repaired(rows) = Append(before, x)
    BY <1>2, <2>1, <2>2
  <2> HIDE DEF before, x
  <2>4. Append(before, x) # <<>> /\ Last(Append(before, x)) = x
    BY <2>3 DEF Last
  <2> QED
    BY <2>3, <2>4 DEF x, Last
<1>5. ASSUME rows = <<>>
      PROVE  Repaired(rows) = <<>>
  <2>1. n = 0
    BY <1>5
  <2> QED
    BY <1>2, <2>1 DEF IsPick
<1>6. ASSUME n = 1, rows[1].kind = "results"
      PROVE  Repaired(rows) = <<>>
  <2>1. 1 \in 1..n /\ 1 - 1 = 0
    BY <1>6
  <2>2. ~Matched(rows, 1)
    BY <1>6 DEF Matched
  <2>3. f[1] = <<>>
    BY <1>2, <2>1, <2>2 DEF IsPick
  <2> QED
    BY <1>2, <1>6, <2>3
<1> QED
  BY <1>4, <1>5, <1>6

\* assembleModelView shows rows of the transcript, in their order.
LEMMA ViewIsPart ==
    ASSUME NEW rec \in Record, NEW keep \in Nat \ {0}
    PROVE  View(rec, keep) \in Seq(Row) /\ IsPartOf(View(rec, keep), rec.rows)
<1> DEFINE rows == rec.rows
           prefix == rec.projection.prefix
           all == Repaired(rows)
           m == Len(prefix) + 1
           n == Len(all)
           rest == SubSeq(all, m, n)
           tail == TailForLlm(rest, keep)
<1>1. rows \in Seq(Row) /\ prefix \in Seq(Row)
  BY DEF Record, Projection
<1>2. View(rec, keep) = IF Valid(rec) THEN (IF rec.projection.kind = "micro" THEN prefix ELSE <<>>) \o tail
                        ELSE TailForLlm(rows, keep)
  BY DEF View
<1>3. Valid(rec) => IsPrefix(prefix, all)
  BY DEF Valid
<1> HIDE DEF rows, prefix
<1>4. all \in Seq(Row)
  BY <1>1, RepairedFacts
<1>5. IsPartOf(all, rows)
  BY <1>1, PickIsPart DEF Repaired
<1> HIDE DEF all
<1>6. m \in Nat \ {0} /\ n \in Nat /\ n <= Len(all)
  BY <1>1, <1>4
<1>7. rest \in Seq(Row) /\ IsPartOf(rest, all)
  <2> HIDE DEF m, n
  <2> QED
    BY <1>4, <1>6, Piece, PieceIsPart
<1>8. IsPartOf(tail, rest) /\ tail \in Seq(Row)
  <2> HIDE DEF rest
  <2> QED
    BY <1>7, TailIsPart, TailIsSendable
<1> HIDE DEF tail
<1>9. CASE ~Valid(rec)
  BY <1>1, <1>2, <1>9, TailIsPart, TailIsSendable DEF rows
<1>10. CASE Valid(rec) /\ rec.projection.kind = "micro"
  <2>1. IsPartOf(prefix \o tail, all)
    BY <1>1, <1>3, <1>4, <1>8, <1>10, JoinIsPart DEF rest, m, n
  <2>2. IsPartOf(prefix \o tail, rows)
    BY <1>5, <2>1, PartOfPart
  <2> QED
    BY <1>1, <1>2, <1>8, <1>10, <2>2 DEF rows
<1>11. CASE Valid(rec) /\ rec.projection.kind # "micro"
  <2>1. <<>> \o tail = tail
    BY <1>8
  <2>2. IsPartOf(tail, rows)
    <3> HIDE DEF rest
    <3> QED
      BY <1>5, <1>7, <1>8, PartOfPart
  <2> QED
    BY <1>2, <1>8, <1>11, <2>1, <2>2 DEF rows
<1> QED
  BY <1>9, <1>10, <1>11

\* ... and ends with the newest one, unless the projection ends within a group.
LEMMA ViewEnds ==
    ASSUME NEW rec \in Record, NEW keep \in Nat \ {0}, rec.rows # <<>>, Matched(rec.rows, Len(rec.rows)),
           Last(rec.rows) \notin ToSet(rec.projection.prefix), ~Splits(rec)
    PROVE  View(rec, keep) # <<>> /\ Last(View(rec, keep)) = Last(rec.rows)
<1> DEFINE rows == rec.rows
           prefix == rec.projection.prefix
           all == Repaired(rows)
           m == Len(prefix) + 1
           n == Len(all)
           rest == SubSeq(all, m, n)
           tail == TailForLlm(rest, keep)
           x == Last(rows)
           shown == IF rec.projection.kind = "micro" THEN prefix ELSE <<>>
<1>1. rows \in Seq(Row) /\ prefix \in Seq(Row) /\ rows # <<>> /\ Matched(rows, Len(rows))
  BY DEF Record, Projection
<1>2. View(rec, keep) = IF Valid(rec) THEN shown \o tail ELSE TailForLlm(rows, keep)
  BY DEF View
<1>3. Valid(rec) => IsPrefix(prefix, all) /\ prefix # <<>> /\ Last(prefix).kind # "call"
  BY DEF Valid, Splits
<1>4. x \notin ToSet(prefix)
  OBVIOUS
<1> HIDE DEF rows, prefix
<1>5. all \in Seq(Row) /\ Sendable(all) /\ all # <<>> /\ Last(all) = x
  BY <1>1, RepairedFacts, RepairedIsSendable, RepairedEnds
<1>6. CASE ~Valid(rec)
  <2>1. TailForLlm(rows, keep) # <<>> /\ Last(TailForLlm(rows, keep)) = x
    BY <1>1, <1>5, TailIsPart
  <2> QED
    BY <1>2, <1>6, <2>1 DEF rows
<1> HIDE DEF all
<1>7. CASE Valid(rec)
  <2>1. n \in Nat \ {0} /\ Len(prefix) \in 1..n /\ DOMAIN all = 1..n /\ DOMAIN prefix = 1..Len(prefix)
    <3>1. Len(prefix) <= Len(all)
      BY <1>3, <1>7 DEF IsPrefix
    <3>2. Len(prefix) # 0 /\ Len(all) # 0
      BY <1>1, <1>3, <1>5, <1>7
    <3> QED
      BY <1>1, <1>5, <3>1, <3>2
  <2>2. \A i \in 1..Len(prefix) : prefix[i] = all[i]
    <3>1. SubSeq(prefix, 1, Len(prefix)) = SubSeq(all, 1, Len(prefix))
          /\ Len(prefix) \in 0..Len(prefix) /\ Len(prefix) \in 0..Len(all)
      BY <1>3, <1>7, <2>1 DEF IsPrefix
    <3>2. \A i \in 1..Len(prefix) : /\ SubSeq(prefix, 1, Len(prefix))[i] = prefix[i]
                                    /\ SubSeq(all, 1, Len(prefix))[i] = all[i]
      BY <1>1, <1>5, <3>1, Beginning
    <3> QED
      BY <3>1, <3>2
  <2>3. Len(prefix) # n
    <3>1. prefix[Len(prefix)] \in ToSet(prefix)
      BY <2>1 DEF ToSet
    <3>2. all[n] = x
      BY <1>5 DEF Last
    <3> QED
      BY <1>4, <2>1, <2>2, <3>1, <3>2
  <2>4. m \in 2..n /\ m \in 1..n + 1 /\ m - 1 = Len(prefix)
    <3> DEFINE k == Len(prefix)
    <3>1. n \in Nat /\ k \in 1..n /\ k # n
      BY <2>1, <2>3
    <3> HIDE DEF k, n
    <3>2. k + 1 \in 2..n /\ k + 1 \in 1..n + 1 /\ k + 1 - 1 = k
      BY <3>1
    <3> QED
      BY <3>2 DEF k
  <2>5. all[m].kind # "results"
    <3> SUFFICES ASSUME all[m].kind = "results"
                 PROVE  FALSE
      OBVIOUS
    <3> HIDE DEF m, n
    <3>1. m \in DOMAIN all /\ Matched(all, m)
      BY <1>5, <2>1, <2>4 DEF Sendable
    <3>2. Answers(all[m], all[m - 1])
      BY <1>5, <3>1, MatchedFacts
    <3>3. all[m - 1].kind = "call" /\ all[m - 1] = Last(prefix)
      BY <2>1, <2>2, <2>4, <3>2 DEF Answers, Last
    <3> QED
      BY <1>3, <1>7, <3>3
  <2>6. Sendable(rest)
    <3> HIDE DEF m
    <3> QED
      BY <1>5, <2>4, <2>5, RestIsSendable
  <2>7. rest \in Seq(Row) /\ Len(rest) = n - m + 1 /\ rest[Len(rest)] = all[n]
    <3>1. m \in Nat \ {0} /\ n \in Nat /\ n <= Len(all) /\ m <= n
      BY <2>1, <2>4
    <3> HIDE DEF m, n
    <3>2. /\ rest \in Seq(Row) /\ Len(rest) = n - m + 1
          /\ \A i \in DOMAIN rest : rest[i] = all[i + m - 1]
      BY <1>5, <3>1, Piece
    <3> HIDE DEF rest
    <3>3. Len(rest) \in DOMAIN rest /\ Len(rest) + m - 1 = n
      BY <3>1, <3>2
    <3> QED
      BY <3>2, <3>3
  <2> HIDE DEF m, rest
  <2>8. rest # <<>> /\ Matched(rest, Len(rest)) /\ Last(rest) = x
    <3>1. Len(rest) \in DOMAIN rest
      BY <2>1, <2>4, <2>7
    <3>2. Matched(rest, Len(rest)) /\ rest # <<>>
      BY <2>6, <3>1 DEF Sendable
    <3>3. Last(rest) = x
      BY <1>5, <2>7 DEF Last, n
    <3> QED
      BY <3>2, <3>3
  <2>9. tail \in Seq(Row) /\ tail # <<>> /\ Last(tail) = x
    BY <2>7, <2>8, RepairedEnds, TailIsPart, TailIsSendable
  <2> HIDE DEF tail, x
  <2>10. shown \in Seq(Row)
    BY <1>1
  <2> HIDE DEF shown
  <2>11. Len(shown) \in Nat /\ Len(tail) \in Nat \ {0}
    BY <2>9, <2>10
  <2>12. /\ Len(shown \o tail) = Len(shown) + Len(tail)
         /\ \A i \in 1..Len(shown) + Len(tail) :
               (shown \o tail)[i] = IF i <= Len(shown) THEN shown[i] ELSE tail[i - Len(shown)]
    BY <2>9, <2>10, ConcatProperties
  <2>13. (shown \o tail)[Len(shown) + Len(tail)] = tail[Len(tail)]
    <3> DEFINE k == Len(shown) + Len(tail)
    <3>1. k \in 1..Len(shown) + Len(tail) /\ ~(k <= Len(shown)) /\ k - Len(shown) = Len(tail)
      BY <2>11
    <3> QED
      BY <2>12, <3>1
  <2>14. Last(shown \o tail) = x /\ Len(shown \o tail) # 0
    BY <2>9, <2>11, <2>12, <2>13 DEF Last
  <2>15. shown \o tail # <<>>
    BY <2>14
  <2> QED
    BY <1>2, <1>7, <2>14, <2>15 DEF x, rows
<1> QED
  BY <1>6, <1>7
-----------------------------------------------------------------------------
(***************************************************************************)
(* No row is pushed twice, and a copy knows only of chats that have        *)
(* entered.                                                                *)
(***************************************************************************)

\* All rows a record still knows of.
Everything(rec) == ToSet(rec.rows) \cup ToSet(rec.turns) \cup ToSet(rec.projection.prefix)

Plain(rec, U) ==
    /\ IsInjective(rec.rows) /\ IsInjective(rec.turns)
    /\ \A row \in Everything(rec) : row.by \notin U

LEMMA PlainForFewer ==
    ASSUME NEW U, NEW V, V \subseteq U, NEW rec, Plain(rec, U)
    PROVE  Plain(rec, V)
BY DEF Plain

LEMMA SetOfAppend ==
    ASSUME NEW S, NEW s \in Seq(S), NEW x \in S
    PROVE  /\ ToSet(Append(s, x)) = ToSet(s) \cup {x}
           /\ IsInjective(s) /\ x \notin ToSet(s) => IsInjective(Append(s, x))
<1> DEFINE t == Append(s, x)
           n == Len(s)
<1>1. n \in Nat /\ DOMAIN s = 1..n /\ t \in Seq(S) /\ DOMAIN t = 1..n + 1
      /\ t[n + 1] = x /\ \A i \in 1..n : t[i] = s[i]
  OBVIOUS
<1> HIDE DEF t, n
<1>2. \A i \in 1..n + 1 : i \in 1..n \/ i = n + 1
  BY <1>1
<1>3. n + 1 \in 1..n + 1 /\ \A i \in 1..n : i \in 1..n + 1
  BY <1>1
<1>4. ToSet(t) = ToSet(s) \cup {x}
  BY <1>1, <1>2, <1>3 DEF ToSet
<1>5. ASSUME IsInjective(s), x \notin ToSet(s)
      PROVE  IsInjective(t)
  <2>1. \A i \in 1..n : s[i] # x
    BY <1>1, <1>5 DEF ToSet
  <2> SUFFICES ASSUME NEW i \in 1..n + 1, NEW j \in 1..n + 1, t[i] = t[j]
               PROVE  i = j
    BY <1>1 DEF IsInjective
  <2>2. CASE i \in 1..n /\ j \in 1..n
    BY <1>1, <1>5, <2>2 DEF IsInjective
  <2>3. CASE i \in 1..n /\ j = n + 1
    BY <1>1, <2>1, <2>3
  <2>4. CASE i = n + 1 /\ j \in 1..n
    BY <1>1, <2>1, <2>4
  <2> QED
    BY <1>2, <2>2, <2>3, <2>4
<1> QED
  BY <1>4, <1>5 DEF t

LEMMA SetOfPiece ==
    ASSUME NEW S, NEW s \in Seq(S), NEW m \in Nat \ {0}, NEW n \in Nat, n <= Len(s)
    PROVE  /\ ToSet(SubSeq(s, m, n)) \subseteq ToSet(s)
           /\ IsInjective(s) => IsInjective(SubSeq(s, m, n))
<1> DEFINE t == SubSeq(s, m, n)
<1>1. t \in Seq(S) /\ \A i \in DOMAIN t : i + m - 1 \in DOMAIN s /\ t[i] = s[i + m - 1]
  BY Piece
<1> HIDE DEF t
<1>2. \A i \in DOMAIN t : i \in Nat
  BY <1>1
<1>3. ToSet(t) \subseteq ToSet(s)
  BY <1>1 DEF ToSet
<1>4. ASSUME IsInjective(s), NEW i \in DOMAIN t, NEW j \in DOMAIN t, t[i] = t[j]
      PROVE  i = j
  <2> DEFINE a == i + m - 1
             b == j + m - 1
  <2>1. a \in DOMAIN s /\ b \in DOMAIN s /\ s[a] = s[b]
    BY <1>1, <1>4
  <2> HIDE DEF a, b
  <2>2. a = b
    BY <1>4, <2>1 DEF IsInjective
  <2> QED
    BY <1>2, <2>2 DEF a, b
<1>5. IsInjective(s) => IsInjective(t)
  BY <1>4 DEF IsInjective
<1> QED
  BY <1>3, <1>5 DEF t

LEMMA SetOfSlice ==
    ASSUME NEW S, NEW s \in Seq(S), NEW n \in Nat
    PROVE  /\ ToSet(Slice(s, n)) \subseteq ToSet(s)
           /\ IsInjective(s) => IsInjective(Slice(s, n))
<1> DEFINE k == IF n < Len(s) THEN n ELSE Len(s)
<1>1. k \in Nat /\ k <= Len(s) /\ 1 \in Nat \ {0}
  OBVIOUS
<1>2. Slice(s, n) = SubSeq(s, 1, k)
  BY DEF Slice
<1> HIDE DEF k
<1> QED
  BY <1>1, <1>2, SetOfPiece

LEMMA RowSets ==
    ASSUME NEW r \in Record
    PROVE  /\ r.rows \in Seq(Row) /\ r.turns \in Seq(Turn) /\ r.turns \in Seq(Row)
           /\ r.projection.prefix \in Seq(Row)
           /\ Everything(r) \subseteq Row
<1>1. /\ r.rows \in Seq(Row) /\ r.turns \in Seq(Turn) /\ r.turns \in Seq(Row)
      /\ r.projection.prefix \in Seq(Row)
  BY TurnsAreRows DEF Record, Projection
<1>2. \A s \in Seq(Row) : ToSet(s) \subseteq Row
  BY DEF ToSet
<1> QED
  BY <1>1, <1>2 DEF Everything

\* A push of a new row.
LEMMA PlainPush ==
    ASSUME NEW U, NEW r \in Record, Plain(r, U), NEW row \in Row, row.by \notin U, row \notin Everything(r)
    PROVE  /\ Plain(Push(r, row), U)
           /\ Everything(Push(r, row)) \subseteq Everything(r) \cup {row}
           /\ Push(r, row).projection = r.projection
<1> DEFINE new == Push(r, row)
<1>1. r.rows \in Seq(Row) /\ r.turns \in Seq(Row)
  BY RowSets
<1>2. /\ new.rows = Append(r.rows, row)
      /\ new.turns = IF IsTurn(row) THEN Append(r.turns, row) ELSE r.turns
  BY PushFacts
<1>3. new.projection = r.projection
  BY DEF Push, Record
<1> HIDE DEF new
<1>4. row \notin ToSet(r.rows) /\ row \notin ToSet(r.turns)
  BY DEF Everything
<1>5. ToSet(new.rows) = ToSet(r.rows) \cup {row} /\ IsInjective(new.rows)
  BY <1>1, <1>2, <1>4, SetOfAppend DEF Plain
<1>6. ToSet(new.turns) \subseteq ToSet(r.turns) \cup {row} /\ IsInjective(new.turns)
  BY <1>1, <1>2, <1>4, SetOfAppend DEF Plain
<1>7. Everything(new) \subseteq Everything(r) \cup {row}
  BY <1>3, <1>5, <1>6 DEF Everything
<1> QED
  BY <1>3, <1>5, <1>6, <1>7 DEF Plain, new

\* What is kept of a repaired transcript does not reach its last row.
LEMMA CutStops ==
    ASSUME NEW rows \in Seq(Row), IsInjective(rows), NEW keep \in Nat \ {0}
    PROVE  /\ ToSet(Cut(Repaired(rows), keep)) \subseteq ToSet(rows)
           /\ rows # <<>> => Last(rows) \notin ToSet(Cut(Repaired(rows), keep))
<1> DEFINE all == Repaired(rows)
           cut == Cut(all, keep)
           n == Len(rows)
           size == Len(all)
<1>1. all \in Seq(Row)
  BY RepairedFacts
<1>2. PICK g : Within(all, rows, g)
  BY PickIsPart DEF Repaired, IsPartOf
<1> HIDE DEF all
<1>3. n \in Nat /\ DOMAIN rows = 1..n /\ size \in Nat /\ DOMAIN all = 1..size
  BY <1>1
<1> HIDE DEF n, size
<1>4. /\ \A i \in 1..size : g[i] \in 1..n /\ all[i] = rows[g[i]]
      /\ \A i, j \in 1..size : i < j => g[i] < g[j]
  BY <1>2, <1>3 DEF Within
<1>5. \A x \in ToSet(cut) : \E i \in 1..size : i < size /\ x = all[i]
  <2>1. CASE size > keep
    <3> DEFINE k == size - keep
    <3>1. k \in 0..Len(all) /\ k < size /\ k \in Nat
      BY <1>3, <2>1 DEF size
    <3>2. cut = SubSeq(all, 1, k)
      BY <2>1 DEF Cut, size
    <3> HIDE DEF k
    <3>3. cut \in Seq(Row) /\ Len(cut) = k /\ \A i \in 1..k : cut[i] = all[i]
      BY <1>1, <3>1, <3>2, Beginning
    <3> HIDE DEF cut
    <3>4. DOMAIN cut = 1..k /\ \A i \in 1..k : i \in 1..size /\ i < size
      BY <1>3, <3>1, <3>3
    <3> QED
      BY <3>3, <3>4 DEF ToSet
  <2>2. CASE ~(size > keep)
    <3>1. cut = <<>>
      BY <2>2 DEF Cut, size
    <3>2. ToSet(<<>>) = {}
      BY DEF ToSet
    <3> QED
      BY <3>1, <3>2
  <2> QED
    BY <2>1, <2>2
<1> HIDE DEF cut
<1>6. ToSet(cut) \subseteq ToSet(rows)
  BY <1>3, <1>4, <1>5 DEF ToSet
<1>7. ASSUME rows # <<>>, rows[n] \in ToSet(cut)
      PROVE  FALSE
  <2>1. PICK i \in 1..size : i < size /\ rows[n] = all[i]
    BY <1>5, <1>7
  <2>2. n # 0
    BY <1>7 DEF n
  <2>3. n \in 1..n /\ size \in 1..size
    BY <1>3, <2>1, <2>2
  <2>4. g[i] < g[size] /\ g[i] \in 1..n /\ g[size] \in 1..n /\ rows[n] = rows[g[i]]
    BY <1>4, <2>1, <2>3
  <2>5. g[i] = n
    BY <1>3, <2>3, <2>4 DEF IsInjective
  <2> QED
    BY <1>3, <2>4, <2>5
<1> QED
  BY <1>6, <1>7 DEF cut, all, Last, n

\* ensureContextBudget
LEMMA PlainCompact ==
    ASSUME NEW U, NEW r \in Record, Plain(r, U), NEW keep \in Nat \ {0},
           NEW new \in Micro(r, keep) \cup Structured(r, keep) \cup WithoutModel(r)
    PROVE  /\ Plain(new, U)
           /\ Everything(new) \subseteq Everything(r)
           /\ r.rows # <<>> => Last(r.rows) \notin ToSet(new.projection.prefix)
<1> DEFINE prefix(k) == Cut(Repaired(r.rows), k)
<1>1. new.rows = r.rows /\ new.turns = r.turns
  BY CompactFacts
<1>2. KeepTight \in Nat \ {0}
  BY Constants
<1>3. \E k \in Nat \ {0} : new.projection.prefix = prefix(k)
  <2> HIDE DEF prefix
  <2>1. CASE new \in Micro(r, keep)
    <3>1. new = [r EXCEPT !.projection = [kind |-> "micro", prefix |-> prefix(keep)]]
      BY <2>1 DEF Micro, prefix
    <3> QED
      BY <3>1 DEF Record
  <2>2. CASE new \in Structured(r, keep)
    <3>1. new.projection = [kind |-> "memory", prefix |-> prefix(keep)]
      BY <2>2 DEF Structured, prefix, Record
    <3> QED
      BY <3>1
  <2>3. CASE new \in WithoutModel(r)
    <3>1. new = [r EXCEPT !.projection = [kind |-> "micro", prefix |-> prefix(KeepTight)]]
      BY <2>3 DEF WithoutModel, prefix
    <3> QED
      BY <1>2, <3>1 DEF Record
  <2> QED
    BY <2>1, <2>2, <2>3
<1>4. PICK k \in Nat \ {0} : new.projection.prefix = Cut(Repaired(r.rows), k)
  BY <1>3
<1>5. r.rows \in Seq(Row) /\ IsInjective(r.rows)
  BY RowSets DEF Plain
<1>6. /\ ToSet(new.projection.prefix) \subseteq ToSet(r.rows)
      /\ r.rows # <<>> => Last(r.rows) \notin ToSet(new.projection.prefix)
  BY <1>4, <1>5, CutStops
<1>7. Everything(new) \subseteq Everything(r)
  BY <1>1, <1>6 DEF Everything
<1> QED
  BY <1>1, <1>6, <1>7 DEF Plain

\* applySessionPersistSoftCap
LEMMA PlainSaved ==
    ASSUME NEW U, NEW r \in Record, Plain(r, U), NEW s \in Saved(r)
    PROVE  Plain(s, U) /\ Everything(s) \subseteq Everything(r)
<1>1. s = r \/ (s = Trimmed(r) /\ Len(r.turns) > KeepTurns)
  BY SavedFacts
<1>2. CASE s = r
  BY <1>2
<1>3. CASE s = Trimmed(r) /\ Len(r.turns) > KeepTurns
  <2> DEFINE drop == Len(r.turns) - KeepTurns + 1
             size == Len(r.turns)
             n == Len(r.rows)
  <2>1. PICK cut \in Nat : s.rows = SubSeq(r.rows, cut + 1, n)
    BY <1>3, TrimFacts
  <2>2. s.turns = SubSeq(r.turns, drop, size)
    BY <1>3, TrimFacts
  <2>3. s.projection = r.projection
    BY <1>3 DEF Trimmed, Record
  <2>4. r.rows \in Seq(Row) /\ r.turns \in Seq(Row)
    BY RowSets
  <2>5. drop \in Nat \ {0} /\ size \in Nat /\ size <= Len(r.turns) /\ n \in Nat /\ n <= Len(r.rows)
        /\ cut + 1 \in Nat \ {0}
    BY <1>3, <2>4, Constants
  <2> HIDE DEF drop, size, n
  <2>6. ToSet(s.rows) \subseteq ToSet(r.rows) /\ IsInjective(s.rows)
    <3> DEFINE m == cut + 1
    <3>1. m \in Nat \ {0} /\ s.rows = SubSeq(r.rows, m, n)
      BY <2>1, <2>5
    <3> HIDE DEF m
    <3> QED
      BY <2>4, <2>5, <3>1, SetOfPiece DEF Plain
  <2>7. ToSet(s.turns) \subseteq ToSet(r.turns) /\ IsInjective(s.turns)
    BY <2>2, <2>4, <2>5, SetOfPiece DEF Plain
  <2>8. Everything(s) \subseteq Everything(r)
    BY <2>3, <2>6, <2>7 DEF Everything
  <2> QED
    BY <2>6, <2>7, <2>8 DEF Plain
<1> QED
  BY <1>1, <1>2, <1>3

\* Cuts made for the user, with rows and turns of the document.
LEMMA PlainCutTo ==
    ASSUME NEW U, store \in Record, Plain(store, U), NEW rows \in Seq(Row), NEW turns \in Seq(Turn),
           IsInjective(rows), IsInjective(turns),
           ToSet(rows) \cup ToSet(turns) \subseteq Everything(store)
    PROVE  Plain(CutTo(rows, turns), U)
<1> DEFINE new == CutTo(rows, turns)
<1>1. new.rows = rows /\ new.turns = turns
  BY CutToFacts
<1>2. new.projection.prefix = <<>>
  BY DEF CutTo, NoProjection, Record
<1>3. ToSet(<<>>) = {}
  BY DEF ToSet
<1> HIDE DEF new
<1>4. Everything(new) \subseteq Everything(store)
  BY <1>1, <1>2, <1>3 DEF Everything
<1> QED
  BY <1>1, <1>4 DEF Plain, new

LEMMA PlainTruncate ==
    ASSUME NEW U, store \in Record, Plain(store, U), NEW k \in DOMAIN store.turns
    PROVE  Plain(CutTo(SubSeq(store.rows, 1, DisplayAt(store.rows, k) - 1),
                       SubSeq(store.turns, 1, k - 1)), U)
<1> DEFINE place == DisplayAt(store.rows, k)
           rows == SubSeq(store.rows, 1, place - 1)
           turns == SubSeq(store.turns, 1, k - 1)
<1>1. store.rows \in Seq(Row) /\ store.turns \in Seq(Turn)
  BY RowSets
<1>2. k - 1 \in Nat /\ k - 1 <= Len(store.turns)
  BY <1>1
<1>3. place \in 0..Len(store.rows)
  BY <1>1, PlaceFacts
<1> HIDE DEF place
<1>4. turns \in Seq(Turn) /\ ToSet(turns) \subseteq ToSet(store.turns) /\ IsInjective(turns)
  <2> DEFINE n == k - 1
  <2>1. n \in Nat /\ n <= Len(store.turns)
    BY <1>2
  <2> HIDE DEF n
  <2>2. /\ SubSeq(store.turns, 1, n) \in Seq(Turn)
        /\ ToSet(SubSeq(store.turns, 1, n)) \subseteq ToSet(store.turns)
        /\ IsInjective(SubSeq(store.turns, 1, n))
    BY <1>1, <2>1, Piece, SetOfPiece DEF Plain
  <2> QED
    BY <2>2 DEF n
<1>5. rows \in Seq(Row) /\ ToSet(rows) \subseteq ToSet(store.rows) /\ IsInjective(rows)
  <2>1. CASE place > 0
    <3> DEFINE n == place - 1
    <3>1. n \in Nat /\ n <= Len(store.rows)
      BY <1>1, <1>3, <2>1
    <3> HIDE DEF n
    <3>2. /\ SubSeq(store.rows, 1, n) \in Seq(Row)
          /\ ToSet(SubSeq(store.rows, 1, n)) \subseteq ToSet(store.rows)
          /\ IsInjective(SubSeq(store.rows, 1, n))
      BY <1>1, <3>1, Piece, SetOfPiece DEF Plain
    <3> QED
      BY <3>2 DEF n
  <2>2. CASE ~(place > 0)
    <3> DEFINE n == place - 1
    <3>1. n \in Int /\ 1 > n
      BY <1>1, <1>3, <2>2
    <3> HIDE DEF n
    <3>2. SubSeq(store.rows, 1, n) = <<>>
      BY <1>1, <3>1, SubSeqEmpty
    <3>3. rows = <<>>
      BY <3>2 DEF n
    <3>4. <<>> \in Seq(Row) /\ ToSet(<<>>) = {} /\ IsInjective(<<>>)
      BY DEF ToSet, IsInjective
    <3> QED
      BY <3>3, <3>4
  <2> QED
    BY <2>1, <2>2
<1> HIDE DEF rows, turns
<1>6. ToSet(rows) \cup ToSet(turns) \subseteq Everything(store)
  BY <1>4, <1>5 DEF Everything
<1>7. Plain(CutTo(rows, turns), U)
  BY <1>4, <1>5, <1>6, PlainCutTo
<1> QED
  BY <1>7 DEF rows, turns, place

LEMMA PlainRestore ==
    ASSUME NEW U, store \in Record, Plain(store, U), NEW keep \in 0..Len(store.turns) - 1
    PROVE  Plain(Restored(keep), U)
<1> DEFINE place == DisplayAt(store.rows, keep)
           turns == SubSeq(store.turns, 1, keep)
           rows == IF keep > 0 /\ place = 0 THEN turns ELSE SubSeq(store.rows, 1, place)
<1>1. store.rows \in Seq(Row) /\ store.turns \in Seq(Turn)
  BY RowSets
<1>2. place \in Nat /\ place <= Len(store.rows) /\ keep \in Nat /\ keep <= Len(store.turns)
  <2>1. place \in 0..Len(store.rows)
    BY <1>1, PlaceFacts
  <2> QED
    BY <1>1, <2>1
<1> HIDE DEF place
<1>3. turns \in Seq(Turn) /\ ToSet(turns) \subseteq ToSet(store.turns) /\ IsInjective(turns)
  BY <1>1, <1>2, Piece, SetOfPiece DEF Plain
<1>4. /\ SubSeq(store.rows, 1, place) \in Seq(Row)
      /\ ToSet(SubSeq(store.rows, 1, place)) \subseteq ToSet(store.rows)
      /\ IsInjective(SubSeq(store.rows, 1, place))
  BY <1>1, <1>2, Piece, SetOfPiece DEF Plain
<1> HIDE DEF turns
<1>5. rows \in Seq(Row) /\ ToSet(rows) \subseteq Everything(store) /\ IsInjective(rows)
  BY <1>3, <1>4, TurnsAreRows DEF Everything
<1>6. ToSet(turns) \subseteq Everything(store)
  BY <1>3 DEF Everything
<1> HIDE DEF rows
<1>7. Plain(CutTo(rows, turns), U)
  BY <1>3, <1>5, <1>6, PlainCutTo
<1> QED
  BY <1>7 DEF rows, turns, place, Restored

\* finalizeCancelled
LEMMA PlainCancel ==
    ASSUME NEW U, NEW r \in Record, Plain(r, U), NEW m \in Nat, NEW t \in Nat, NEW trimmed \in BOOLEAN,
           NEW row \in Row, row.by \notin U, row \notin Everything(r)
    PROVE  Plain(Cancel(r, m, t, trimmed, row), U)
<1> DEFINE rows == Slice(r.rows, m)
           turns == Slice(r.turns, t + 1)
           cut == [r EXCEPT !.rows = rows, !.turns = turns, !.skewed = @ \/ trimmed]
<1>1. r.rows \in Seq(Row) /\ r.turns \in Seq(Turn) /\ t + 1 \in Nat
  BY RowSets
<1>2. rows \in Seq(Row) /\ ToSet(rows) \subseteq ToSet(r.rows) /\ IsInjective(rows)
  BY <1>1, SliceFacts, SetOfSlice DEF Plain
<1>3. turns \in Seq(Turn) /\ ToSet(turns) \subseteq ToSet(r.turns) /\ IsInjective(turns)
  <2> DEFINE n == t + 1
  <2>1. n \in Nat
    BY <1>1
  <2> HIDE DEF n
  <2>2. /\ Slice(r.turns, n) \in Seq(Turn) /\ ToSet(Slice(r.turns, n)) \subseteq ToSet(r.turns)
        /\ IsInjective(Slice(r.turns, n))
    BY <1>1, <2>1, SliceFacts, SetOfSlice DEF Plain
  <2> QED
    BY <2>2 DEF n
<1>4. Cancel(r, m, t, trimmed, row) = Push(cut, row)
  BY DEF Cancel
<1> HIDE DEF rows, turns
<1>5. /\ cut \in Record /\ cut.rows = rows /\ cut.turns = turns
      /\ cut.projection = r.projection
  BY <1>2, <1>3 DEF Record
<1> HIDE DEF cut
<1>6. Everything(cut) \subseteq Everything(r)
  BY <1>2, <1>3, <1>5 DEF Everything
<1>7. Plain(cut, U)
  BY <1>2, <1>3, <1>5, <1>6 DEF Plain
<1>8. row \notin Everything(cut)
  BY <1>6
<1> QED
  BY <1>4, <1>5, <1>7, <1>8, PlainPush

LEMMA PlainStart ==
    ASSUME NEW U
    PROVE  /\ Plain(NewRecord, U) /\ Everything(NewRecord) = {}
           /\ Past \notin U => Plain(PastRecord, U)
<1>1. ToSet(<<>>) = {} /\ IsInjective(<<>>)
  BY DEF ToSet, IsInjective
<1>2. NewRecord.rows = <<>> /\ NewRecord.turns = <<>> /\ NewRecord.projection.prefix = <<>>
  BY DEF NewRecord, NoProjection
<1>3. Everything(NewRecord) = {}
  BY <1>1, <1>2 DEF Everything
<1> DEFINE x == PastRow("user")
           y == PastRow("reply")
           both == <<x, y>>
<1>4. PastRecord.rows = both /\ PastRecord.turns = both /\ PastRecord.projection.prefix = <<>>
  BY DEF PastRecord, NewRecord, NoProjection
<1>5. x # y /\ x.by = Past /\ y.by = Past
  BY DEF PastRow
<1> HIDE DEF x, y
<1>6. DOMAIN both = 1..2 /\ both[1] = x /\ both[2] = y
  OBVIOUS
<1> HIDE DEF both
<1>7. \A i \in 1..2 : i = 1 \/ i = 2
  OBVIOUS
<1>8. IsInjective(both) /\ ToSet(both) \subseteq {x, y}
  BY <1>5, <1>6, <1>7 DEF IsInjective, ToSet
<1>9. Everything(PastRecord) \subseteq {x, y}
  BY <1>1, <1>4, <1>8 DEF Everything
<1> QED
  BY <1>1, <1>2, <1>3, <1>4, <1>5, <1>8, <1>9 DEF Plain

\* A projection file left beside another document.
LEMMA PlainBeside ==
    ASSUME NEW U, NEW r \in Record, Plain(r, U), NEW p \in Projection,
           \A row \in ToSet(p.prefix) : row.by \notin U
    PROVE  Plain([r EXCEPT !.projection = p], U)
<1> DEFINE new == [r EXCEPT !.projection = p]
<1>1. new.rows = r.rows /\ new.turns = r.turns /\ new.projection = p
  BY DEF Record
<1> HIDE DEF new
<1> QED
  BY <1>1 DEF Plain, Everything, new
-----------------------------------------------------------------------------
(***************************************************************************)
(* What a chat at work has said, and what its copy ends with.              *)
(***************************************************************************)

\* A row of the chat c is one it has pushed already.
Said(c, chat, row) ==
    row.by = c =>
        /\ row.kind # "reply"
        /\ row.kind = "steer" => row.round <= chat.steered
        /\ row.kind = "call" => row.round <= chat.calls
        /\ row.kind = "results" => /\ row.round <= chat.calls
                                   /\ chat.phase = "tools" => row.round < chat.calls
        /\ row.kind = "draft" => chat.drafted

Spoken(c, chat) == \A row \in Everything(chat.rec) : Said(c, chat, row)

\* The copy ends with the call whose results are awaited, or with a row that a repair
\* keeps; it may be empty, or left with the results of a call that is gone, where a trim of
\* a skewed record has cut at a share of the rows.
Newest(c, chat) ==
    LET rows == chat.rec.rows
        n == Len(rows)
    IN  \/ rows = <<>> /\ chat.rec.skewed
        \/ /\ rows # <<>> /\ rows[n] \notin ToSet(chat.rec.projection.prefix)
           /\ \/ chat.phase = "tools" /\ rows[n] = [by |-> c, kind |-> "call", round |-> chat.calls]
              \/ chat.phase # "tools" /\ Matched(rows, n)
              \/ chat.phase # "tools" /\ n = 1 /\ chat.rec.skewed /\ rows[n].kind = "results"

LEMMA PlaceIsDisplay ==
    ASSUME NEW rows, NEW k, DisplayAt(rows, k) # 0
    PROVE  IsDisplay(rows[DisplayAt(rows, k)])
BY DEF DisplayAt

\* A trim at a display row leaves that row as the first one.  Else the record is skewed.
LEMMA TrimPlace ==
    ASSUME NEW r \in Record, Follows(r), Len(r.turns) > KeepTurns, ~Skewed(r)
    PROVE  /\ Trimmed(r).rows # <<>>
           /\ Trimmed(r).rows[1].kind # "results"
<1> DEFINE k == Len(r.turns) - KeepTurns + 1
           place == DisplayAt(r.rows, k)
           n == Len(r.rows)
           rows == Trimmed(r).rows
<1>1. r.rows \in Seq(Row) /\ r.turns \in Seq(Turn)
  BY RowSets
<1>2. ~r.skewed /\ NoDrafts(r.rows)
  BY DEF Skewed, NoDrafts
<1>3. TurnsOf(r.rows) = r.turns
  BY <1>2 DEF Follows
<1>4. k \in 1..Len(TurnsOf(r.rows))
  BY <1>1, <1>3, Constants
<1> HIDE DEF k
<1>5. place \in 1..n
  BY <1>1, <1>2, <1>4, PlaceOfTurn
<1>6. PICK cut \in Nat : /\ rows = SubSeq(r.rows, cut + 1, n)
                         /\ place > 0 => cut = place - 1
  BY TrimFacts DEF k
<1>7. n \in Nat /\ n <= Len(r.rows) /\ place \in Nat \ {0} /\ cut + 1 = place /\ rows = SubSeq(r.rows, place, n)
  BY <1>1, <1>5, <1>6
<1>8. IsDisplay(r.rows[place])
  BY <1>7, PlaceIsDisplay
<1> HIDE DEF place, n, rows
<1>9. /\ rows \in Seq(Row) /\ Len(rows) = n - place + 1
      /\ \A i \in DOMAIN rows : rows[i] = r.rows[i + place - 1]
  <2> DEFINE old == r.rows
             piece == SubSeq(old, place, n)
  <2>1. old \in Seq(Row) /\ place \in Nat \ {0} /\ n \in Nat /\ n <= Len(old) /\ place <= n
    BY <1>1, <1>5, <1>7
  <2> HIDE DEF old
  <2>2. /\ piece \in Seq(Row) /\ Len(piece) = n - place + 1
        /\ \A i \in DOMAIN piece : piece[i] = old[i + place - 1]
    BY <2>1, Piece
  <2>3. rows = piece
    BY <1>7 DEF old
  <2> HIDE DEF piece
  <2> QED
    BY <2>2, <2>3 DEF old
<1>10. 1 \in DOMAIN rows /\ 1 + place - 1 = place
  BY <1>5, <1>7, <1>9
<1>11. rows[1] = r.rows[place]
  BY <1>9, <1>10
<1>12. rows # <<>>
  BY <1>9, <1>10
<1> QED
  BY <1>8, <1>11, <1>12 DEF IsDisplay, rows

LEMMA NewestSaved ==
    ASSUME NEW c, NEW chat, chat.rec \in Record, Follows(chat.rec), Newest(c, chat),
           NEW new, new.rec \in Saved(chat.rec), new.phase = chat.phase, new.calls = chat.calls
    PROVE  Newest(c, new)
<1> DEFINE r == chat.rec
           s == new.rec
           old == r.rows
           rows == s.rows
           n == Len(old)
           size == Len(rows)
<1>1. s = r \/ (s = Trimmed(r) /\ Len(r.turns) > KeepTurns)
  BY SavedFacts
<1>2. CASE s = r
  BY <1>2 DEF Newest
<1>3. CASE s = Trimmed(r) /\ Len(r.turns) > KeepTurns
  <2>1. PICK cut \in Nat : rows = SubSeq(old, cut + 1, n)
    BY <1>3, TrimFacts
  <2>2. s.projection = r.projection
    BY <1>3 DEF Trimmed, Record
  <2>3. s.skewed = Skewed(r)
    BY <1>3, TrimFacts
  <2>4. ~s.skewed => rows # <<>> /\ rows[1].kind # "results"
    BY <1>3, <2>3, TrimPlace
  <2>5. r.skewed => s.skewed
    BY <2>3 DEF Skewed
  <2>6. old \in Seq(Row) /\ s.skewed \in BOOLEAN
    BY <1>3, TrimFacts, RowSets DEF Record
  <2>7. \/ old = <<>> /\ r.skewed
        \/ /\ old # <<>> /\ old[n] \notin ToSet(r.projection.prefix)
           /\ \/ chat.phase = "tools" /\ old[n] = [by |-> c, kind |-> "call", round |-> chat.calls]
              \/ chat.phase # "tools" /\ Matched(old, n)
              \/ chat.phase # "tools" /\ n = 1 /\ r.skewed /\ old[n].kind = "results"
    BY DEF Newest
  <2> SUFFICES \/ rows = <<>> /\ s.skewed
               \/ /\ rows # <<>> /\ rows[size] \notin ToSet(s.projection.prefix)
                  /\ \/ chat.phase = "tools" /\ rows[size] = [by |-> c, kind |-> "call", round |-> chat.calls]
                     \/ chat.phase # "tools" /\ Matched(rows, size)
                     \/ chat.phase # "tools" /\ size = 1 /\ s.skewed /\ rows[size].kind = "results"
    BY DEF Newest
  <2> HIDE DEF r, s
  <2> DEFINE m == cut + 1
  <2>8. m \in Nat \ {0} /\ n \in Nat /\ n <= Len(old) /\ DOMAIN old = 1..n
    BY <2>6
  <2>9. rows = SubSeq(old, m, n)
    BY <2>1
  <2> HIDE DEF m, n, old, rows
  <2>10. /\ rows \in Seq(Row) /\ size = IF m <= n THEN n - m + 1 ELSE 0
         /\ \A i \in DOMAIN rows : i + m - 1 \in DOMAIN old /\ rows[i] = old[i + m - 1]
    BY <2>6, <2>8, <2>9, Piece
  <2>11. CASE rows = <<>>
    BY <2>4, <2>6, <2>11
  <2>12. CASE rows # <<>>
    <3>1. size \in Nat \ {0} /\ size = n - m + 1 /\ DOMAIN rows = 1..size
      BY <2>8, <2>10, <2>12
    <3> HIDE DEF size
    <3>2. size \in DOMAIN rows /\ size + m - 1 = n /\ n \in DOMAIN old
      BY <2>8, <3>1
    <3>3. rows[size] = old[n] /\ old # <<>>
      BY <2>8, <2>10, <3>2
    <3>4. ASSUME chat.phase # "tools", Matched(old, n)
          PROVE  Matched(rows, size) \/ (size = 1 /\ s.skewed /\ rows[size].kind = "results")
      <4>1. /\ old[n].kind = "call" => n < Len(old) /\ Answers(old[n + 1], old[n])
            /\ old[n].kind = "results" => n > 1 /\ Answers(old[n], old[n - 1])
        BY <2>6, <3>2, <3>4, MatchedFacts
      <4>2. old[n].kind # "call"
        BY <2>8, <4>1 DEF n
      <4>3. CASE size > 1
        <5> DEFINE j == size - 1
        <5>1. j \in DOMAIN rows /\ j + m - 1 = n - 1
          BY <2>8, <3>1, <4>3
        <5>2. rows[j] = old[n - 1]
          BY <2>10, <5>1
        <5>3. Matched(rows, size)
          BY <2>10, <3>2, <3>3, <4>1, <4>2, <4>3, <5>2, MatchedFacts
        <5> QED
          BY <5>3
      <4>4. CASE size = 1 /\ rows[size].kind # "results"
        <5>1. Matched(rows, size)
          BY <2>10, <3>2, <3>3, <4>2, <4>4, MatchedFacts
        <5> QED
          BY <5>1
      <4>5. CASE size = 1 /\ rows[size].kind = "results"
        BY <2>4, <2>6, <4>5
      <4> QED
        BY <3>1, <4>3, <4>4, <4>5
    <3>5. ASSUME n = 1, r.skewed, old[n].kind = "results"
          PROVE  size = 1 /\ s.skewed /\ rows[size].kind = "results"
      <4>1. size = 1
        BY <2>8, <3>1, <3>5
      <4> QED
        BY <2>5, <3>3, <3>5, <4>1
    <3> QED
      BY <2>2, <2>7, <2>12, <3>3, <3>4, <3>5
  <2> QED
    BY <2>11, <2>12
<1> QED
  BY <1>1, <1>2, <1>3

LEMMA NewestPush ==
    ASSUME NEW c, NEW r \in Record, NEW row \in Row, row \notin Everything(r),
           NEW new, new.rec = Push(r, row),
           \/ new.phase # "tools" /\ row.kind \notin {"call", "results"}
           \/ new.phase = "tools" /\ row = [by |-> c, kind |-> "call", round |-> new.calls]
           \/ /\ new.phase # "tools" /\ row.kind = "results"
              /\ (r.rows = <<>> /\ r.skewed) \/ (r.rows # <<>> /\ r.rows[Len(r.rows)] = [row EXCEPT !.kind = "call"])
    PROVE  Newest(c, new)
<1> DEFINE old == r.rows
           n == Len(old)
           rows == Append(old, row)
<1>1. new.rec.rows = rows /\ new.rec.skewed = r.skewed
  BY PushFacts
<1>2. new.rec.projection = r.projection
  BY DEF Push, Record
<1>3. row \notin ToSet(r.projection.prefix)
  BY DEF Everything
<1>4. old \in Seq(Row)
  BY RowSets
<1> HIDE DEF old
<1>5. /\ n \in Nat /\ rows \in Seq(Row) /\ Len(rows) = n + 1 /\ rows[n + 1] = row /\ rows # <<>>
      /\ \A i \in 1..n : rows[i] = old[i]
      /\ n + 1 \in DOMAIN rows
  BY <1>4
<1> HIDE DEF rows, n
<1> SUFFICES \/ new.phase = "tools" /\ row = [by |-> c, kind |-> "call", round |-> new.calls]
             \/ new.phase # "tools" /\ Matched(rows, n + 1)
             \/ new.phase # "tools" /\ n + 1 = 1 /\ r.skewed /\ row.kind = "results"
  BY <1>1, <1>2, <1>3, <1>5 DEF Newest
<1>6. CASE new.phase # "tools" /\ row.kind \notin {"call", "results"}
  BY <1>5, <1>6 DEF Matched
<1>7. CASE new.phase = "tools" /\ row = [by |-> c, kind |-> "call", round |-> new.calls]
  BY <1>7
<1>8. CASE new.phase # "tools" /\ row.kind = "results" /\ old = <<>> /\ r.skewed
  <2>1. n + 1 = 1
    BY <1>8 DEF n
  <2> QED
    BY <1>8, <2>1
<1>9. CASE new.phase # "tools" /\ row.kind = "results" /\ old # <<>> /\ old[n] = [row EXCEPT !.kind = "call"]
  <2>1. n \in 1..n /\ n + 1 > 1 /\ n + 1 - 1 = n
    BY <1>4, <1>9 DEF n
  <2>2. rows[n] = [row EXCEPT !.kind = "call"]
    BY <1>5, <1>9, <2>1
  <2>3. Matched(rows, n + 1)
    BY <1>5, <1>9, <2>1, <2>2 DEF Matched
  <2> QED
    BY <1>9, <2>3
<1> QED
  BY <1>6, <1>7, <1>8, <1>9 DEF old, n

-----------------------------------------------------------------------------
(***************************************************************************)
(* The second invariant, which rests on the first one.                     *)
(***************************************************************************)
Honest ==
    /\ \A rec \in Copies : Plain(rec, Unentered)
    /\ \A c \in Chats : Entered(c) => Spoken(c, chats[c]) /\ Newest(c, chats[c])

LEMMA HonestFacts ==
    ASSUME Safe, Honest
    PROVE  /\ Plain(store, Unentered) /\ Plain(tuner.rec, Unentered)
           /\ \A c \in Chats : Plain(chats[c].rec, Unentered)
           /\ \A c \in Chats : Entered(c) => Spoken(c, chats[c]) /\ Newest(c, chats[c])
           /\ chats \in [Chats -> Chat]
<1>1. /\ store \in Copies /\ tuner.rec \in Copies
      /\ \A c \in Chats : chats[c].rec \in Copies
  BY DEF Copies
<1> QED
  BY <1>1, SafeFacts DEF Honest

\* A step of one chat: it goes on as "new".
LEMMA HonestStep ==
    ASSUME Safe, Honest, NEW c \in Chats, NEW new, chats' \in [Chats -> Chat], chats'[c] = new,
           \A d \in Chats \ {c} :
              /\ chats'[d].phase = chats[d].phase /\ chats'[d].rec = chats[d].rec
              /\ chats'[d].calls = chats[d].calls /\ chats'[d].steered = chats[d].steered
              /\ chats'[d].drafted = chats[d].drafted,
           new.phase \in {"none", "opening"} => c \in Unentered,
           Plain(store', Unentered'), Plain(new.rec, Unentered'),
           new.phase \in AtWork => Spoken(c, new) /\ Newest(c, new),
           tuner' = tuner
    PROVE  Honest'
<1>1. /\ Plain(tuner.rec, Unentered) /\ \A d \in Chats : Plain(chats[d].rec, Unentered)
      /\ \A d \in Chats : Entered(d) => Spoken(d, chats[d]) /\ Newest(d, chats[d])
  BY HonestFacts
<1>2. Unentered' \subseteq Unentered
  BY DEF Unentered
<1>3. Plain(tuner.rec, Unentered') /\ \A d \in Chats : Plain(chats[d].rec, Unentered')
  BY <1>1, <1>2, PlainForFewer
<1>4. \A rec \in Copies' : Plain(rec, Unentered')
  BY <1>3 DEF Copies
<1>5. ASSUME NEW d \in Chats, Entered(d)'
      PROVE  Spoken(d, chats'[d]) /\ Newest(d, chats'[d])
  <2>1. CASE d = c
    BY <1>5, <2>1 DEF Entered, AtWork
  <2>2. CASE d # c
    <3>1. Entered(d)
      BY <1>5, <2>2 DEF Entered
    <3>2. Spoken(d, chats[d]) /\ Newest(d, chats[d])
      BY <1>1, <3>1
    <3> QED
      BY <2>2, <3>2 DEF Spoken, Said, Newest
  <2> QED
    BY <2>1, <2>2
<1> QED
  BY <1>4, <1>5 DEF Honest

\* A chat at work saves its copy.
LEMMA HonestSave ==
    ASSUME Safe, Honest, NEW c \in Chats, Entered(c),
           NEW next \in Chat, next.phase \in AtWork, Fit(next.rec, Unentered),
           Plain(next.rec, Unentered), Spoken(c, next), Newest(c, next),
           Save(c, next), tuner' = tuner
    PROVE  Honest'
<1>1. PICK rec \in Saved(next.rec) :
         /\ store' = rec
         /\ chats' = [chats EXCEPT ![c] = [next EXCEPT !.rec = rec, !.trimmed = @ \/ rec # next.rec]]
  BY DEF Save
<1> DEFINE new == [next EXCEPT !.rec = rec, !.trimmed = @ \/ rec # next.rec]
<1>2. next.rec \in Record /\ Follows(next.rec) /\ next.trimmed \in BOOLEAN
  BY DEF Chat, Fit
<1>3. rec \in Record /\ Plain(rec, Unentered) /\ Everything(rec) \subseteq Everything(next.rec)
  BY <1>1, <1>2, PlainSaved, SavedFacts
<1>4. /\ new \in Chat /\ new.rec = rec /\ new.phase = next.phase
      /\ new.calls = next.calls /\ new.steered = next.steered /\ new.drafted = next.drafted
  BY <1>2, <1>3 DEF Chat
<1>5. chats' = [chats EXCEPT ![c] = new]
  BY <1>1
<1> HIDE DEF new
<1>6. Spoken(c, new)
  BY <1>3, <1>4 DEF Spoken, Said
<1>7. Newest(c, new)
  BY <1>1, <1>2, <1>4, NewestSaved
<1>8. chats \in [Chats -> Chat]
  BY SafeFacts
<1>9. chats' \in [Chats -> Chat] /\ chats'[c] = new /\ \A d \in Chats \ {c} : chats'[d] = chats[d]
  BY <1>4, <1>5, <1>8
<1>10. new.phase \notin {"none", "opening"}
  BY <1>4 DEF AtWork
<1>11. Unentered' \subseteq Unentered
  BY <1>9, <1>10 DEF Unentered
<1>12. Plain(store', Unentered') /\ Plain(new.rec, Unentered')
  BY <1>1, <1>3, <1>4, <1>11, PlainForFewer
<1> QED
  BY <1>6, <1>7, <1>9, <1>10, <1>12, HonestStep

\* A chat goes on with the copy it has.
LEMMA HonestQuiet ==
    ASSUME Safe, Honest, NEW c \in Chats, NEW new \in Chat, chats' = [chats EXCEPT ![c] = new],
           new.phase \in AtWork <=> Entered(c), new.phase \in {"none", "opening"} => c \in Unentered,
           new.phase = "tools" <=> chats[c].phase = "tools",
           new.rec = chats[c].rec, new.calls = chats[c].calls, new.steered = chats[c].steered,
           new.drafted = chats[c].drafted, UNCHANGED <<store, tuner>>
    PROVE  Honest'
<1>1. /\ chats \in [Chats -> Chat] /\ Plain(store, Unentered) /\ Plain(chats[c].rec, Unentered)
      /\ Entered(c) => Spoken(c, chats[c]) /\ Newest(c, chats[c])
  BY HonestFacts
<1>2. chats' \in [Chats -> Chat] /\ chats'[c] = new /\ \A d \in Chats \ {c} : chats'[d] = chats[d]
  BY <1>1
<1>3. Unentered' \subseteq Unentered
  BY <1>2 DEF Unentered
<1>4. Plain(store', Unentered') /\ Plain(new.rec, Unentered')
  BY <1>1, <1>3, PlainForFewer
<1>5. new.phase \in AtWork => Spoken(c, new) /\ Newest(c, new)
  BY <1>1 DEF Spoken, Said, Newest
<1> QED
  BY <1>2, <1>4, <1>5, HonestStep

\* A chat ends.
LEMMA HonestLeave ==
    ASSUME Safe, Honest, NEW c \in Chats, chats' = [chats EXCEPT ![c] = DoneChat],
           Plain(store', Unentered), tuner' = tuner
    PROVE  Honest'
<1>1. chats \in [Chats -> Chat]
  BY SafeFacts
<1> DEFINE new == DoneChat
<1>2. new \in Chat /\ new.phase = "done" /\ new.rec = NewRecord
  BY DoneFacts
<1>3. chats' = [chats EXCEPT ![c] = new]
  OBVIOUS
<1> HIDE DEF new
<1>4. chats' \in [Chats -> Chat] /\ chats'[c] = new /\ \A d \in Chats \ {c} : chats'[d] = chats[d]
  BY <1>1, <1>2, <1>3
<1>5. new.phase \notin {"none", "opening"} /\ new.phase \notin AtWork
  BY <1>2 DEF AtWork
<1>6. Unentered' \subseteq Unentered
  BY <1>4, <1>5 DEF Unentered
<1>7. Plain(store', Unentered') /\ Plain(new.rec, Unentered')
  BY <1>2, <1>6, PlainForFewer, PlainStart
<1> QED
  BY <1>4, <1>5, <1>7, HonestStep
-----------------------------------------------------------------------------
\* The steps.

\* A chat at work pushes a row that it has not pushed before, and saves.
LEMMA HonestPush ==
    ASSUME Safe, Honest, NEW c \in Chats, Entered(c), NEW row \in Row, row.by = c, row.kind # "user",
           NEW next \in Chat, next.phase \in AtWork, next.rec = Push(chats[c].rec, row),
           ~Said(c, chats[c], row), Said(c, next, row),
           \A x \in Row : Said(c, chats[c], x) => Said(c, next, x),
           \/ next.phase # "tools" /\ row.kind \notin {"call", "results"}
           \/ next.phase = "tools" /\ row = [by |-> c, kind |-> "call", round |-> next.calls]
           \/ /\ next.phase # "tools" /\ chats[c].phase = "tools"
              /\ row = [by |-> c, kind |-> "results", round |-> chats[c].calls],
           Save(c, next), tuner' = tuner
    PROVE  Honest'
<1> DEFINE r == chats[c].rec
<1>1. /\ r \in Record /\ Plain(r, Unentered) /\ Spoken(c, chats[c]) /\ Newest(c, chats[c])
      /\ c \notin Unentered
  BY SafeFacts, HonestFacts
<1>2. row \notin Everything(r)
  BY <1>1 DEF Spoken
<1>3. next.rec = Push(r, row) /\ Push(r, row) \in Record /\ Fit(next.rec, Unentered)
  BY OwnPush
<1>4. Plain(next.rec, Unentered) /\ Everything(next.rec) \subseteq Everything(r) \cup {row}
  BY <1>1, <1>2, <1>3, PlainPush
<1>5. Spoken(c, next)
  <2>1. Everything(r) \subseteq Row
    BY <1>1, RowSets
  <2> QED
    BY <1>1, <1>4, <2>1 DEF Spoken
<1>6. Newest(c, next)
  <2>1. CASE next.phase # "tools" /\ row.kind \notin {"call", "results"}
    <3> HIDE DEF r
    <3>1. r \in Record /\ row \in Row /\ row \notin Everything(r) /\ next.rec = Push(r, row)
      BY <1>1, <1>2, <1>3
    <3> QED
      BY ONLY <2>1, <3>1, NewestPush, Zenon
  <2>2. CASE next.phase = "tools" /\ row = [by |-> c, kind |-> "call", round |-> next.calls]
    <3> HIDE DEF r
    <3> QED
      BY <1>1, <1>2, <1>3, <2>2, NewestPush
  <2>3. CASE /\ next.phase # "tools" /\ chats[c].phase = "tools"
             /\ row = [by |-> c, kind |-> "results", round |-> chats[c].calls]
    <3>1. \/ r.rows = <<>> /\ r.skewed
          \/ r.rows # <<>> /\ r.rows[Len(r.rows)] = [by |-> c, kind |-> "call", round |-> chats[c].calls]
      BY <1>1, <2>3 DEF Newest
    <3>2. [row EXCEPT !.kind = "call"] = [by |-> c, kind |-> "call", round |-> chats[c].calls]
          /\ row.kind = "results"
      BY <2>3
    <3>3. \/ r.rows = <<>> /\ r.skewed
          \/ r.rows # <<>> /\ r.rows[Len(r.rows)] = [row EXCEPT !.kind = "call"]
      BY <3>1, <3>2
    <3> HIDE DEF r
    <3> QED
      BY <1>1, <1>2, <1>3, <2>3, <3>2, <3>3, NewestPush
  <2> QED
    BY <2>1, <2>2, <2>3
<1> QED
  BY <1>3, <1>4, <1>5, <1>6, HonestSave

LEMMA OpenHonest ==
    ASSUME Safe, Honest, NEW c \in Chats, Open(c)
    PROVE  Honest'
<1> DEFINE new == [NewChat EXCEPT !.phase = "opening", !.rec = store]
<1>1. chats[c].phase = "none" /\ chats' = [chats EXCEPT ![c] = new] /\ UNCHANGED <<store, tuner>>
  BY DEF Open
<1>2. chats \in [Chats -> Chat] /\ store \in Record /\ Plain(store, Unentered)
  BY SafeFacts, HonestFacts
<1>3. new \in Chat /\ new.phase = "opening" /\ new.rec = store
  BY <1>2, DoneFacts DEF Chat
<1> HIDE DEF new
<1>4. chats' \in [Chats -> Chat] /\ chats'[c] = new /\ \A d \in Chats \ {c} : chats'[d] = chats[d]
  BY <1>1, <1>2, <1>3
<1>5. c \in Unentered
  BY <1>1 DEF Unentered
<1>6. Unentered' \subseteq Unentered
  BY <1>4, <1>5 DEF Unentered
<1>7. Plain(store', Unentered') /\ Plain(new.rec, Unentered')
  BY <1>1, <1>2, <1>3, <1>6, PlainForFewer
<1>8. new.phase \notin AtWork
  BY <1>3 DEF AtWork
<1> QED
  BY <1>1, <1>4, <1>5, <1>7, <1>8, HonestStep

\* A chat that ends without a word, or is not allowed to begin.
LEMMA QuitHonest ==
    ASSUME Safe, Honest, NEW c \in Chats, Refuse(c) \/ Throw(c)
    PROVE  Honest'
<1>1. chats' = [chats EXCEPT ![c] = DoneChat] /\ UNCHANGED <<store, tuner>>
  BY DEF Refuse, Throw
<1>2. Plain(store', Unentered)
  BY <1>1, HonestFacts
<1> QED
  BY <1>1, <1>2, HonestLeave

LEMMA EnterHonest ==
    ASSUME Safe, Honest, NEW c \in Chats, Enter(c)
    PROVE  Honest'
<1> DEFINE old == chats[c].rec
           pushed == Push(old, Question(c))
           base == [chats[c] EXCEPT !.phase = "round", !.rec = pushed]
           new(rec) == [chats[c] EXCEPT !.phase = "round", !.rec = rec,
                          !.mBase = MessagesBefore(old), !.tBase = Len(old.turns),
                          !.trimmed = rec # pushed]
           other(d) == [chats[d] EXCEPT !.aborted = @ \/ known = d]
<1>1. PICK rec \in Saved(pushed) :
         /\ store' = rec
         /\ chats' = [d \in Chats |-> IF d = c THEN new(rec) ELSE other(d)]
  BY DEF Enter, Question
<1>2. chats[c].phase = "opening" /\ tuner' = tuner
  BY DEF Enter
<1>3. /\ chats \in [Chats -> Chat] /\ old \in Record /\ Fit(old, Unentered) /\ Plain(old, Unentered)
      /\ \A d \in Chats : chats[d] \in Chat
  BY SafeFacts, HonestFacts
<1>4. c \in Unentered
  BY <1>2 DEF Unentered
<1>5. Question(c) \in Row /\ Question(c).by = c /\ Question(c).kind = "user"
  BY DEF Question, Row, Kinds
<1>6. /\ base.rec = pushed /\ base.phase = "round"
      /\ new(rec).rec = rec /\ new(rec).phase = "round" /\ new(rec).calls = base.calls
  BY <1>3 DEF Chat
<1>7. ASSUME NEW d \in Chats
      PROVE  /\ other(d).phase = chats[d].phase /\ other(d).rec = chats[d].rec
             /\ other(d).calls = chats[d].calls /\ other(d).steered = chats[d].steered
             /\ other(d).drafted = chats[d].drafted
  <2>1. chats[d] \in Chat
    BY <1>3
  <2> QED
    BY <2>1 DEF Chat
<1>8. chats'[c] = new(rec) /\ \A d \in Chats \ {c} : chats'[d] = other(d)
  BY <1>1
<1>9. chats' \in [Chats -> Chat]
  BY EnterSafe, SafeFacts DEF Safe, TypeOK
<1> HIDE DEF old, new, other
<1>10. Plain(old, Unentered \ {c}) /\ Fit(old, Unentered \ {c})
  BY <1>3, PlainForFewer, FitForFewer
<1>11. \A row \in Everything(old) : row.by # c
  BY <1>3, <1>4 DEF Plain
<1>12. Question(c) \notin Everything(old)
  BY <1>5, <1>11
<1>13. /\ Plain(pushed, Unentered \ {c}) /\ Everything(pushed) \subseteq Everything(old) \cup {Question(c)}
       /\ pushed \in Record /\ Follows(pushed)
  BY <1>3, <1>5, <1>10, <1>12, PlainPush, FitPush DEF Fit
<1>14. Newest(c, base)
  BY <1>3, <1>5, <1>6, <1>12, NewestPush
<1> HIDE DEF pushed, base
<1>15. Plain(rec, Unentered \ {c}) /\ Everything(rec) \subseteq Everything(pushed)
  BY <1>1, <1>13, PlainSaved
<1> DEFINE next == new(rec)
<1>16. next.rec = rec /\ next.phase = "round" /\ next.calls = base.calls
  BY <1>6
<1>17. chats'[c] = next
  BY <1>8
<1> HIDE DEF next
<1>18. Newest(c, next)
  BY <1>1, <1>6, <1>13, <1>14, <1>16, NewestSaved
<1>19. Spoken(c, next)
  <2>1. \A row \in Everything(rec) : row.by # c \/ row.kind = "user"
    BY <1>5, <1>11, <1>13, <1>15
  <2> QED
    BY <1>16, <2>1 DEF Spoken, Said
<1>20. \A d \in Chats \ {c} :
          /\ chats'[d].phase = chats[d].phase /\ chats'[d].rec = chats[d].rec
          /\ chats'[d].calls = chats[d].calls /\ chats'[d].steered = chats[d].steered
          /\ chats'[d].drafted = chats[d].drafted
  BY <1>7, <1>8
<1>21. Unentered' \subseteq Unentered \ {c}
  BY <1>16, <1>17, <1>20 DEF Unentered
<1>22. Plain(store', Unentered') /\ Plain(next.rec, Unentered')
  BY <1>1, <1>15, <1>16, <1>21, PlainForFewer
<1>23. next.phase \notin {"none", "opening"}
  BY <1>16
<1> QED
  BY <1>2, <1>9, <1>17, <1>18, <1>19, <1>20, <1>22, <1>23, HonestStep

LEMMA BeginRoundHonest ==
    ASSUME Safe, Honest, NEW c \in Chats, BeginRound(c)
    PROVE  Honest'
<1> DEFINE quiet == [chats[c] EXCEPT !.phase = "budget", !.tight = FALSE]
           row == [by |-> c, kind |-> "steer", round |-> chats[c].steered + 1]
           next == [quiet EXCEPT !.steered = @ + 1, !.rec = Push(@, row)]
<1>1. chats[c].phase = "round" /\ tuner' = tuner /\ Entered(c)
  BY DEF BeginRound, Entered
<1>2. chats[c] \in Chat /\ chats[c].steered \in Nat
  BY SafeFacts DEF Chat
<1>3. /\ quiet \in Chat /\ quiet.phase = "budget" /\ quiet.rec = chats[c].rec
      /\ quiet.calls = chats[c].calls /\ quiet.steered = chats[c].steered
      /\ quiet.drafted = chats[c].drafted
  BY <1>2 DEF Chat
<1>4. CASE chats' = [chats EXCEPT ![c] = quiet] /\ store' = store
  <2>1. /\ quiet.phase \in AtWork /\ quiet.phase \notin {"none", "opening"}
        /\ quiet.phase # "tools" /\ chats[c].phase # "tools"
    BY <1>1, <1>3 DEF AtWork
  <2> HIDE DEF quiet
  <2> QED
    BY <1>1, <1>3, <1>4, <2>1, HonestQuiet
<1>5. CASE Save(c, next)
  <2>1. row \in Row /\ row.by = c /\ row.kind = "steer" /\ row.round = chats[c].steered + 1
    BY <1>2 DEF Row, Kinds
  <2> HIDE DEF row, quiet
  <2> DEFINE pushed == Push(quiet.rec, row)
             count == quiet.steered + 1
  <2>2. pushed = Push(chats[c].rec, row) /\ pushed \in Record /\ count \in Nat /\ count = chats[c].steered + 1
    BY <1>1, <1>2, <1>3, <2>1, OwnPush
  <2> HIDE DEF pushed, count
  <2>3. /\ next \in Chat /\ next.phase = "budget" /\ next.rec = pushed
        /\ next.calls = chats[c].calls /\ next.steered = count /\ next.drafted = chats[c].drafted
    <3>1. next = [quiet EXCEPT !.steered = count, !.rec = pushed]
      BY DEF pushed, count
    <3> HIDE DEF next
    <3> QED
      BY <1>3, <2>2, <3>1 DEF Chat
  <2> HIDE DEF next
  <2>4. next.phase \in AtWork /\ next.phase # "tools"
    BY <2>3 DEF AtWork
  <2>5. ~Said(c, chats[c], row) /\ Said(c, next, row)
    BY <1>2, <2>1, <2>2, <2>3 DEF Said
  <2>6. ASSUME NEW x \in Row, Said(c, chats[c], x)
        PROVE  Said(c, next, x)
    <3>1. x.round \in Nat
      BY DEF Row
    <3>2. x.round <= chats[c].steered => x.round <= count
      BY <1>2, <2>2, <3>1
    <3> QED
      BY <2>3, <2>4, <2>6, <3>2 DEF Said
  <2> QED
    BY <1>1, <1>5, <2>1, <2>2, <2>3, <2>4, <2>5, <2>6, HonestPush
<1> QED
  BY <1>4, <1>5 DEF BeginRound

LEMMA BudgetHonest ==
    ASSUME Safe, Honest, NEW c \in Chats, Budget(c)
    PROVE  Honest'
<1> DEFINE quiet == [chats[c] EXCEPT !.phase = "asking"]
           next(rec) == [chats[c] EXCEPT !.phase = "asking", !.rec = rec]
<1>1. chats[c].phase = "budget" /\ tuner' = tuner /\ Entered(c)
  BY DEF Budget, Entered
<1>2. /\ chats[c] \in Chat /\ chats \in [Chats -> Chat] /\ chats[c].rec \in Record
      /\ Plain(chats[c].rec, Unentered) /\ Spoken(c, chats[c]) /\ Newest(c, chats[c])
  BY <1>1, SafeFacts, HonestFacts
<1>3. CASE chats' = [chats EXCEPT ![c].phase = "asking"] /\ store' = store
  <2>1. /\ quiet \in Chat /\ quiet.phase = "asking" /\ quiet.rec = chats[c].rec
        /\ quiet.calls = chats[c].calls /\ quiet.steered = chats[c].steered
        /\ quiet.drafted = chats[c].drafted
    BY <1>2 DEF Chat
  <2>2. /\ quiet.phase \in AtWork /\ quiet.phase \notin {"none", "opening"}
        /\ quiet.phase # "tools" /\ chats[c].phase # "tools"
    BY <1>1, <2>1 DEF AtWork
  <2>3. chats' = [chats EXCEPT ![c] = quiet]
    BY <1>3
  <2> HIDE DEF quiet
  <2> QED
    BY <1>1, <1>3, <2>1, <2>2, <2>3, HonestQuiet
<1>4. CASE \E rec \in Compacted(c) : Save(c, next(rec))
  <2>1. PICK rec \in Compacted(c) : Save(c, next(rec))
    BY <1>4
  <2> DEFINE new == next(rec)
             r == chats[c].rec
             keep == Keep(c)
  <2>2. /\ rec \in Record /\ Fit(rec, Unentered) /\ rec.rows = r.rows /\ rec.skewed = r.skewed
    BY CompactedFacts
  <2>3. /\ new \in Chat /\ new.phase = "asking" /\ new.rec = rec
        /\ new.calls = chats[c].calls /\ new.steered = chats[c].steered
        /\ new.drafted = chats[c].drafted
    BY <1>2, <2>2 DEF Chat
  <2>4. keep \in Nat \ {0}
    BY Constants DEF Keep
  <2>5. rec \in Micro(r, keep) \cup Structured(r, keep) \cup WithoutModel(r)
    BY DEF Compacted
  <2>6. Save(c, new)
    BY <2>1
  <2> HIDE DEF new, keep
  <2>7. /\ Plain(rec, Unentered) /\ Everything(rec) \subseteq Everything(r)
        /\ r.rows # <<>> => Last(r.rows) \notin ToSet(rec.projection.prefix)
    BY <1>2, <2>4, <2>5, PlainCompact
  <2>8. new.phase \in AtWork /\ new.phase # "tools"
    BY <2>3 DEF AtWork
  <2>9. Spoken(c, new)
    BY <1>1, <1>2, <2>3, <2>7 DEF Spoken, Said
  <2>10. Newest(c, new)
    BY <1>1, <1>2, <2>2, <2>3, <2>7 DEF Newest, Last
  <2> QED
    BY <1>1, <2>2, <2>3, <2>6, <2>7, <2>8, <2>9, <2>10, HonestSave
<1> QED
  BY <1>3, <1>4 DEF Budget

LEMMA OverflowHonest ==
    ASSUME Safe, Honest, NEW c \in Chats, Overflow(c)
    PROVE  Honest'
<1> DEFINE new == [chats[c] EXCEPT !.phase = "budget", !.tight = TRUE]
<1>1. chats[c] \in Chat /\ chats \in [Chats -> Chat]
  BY SafeFacts
<1>2. chats[c].phase = "asking" /\ UNCHANGED <<store, tuner>> /\ Entered(c)
  BY DEF Overflow, Asking, Entered
<1>3. chats' = [chats EXCEPT ![c] = new]
  BY <1>1 DEF Overflow
<1>4. /\ new \in Chat /\ new.phase = "budget" /\ new.rec = chats[c].rec
      /\ new.calls = chats[c].calls /\ new.steered = chats[c].steered
      /\ new.drafted = chats[c].drafted
  BY <1>1 DEF Chat
<1>5. /\ new.phase \in AtWork /\ new.phase \notin {"none", "opening"}
      /\ new.phase # "tools" /\ chats[c].phase # "tools"
  BY <1>2, <1>4 DEF AtWork
<1> HIDE DEF new
<1> QED
  BY <1>2, <1>3, <1>4, <1>5, HonestQuiet

LEMMA StopHonest ==
    ASSUME Safe, Honest, NEW c \in Chats, Stop(c)
    PROVE  Honest'
<1> DEFINE new == [chats[c] EXCEPT !.aborted = TRUE]
<1>1. chats[c] \in Chat /\ chats \in [Chats -> Chat]
  BY SafeFacts
<1>2. UNCHANGED <<store, tuner>>
  BY DEF Stop
<1>3. chats' = [chats EXCEPT ![c] = new]
  BY <1>1 DEF Stop
<1>4. /\ new \in Chat /\ new.phase = chats[c].phase /\ new.rec = chats[c].rec
      /\ new.calls = chats[c].calls /\ new.steered = chats[c].steered
      /\ new.drafted = chats[c].drafted
  BY <1>1 DEF Chat
<1>5. (new.phase \in AtWork <=> Entered(c)) /\ (new.phase \in {"none", "opening"} => c \in Unentered)
  BY <1>4 DEF AtWork, Entered, Unentered
<1> HIDE DEF new
<1> QED
  BY <1>2, <1>3, <1>4, <1>5, HonestQuiet

LEMMA CallToolsHonest ==
    ASSUME Safe, Honest, NEW c \in Chats, CallTools(c)
    PROVE  Honest'
<1> DEFINE count == chats[c].calls + 1
           row == [by |-> c, kind |-> "call", round |-> count]
           pushed == Push(chats[c].rec, row)
           next == [chats[c] EXCEPT !.phase = "tools", !.calls = @ + 1, !.rec = Push(@, row)]
<1>1. chats[c] \in Chat /\ chats[c].calls \in Nat
  BY SafeFacts DEF Chat
<1>2. Save(c, next) /\ tuner' = tuner /\ Entered(c)
  BY DEF CallTools, Asking, Entered
<1>3. row \in Row /\ row.by = c /\ row.kind = "call" /\ row.round = chats[c].calls + 1
      /\ count \in Nat /\ count = chats[c].calls + 1
  BY <1>1 DEF Row, Kinds
<1>4. row = [by |-> c, kind |-> "call", round |-> count]
  OBVIOUS
<1> HIDE DEF row
<1>5. pushed \in Record
  BY <1>2, <1>3, OwnPush
<1>6. next = [chats[c] EXCEPT !.phase = "tools", !.calls = count, !.rec = pushed]
  OBVIOUS
<1> HIDE DEF next, pushed, count
<1>7. /\ next \in Chat /\ next.phase = "tools" /\ next.rec = pushed /\ next.calls = count
      /\ next.steered = chats[c].steered /\ next.drafted = chats[c].drafted
  BY <1>1, <1>3, <1>5, <1>6 DEF Chat
<1>8. next.phase \in AtWork
  BY <1>7 DEF AtWork
<1>9. ~Said(c, chats[c], row) /\ Said(c, next, row)
  BY <1>1, <1>3, <1>7 DEF Said
<1>10. ASSUME NEW x \in Row, Said(c, chats[c], x)
       PROVE  Said(c, next, x)
  <2>1. x.round \in Nat
    BY DEF Row
  <2>2. x.round <= chats[c].calls => x.round <= count /\ x.round < count
    BY <1>1, <1>3, <2>1
  <2> QED
    BY <1>7, <1>10, <2>2 DEF Said
<1>11. next.rec = Push(chats[c].rec, row) /\ row = [by |-> c, kind |-> "call", round |-> next.calls]
  BY <1>4, <1>7 DEF pushed
<1> QED
  BY <1>2, <1>3, <1>7, <1>8, <1>9, <1>10, <1>11, HonestPush

LEMMA ResultsHonest ==
    ASSUME Safe, Honest, NEW c \in Chats, Results(c)
    PROVE  Honest'
<1> DEFINE row == [by |-> c, kind |-> "results", round |-> chats[c].calls]
           pushed == Push(chats[c].rec, row)
           next == [chats[c] EXCEPT !.phase = "round", !.rec = Push(@, row)]
<1>1. chats[c] \in Chat /\ chats[c].calls \in Nat
  BY SafeFacts DEF Chat
<1>2. Save(c, next) /\ tuner' = tuner /\ Entered(c) /\ chats[c].phase = "tools"
  BY DEF Results, Entered
<1>3. row \in Row /\ row.by = c /\ row.kind = "results" /\ row.round = chats[c].calls
  BY <1>1 DEF Row, Kinds
<1>4. row = [by |-> c, kind |-> "results", round |-> chats[c].calls]
  OBVIOUS
<1> HIDE DEF row
<1>5. pushed \in Record
  BY <1>2, <1>3, OwnPush
<1>6. next = [chats[c] EXCEPT !.phase = "round", !.rec = pushed]
  OBVIOUS
<1> HIDE DEF next, pushed
<1>7. /\ next \in Chat /\ next.phase = "round" /\ next.rec = pushed /\ next.calls = chats[c].calls
      /\ next.steered = chats[c].steered /\ next.drafted = chats[c].drafted
  BY <1>1, <1>5, <1>6 DEF Chat
<1>8. next.phase \in AtWork /\ next.phase # "tools"
  BY <1>7 DEF AtWork
<1>9. ~Said(c, chats[c], row) /\ Said(c, next, row)
  BY <1>1, <1>2, <1>3, <1>7 DEF Said
<1>10. \A x \in Row : Said(c, chats[c], x) => Said(c, next, x)
  BY <1>7, <1>8 DEF Said
<1>11. next.rec = Push(chats[c].rec, row)
  BY <1>7 DEF pushed
<1> QED
  BY <1>2, <1>3, <1>4, <1>7, <1>8, <1>9, <1>10, <1>11, HonestPush

LEMMA DraftHonest ==
    ASSUME Safe, Honest, NEW c \in Chats, Draft(c)
    PROVE  Honest'
<1> DEFINE row == [by |-> c, kind |-> "draft", round |-> chats[c].calls]
           pushed == Push(chats[c].rec, row)
           next == [chats[c] EXCEPT !.phase = "round", !.drafted = TRUE, !.rec = Push(@, row)]
<1>1. chats[c] \in Chat /\ chats[c].calls \in Nat
  BY SafeFacts DEF Chat
<1>2. /\ Save(c, next) /\ tuner' = tuner /\ Entered(c) /\ chats[c].phase = "asking"
      /\ ~chats[c].drafted
  BY DEF Draft, Asking, Entered
<1>3. row \in Row /\ row.by = c /\ row.kind = "draft"
  BY <1>1 DEF Row, Kinds
<1> HIDE DEF row
<1>5. pushed \in Record
  BY <1>2, <1>3, OwnPush
<1>6. next = [chats[c] EXCEPT !.phase = "round", !.drafted = TRUE, !.rec = pushed]
  OBVIOUS
<1> HIDE DEF next, pushed
<1>7. /\ next \in Chat /\ next.phase = "round" /\ next.rec = pushed /\ next.calls = chats[c].calls
      /\ next.steered = chats[c].steered /\ next.drafted
  BY <1>1, <1>5, <1>6 DEF Chat
<1>8. next.phase \in AtWork /\ next.phase # "tools"
  BY <1>7 DEF AtWork
<1>9. ~Said(c, chats[c], row) /\ Said(c, next, row)
  BY <1>2, <1>3, <1>7 DEF Said
<1>10. \A x \in Row : Said(c, chats[c], x) => Said(c, next, x)
  BY <1>7, <1>8 DEF Said
<1>11. next.rec = Push(chats[c].rec, row)
  BY <1>7 DEF pushed
<1> QED
  BY <1>2, <1>3, <1>7, <1>8, <1>9, <1>10, <1>11, HonestPush

LEMMA ReplyHonest ==
    ASSUME Safe, Honest, NEW c \in Chats, Reply(c) \/ Finalize(c)
    PROVE  Honest'
<1> DEFINE row == [by |-> c, kind |-> "reply", round |-> chats[c].calls]
           r == chats[c].rec
           m == chats[c].mBase
           t == chats[c].tBase
<1>1. Entered(c) /\ tuner' = tuner
  BY DEF Reply, Finalize, Asking, Entered
<1>2. /\ chats[c] \in Chat /\ r \in Record /\ Fit(r, Unentered) /\ Plain(r, Unentered)
      /\ Spoken(c, chats[c]) /\ c \notin Unentered /\ Based(c)
  BY <1>1, SafeFacts, HonestFacts
<1>3. chats[c].calls \in Nat /\ m \in Nat /\ t \in Nat /\ chats[c].trimmed \in BOOLEAN
  BY <1>2 DEF Chat
<1>4. row \in Row /\ row.by = c /\ row.kind = "reply" /\ row.kind # "user"
  BY <1>3 DEF Row, Kinds
<1>5. row \notin Everything(r)
  BY <1>2, <1>4 DEF Spoken, Said
<1>6. ASSUME NEW rec, SaveLast(c, rec), rec \in Record, Plain(rec, Unentered)
      PROVE  Honest'
  <2>1. chats' = [chats EXCEPT ![c] = DoneChat] /\ store' \in Saved(rec)
    BY <1>6 DEF SaveLast
  <2>2. Plain(store', Unentered)
    BY <1>6, <2>1, PlainSaved
  <2> QED
    BY <1>1, <2>1, <2>2, HonestLeave
<1>7. CASE Reply(c)
  <2>1. SaveLast(c, Push(r, row))
    BY <1>7 DEF Reply
  <2> HIDE DEF row, r
  <2>2. Push(r, row) \in Record /\ Plain(Push(r, row), Unentered)
    BY <1>2, <1>4, <1>5, PushFacts, PlainPush
  <2> QED
    BY <1>6, <2>1, <2>2
<1>8. CASE Finalize(c)
  <2>1. SaveLast(c, Cancelled(c))
    BY <1>8 DEF Finalize
  <2>2. Cancelled(c) = Cancel(r, m, t, chats[c].trimmed, row)
    BY DEF Cancelled, Cancel, TurnsKept
  <2>3. Base(c, r, m, t, chats[c].trimmed)
    BY <1>2 DEF Based
  <2> HIDE DEF row, r, m, t
  <2>4. Plain(Cancelled(c), Unentered)
    BY <1>2, <1>3, <1>4, <1>5, <2>2, PlainCancel
  <2>5. Fit(Cancelled(c), Unentered)
    BY <1>2, <1>3, <1>4, <2>2, <2>3, FitCancel
  <2>6. Cancelled(c) \in Record
    BY <2>5 DEF Fit
  <2> QED
    BY <1>6, <2>1, <2>4, <2>6
<1> QED
  BY <1>7, <1>8

\* The requests that change the document.
LEMMA HonestRecord ==
    ASSUME Safe, Honest, chats' = chats, Plain(store', Unentered), Plain(tuner'.rec, Unentered)
    PROVE  Honest'
<1>1. Unentered' = Unentered
  BY DEF Unentered
<1>2. \A c \in Chats : Plain(chats'[c].rec, Unentered)
  BY HonestFacts
<1>3. \A rec \in Copies' : Plain(rec, Unentered')
  BY <1>1, <1>2 DEF Copies
<1>4. \A c \in Chats : Entered(c)' => Spoken(c, chats'[c]) /\ Newest(c, chats'[c])
  BY HonestFacts DEF Entered
<1> QED
  BY <1>3, <1>4 DEF Honest

LEMMA RewriteHonest ==
    ASSUME Safe, Honest, NEW rec \in Record, Plain(rec, Unentered), Rewrite(rec)
    PROVE  Honest'
<1>1. store' \in Saved(rec) /\ chats' = chats /\ tuner' = tuner
  BY DEF Rewrite
<1>2. Plain(store', Unentered) /\ Plain(tuner'.rec, Unentered)
  BY <1>1, PlainSaved, HonestFacts
<1> QED
  BY <1>1, <1>2, HonestRecord

LEMMA CutsHonest ==
    ASSUME Safe, Honest, Truncate \/ RestoreCheckpoint
    PROVE  Honest'
<1>1. store \in Record /\ Fit(store, Unentered) /\ Plain(store, Unentered)
  BY SafeFacts, HonestFacts
<1>2. CASE Truncate
  <2>1. PICK k \in DOMAIN store.turns :
           /\ DisplayAt(store.rows, k) > 0
           /\ Rewrite(CutTo(SubSeq(store.rows, 1, DisplayAt(store.rows, k) - 1),
                            SubSeq(store.turns, 1, k - 1)))
    BY <1>2 DEF Truncate
  <2> DEFINE cut == CutTo(SubSeq(store.rows, 1, DisplayAt(store.rows, k) - 1),
                          SubSeq(store.turns, 1, k - 1))
  <2>2. Plain(cut, Unentered) /\ Fit(cut, Unentered)
    BY <1>1, <2>1, PlainTruncate, FitTruncate
  <2>3. Rewrite(cut)
    BY <2>1
  <2> HIDE DEF cut
  <2>4. cut \in Record
    BY <2>2 DEF Fit
  <2> QED
    BY <2>2, <2>3, <2>4, RewriteHonest
<1>3. CASE RestoreCheckpoint
  <2>1. PICK keep \in 0..Len(store.turns) - 1 : Rewrite(Restored(keep))
    BY <1>3 DEF RestoreCheckpoint, Restored
  <2>2. Plain(Restored(keep), Unentered) /\ Fit(Restored(keep), Unentered)
    BY <1>1, PlainRestore, FitRestore
  <2>3. Restored(keep) \in Record
    BY <2>2 DEF Fit
  <2> QED
    BY <2>1, <2>2, <2>3, RewriteHonest
<1> QED
  BY <1>2, <1>3

LEMMA SetModelHonest ==
    ASSUME Safe, Honest, SetModel \/ SetModelBudget
    PROVE  Honest'
<1>1. /\ store \in Record /\ Plain(store, Unentered)
      /\ tuner.rec \in Record /\ Plain(tuner.rec, Unentered)
  BY SafeFacts, HonestFacts
<1>2. chats' = chats
  BY DEF SetModel, SetModelBudget
<1>3. CASE SetModel
  <2>1. PICK rec \in Saved(store) : store' = rec /\ tuner' = [busy |-> TRUE, rec |-> rec]
    BY <1>3 DEF SetModel
  <2>2. Plain(rec, Unentered) /\ tuner'.rec = rec
    BY <1>1, <2>1, PlainSaved
  <2> QED
    BY <1>2, <2>1, <2>2, HonestRecord
<1>4. CASE SetModelBudget
  <2>1. tuner'.rec = NewRecord
    BY <1>4 DEF SetModelBudget, Idle
  <2>2. Plain(tuner'.rec, Unentered)
    BY <2>1, PlainStart
  <2>3. CASE store' = store
    BY <1>1, <1>2, <2>2, <2>3, HonestRecord
  <2>4. CASE \E rec \in UNION {Micro(tuner.rec, KeepRecent), Structured(tuner.rec, KeepRecent),
                               WithoutModel(tuner.rec)} : store' \in Saved(rec)
    <3> DEFINE r == tuner.rec
    <3>1. PICK rec \in Micro(r, KeepRecent) \cup Structured(r, KeepRecent) \cup WithoutModel(r) :
             store' \in Saved(rec)
      BY <2>4
    <3>2. KeepRecent \in Nat \ {0} /\ KeepRecent \in Nat
      BY Constants
    <3> HIDE DEF r
    <3>3. r \in Record /\ Plain(r, Unentered)
      BY <1>1 DEF r
    <3>4. rec \in Record /\ Plain(rec, Unentered)
      BY <3>1, <3>2, <3>3, CompactFacts, PlainCompact
    <3>5. Plain(store', Unentered)
      BY <3>1, <3>4, PlainSaved
    <3> QED
      BY <1>2, <2>2, <3>5, HonestRecord
  <2> QED
    BY <1>4, <2>3, <2>4 DEF SetModelBudget
<1> QED
  BY <1>3, <1>4

LEMMA CrashHonest ==
    ASSUME Safe, Honest, Crash
    PROVE  Honest'
<1>1. PICK p \in Underway : store' = [store EXCEPT !.projection = p]
  BY DEF Crash
<1>2. chats' = [c \in Chats |-> IF Holding(c) THEN DoneChat ELSE chats[c]] /\ tuner' = Idle
  BY DEF Crash
<1>3. store \in Record /\ Plain(store, Unentered) /\ p \in Projection
  BY <1>1, SafeFacts, HonestFacts, UnderwayFacts
<1>4. ASSUME NEW rec, Plain(rec, Unentered)
      PROVE  \A row \in ToSet(rec.projection.prefix) : row.by \notin Unentered
  BY <1>4 DEF Plain, Everything
<1>5. ASSUME NEW c \in Chats, NEW rec \in Compacted(c)
      PROVE  Plain(rec, Unentered)
  <2> DEFINE r == chats[c].rec
             keep == Keep(c)
  <2>1. r \in Record /\ Plain(r, Unentered)
    BY SafeFacts, HonestFacts
  <2>2. keep \in Nat \ {0}
    BY Constants DEF Keep
  <2>3. rec \in Micro(r, keep) \cup Structured(r, keep) \cup WithoutModel(r)
    BY <1>5 DEF Compacted
  <2> HIDE DEF r, keep
  <2> QED
    BY <2>1, <2>2, <2>3, PlainCompact
<1>6. \A row \in ToSet(p.prefix) : row.by \notin Unentered
  <2>1. CASE p = store.projection
    BY <1>3, <1>4, <2>1
  <2>2. CASE p = NoProjection
    BY <2>2 DEF NoProjection, ToSet
  <2>3. ASSUME NEW c \in Chats, p = chats[c].rec.projection
        PROVE  \A row \in ToSet(p.prefix) : row.by \notin Unentered
    BY <1>4, <2>3, HonestFacts
  <2>4. ASSUME NEW c \in Chats, NEW rec \in Compacted(c), p = rec.projection
        PROVE  \A row \in ToSet(p.prefix) : row.by \notin Unentered
    BY <1>4, <1>5, <2>4
  <2>5. \/ p = store.projection \/ p = NoProjection
        \/ \E c \in Chats : p = chats[c].rec.projection
        \/ \E c \in Chats : \E rec \in Compacted(c) : p = rec.projection
    BY <1>1 DEF Underway
  <2> QED
    BY <2>1, <2>2, <2>3, <2>4, <2>5
<1>7. Plain(store', Unentered)
  BY <1>1, <1>3, <1>6, PlainBeside
<1>8. DoneChat.phase = "done" /\ DoneChat.rec = NewRecord /\ Plain(NewRecord, Unentered)
  BY DoneFacts, PlainStart
<1>9. \A c \in Chats : Plain(chats'[c].rec, Unentered)
  BY <1>2, <1>8, HonestFacts
<1>10. ASSUME NEW c \in Chats
       PROVE  ~Entered(c)' /\ (c \in Unentered' => c \in Unentered)
  <2>1. CASE Holding(c)
    BY <1>2, <1>8, <2>1 DEF Entered, Unentered
  <2>2. CASE ~Holding(c)
    BY <1>2, <2>2 DEF Holding, Entered, Unentered
  <2> QED
    BY <2>1, <2>2
<1>11. Unentered' \subseteq Unentered
  BY <1>10 DEF Unentered
<1>12. tuner'.rec = NewRecord
  BY <1>2 DEF Idle
<1>13. \A rec \in Copies' : Plain(rec, Unentered)
  BY <1>7, <1>8, <1>9, <1>12 DEF Copies
<1>14. \A rec \in Copies' : Plain(rec, Unentered')
  BY <1>11, <1>13, PlainForFewer
<1> QED
  BY <1>10, <1>14 DEF Honest

LEMMA InitHonest ==
    ASSUME Init
    PROVE  Honest
<1>1. (\A c \in Chats : chats[c] = NewChat) /\ tuner = Idle
  BY DEF Init
<1>2. Past \notin Unentered
  BY Constants DEF Unentered
<1>3. Plain(NewRecord, Unentered) /\ Plain(store, Unentered)
  BY <1>2, PlainStart DEF Init
<1>4. NewChat.rec = NewRecord /\ NewChat.phase = "none" /\ tuner.rec = NewRecord
  BY <1>1, DoneFacts DEF Idle
<1>5. \A rec \in Copies : Plain(rec, Unentered)
  BY <1>1, <1>3, <1>4 DEF Copies
<1>6. \A c \in Chats : ~Entered(c)
  BY <1>1, <1>4 DEF Entered
<1> QED
  BY <1>5, <1>6 DEF Honest

LEMMA StepHonest ==
    ASSUME Safe, Honest, [Next]_vars
    PROVE  Honest'
<1>1. ASSUME NEW c \in Chats,
             \/ Open(c) \/ Refuse(c) \/ Enter(c)
             \/ BeginRound(c) \/ Budget(c) \/ Overflow(c)
             \/ CallTools(c) \/ Results(c) \/ Draft(c)
             \/ Reply(c) \/ Throw(c) \/ Finalize(c) \/ Stop(c)
      PROVE  Honest'
  BY <1>1, OpenHonest, QuitHonest, EnterHonest, BeginRoundHonest, BudgetHonest, OverflowHonest,
     CallToolsHonest, ResultsHonest, DraftHonest, ReplyHonest, StopHonest
<1>2. CASE Truncate \/ RestoreCheckpoint \/ SetModel \/ SetModelBudget \/ Crash
  BY <1>2, CutsHonest, SetModelHonest, CrashHonest
<1>3. CASE UNCHANGED vars
  BY <1>3 DEF vars, Honest, Copies, Entered, Unentered
<1> QED
  BY <1>1, <1>2, <1>3 DEF Next

\* What a model is sent is made of rows of its chat's transcript, in their order and none
\* that was taken back, and it ends with the newest one: no compaction, overflow, cut,
\* cancellation or crash lets an outdated projection stand in for rows of another history.
THEOREM ViewsAreAlwaysHonest == Spec => []ViewsAreHonest
<1>1. ASSUME Safe, Honest
      PROVE  ViewsAreHonest
  <2> SUFFICES ASSUME NEW c \in Chats, Asking(c)
               PROVE  LET rec == chats[c].rec
                          view == ViewOf(c)
                      IN  /\ Pick(rec.rows, {i \in DOMAIN rec.rows : rec.rows[i] \in ToSet(view)}) = view
                          /\ \/ Splits(rec)
                             \/ rec.skewed /\ Repaired(rec.rows) = <<>>
                             \/ view # <<>> /\ Last(view) = Last(rec.rows)
    BY DEF ViewsAreHonest
  <2> DEFINE rec == chats[c].rec
             rows == rec.rows
             view == View(rec, Keep(c))
             n == Len(rows)
  <2>1. Entered(c) /\ chats[c].phase = "asking"
    BY DEF Asking, Entered
  <2>2. rec \in Record /\ Plain(rec, Unentered) /\ Newest(c, chats[c])
    BY <1>1, <2>1, SafeFacts, HonestFacts
  <2>3. Keep(c) \in Nat \ {0}
    BY Constants DEF Keep
  <2>4. ViewOf(c) = view
    BY DEF ViewOf
  <2>5. rows \in Seq(Row) /\ IsInjective(rows)
    BY <2>2, RowSets DEF Plain
  <2>6. /\ chats[c].phase = "asking"
        /\ \/ rows = <<>> /\ rec.skewed
           \/ /\ rows # <<>> /\ rows[n] \notin ToSet(rec.projection.prefix)
              /\ \/ chats[c].phase = "tools"
                 \/ Matched(rows, n)
                 \/ n = 1 /\ rec.skewed /\ rows[n].kind = "results"
    BY <2>1, <2>2 DEF Newest
  <2> HIDE DEF rec
  <2>7. view \in Seq(Row) /\ IsPartOf(view, rows)
    BY <2>2, <2>3, ViewIsPart
  <2>8. Pick(rows, {i \in DOMAIN rows : rows[i] \in ToSet(view)}) = view
    <3> HIDE DEF rows, view
    <3> QED
      BY <2>5, <2>7, PickOfPart
  <2>9. CASE rows = <<>> /\ rec.skewed
    <3>1. Repaired(rows) = <<>>
      BY <2>5, <2>9, RepairedEnds
    <3> QED
      BY <2>4, <2>8, <2>9, <3>1 DEF rec
  <2>10. CASE n = 1 /\ rec.skewed /\ rows[n].kind = "results"
    <3>1. Repaired(rows) = <<>>
      BY <2>5, <2>10, RepairedEnds
    <3> QED
      BY <2>4, <2>8, <2>10, <3>1 DEF rec
  <2>11. CASE rows # <<>> /\ rows[n] \notin ToSet(rec.projection.prefix) /\ Matched(rows, n)
    <3>1. ~Splits(rec) => view # <<>> /\ Last(view) = Last(rows)
      BY <2>2, <2>3, <2>11, ViewEnds DEF Last
    <3> QED
      BY <2>4, <2>8, <3>1 DEF rec
  <2> QED
    BY <2>6, <2>9, <2>10, <2>11
<1>2. Safe /\ Honest => ViewsAreHonest
  BY <1>1
<1>3. Init => Safe /\ Honest
  BY InitSafe, InitHonest
<1>4. Safe /\ Honest /\ [Next]_vars => Safe' /\ Honest'
  BY StepSafe, StepHonest
<1> QED
  BY <1>2, <1>3, <1>4, PTL DEF Spec
=============================================================================
