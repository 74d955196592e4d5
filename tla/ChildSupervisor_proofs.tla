------------------------ MODULE ChildSupervisor_proofs ------------------------
(***************************************************************************)
(* Proofs about ChildSupervisor, for every record limit, every capacity of *)
(* a pipe, every length of the output and every set of faults.             *)
(*                                                                         *)
(* OutputInv compares what a pump has read with what it made of it:        *)
(* Pumped says of a prefix of the output which entries the journal holds   *)
(* and what is being collected, and each case of PumpByte extends it by    *)
(* one byte.  SessionInv follows a report from the pump through the        *)
(* channel to the frames, which it counts.                                 *)
(***************************************************************************)
EXTENDS ChildSupervisor, FiniteSetTheorems, TLAPS

-----------------------------------------------------------------------------
(* Lines of a sequence of bytes *)

Border(w, i)      == i = 0 \/ w[i] = "nl"
Unbroken(w, a, b) == \A j \in a..b : w[j] # "nl"

\* The line that starts after byte i ends with byte e
Line(w, i, e) ==
  /\ Border(w, i) /\ e > i /\ w[e] = "nl"
  /\ Unbroken(w, i + 1, e - 1)

LEMMA SubSeqIs ==
  ASSUME NEW S, NEW w \in Seq(S), NEW l \in Seq(S), NEW a \in 1..(Len(w) + 1),
         NEW b \in (a - 1)..Len(w), Len(l) = b - a + 1,
         \A k \in 1..Len(l) : l[k] = w[a + k - 1]
  PROVE  SubSeq(w, a, b) = l
  OBVIOUS

LEMMA SubSeqStays ==
  ASSUME NEW S, NEW w \in Seq(S), NEW x \in S, NEW a \in 1..(Len(w) + 1),
         NEW b \in (a - 1)..Len(w)
  PROVE  SubSeq(Append(w, x), a, b) = SubSeq(w, a, b)
  OBVIOUS

LEMMA LineEndsFacts ==
  ASSUME NEW w \in Seq(Byte)
  PROVE  /\ IsFiniteSet(LineEnds(w)) /\ Cardinality(LineEnds(w)) \in Nat
         /\ LineEnds(w) = {i \in 0..Len(w) : Border(w, i)}
         /\ LineEnds(w) \subseteq 0..Len(w)
<1>1. LineEnds(w) = {i \in 0..Len(w) : Border(w, i)}
  BY DEF LineEnds, Border
<1>2. LineEnds(w) \subseteq 0..Len(w)
  BY <1>1
<1>3. IsFiniteSet(0..Len(w)) BY FS_Interval
<1> QED BY <1>1, <1>2, <1>3, FS_Subset, FS_CardinalityType

LEMMA RankIsNat ==
  ASSUME NEW w \in Seq(Byte), NEW i \in 0..Len(w)
  PROVE  /\ Rank(w, i) \in Nat
         /\ IsFiniteSet({j \in LineEnds(w) : j <= i})
<1> {j \in LineEnds(w) : j <= i} \in SUBSET LineEnds(w) OBVIOUS
<1> QED BY LineEndsFacts, FS_Subset, FS_CardinalityType DEF Rank

LEMMA RankStays ==
  ASSUME NEW w \in Seq(Byte), NEW b \in Byte, NEW i \in 0..Len(w)
  PROVE  Rank(Append(w, b), i) = Rank(w, i)
<1>1. {j \in LineEnds(Append(w, b)) : j <= i} = {j \in LineEnds(w) : j <= i}
  BY DEF LineEnds
<1> QED BY <1>1 DEF Rank

LEMMA RankNext ==
  ASSUME NEW w \in Seq(Byte), NEW i \in 0..Len(w), NEW e \in 1..Len(w), Line(w, i, e)
  PROVE  Rank(w, e) = Rank(w, i) + 1
<1> DEFINE A == {j \in LineEnds(w) : j <= i}
           B == {j \in LineEnds(w) : j <= e}
<1>1. B = A \cup {e}
  <2>1. e \in B BY DEF LineEnds, Line
  <2>2. \A j \in B : j \in A \/ j = e
    BY LineEndsFacts DEF Line, Unbroken, Border
  <2>3. A \subseteq B BY LineEndsFacts DEF Line
  <2> QED BY <2>1, <2>2, <2>3
<1>2. e \notin A BY DEF Line
<1>3. IsFiniteSet(A) BY RankIsNat
<1>4. Cardinality(A \cup {e}) = Cardinality(A) + 1
  <2> HIDE DEF A
  <2> QED BY <1>2, <1>3, FS_AddElement
<1> QED BY <1>1, <1>4 DEF Rank

(* After the last end of a line every line end has been counted. *)
LEMMA RankOfLast ==
  ASSUME NEW w \in Seq(Byte), NEW c \in 0..Len(w), Border(w, c),
         Unbroken(w, c + 1, Len(w))
  PROVE  Cardinality(LineEnds(w) \ {Len(w)}) =
           IF c = Len(w) THEN Rank(w, c) - 1 ELSE Rank(w, c)
<1>1. {j \in LineEnds(w) : j <= c} = LineEnds(w)
  BY LineEndsFacts DEF Unbroken, Border
<1>2. Len(w) \in LineEnds(w) <=> c = Len(w)
  BY LineEndsFacts DEF Unbroken, Border
<1> QED BY <1>1, <1>2, LineEndsFacts, FS_RemoveElement, ZenonT(60) DEF Rank

(* The line that is cut off at e, and the one that is never ended. *)
LEMMA LineAfterIs ==
  ASSUME NEW w \in Seq(Byte), NEW i \in 0..Len(w)
  PROVE  /\ \A e \in 1..Len(w) : Line(w, i, e) => LineAfter(w, i) = SubSeq(w, i + 1, e - 1)
         /\ Unbroken(w, i + 1, Len(w)) => LineAfter(w, i) = SubSeq(w, i + 1, Len(w))
<1> DEFINE next == {j \in DOMAIN w : j > i /\ w[j] = "nl"}
           first == CHOOSE j \in next : \A k \in next : j <= k
<1>1. ASSUME NEW e \in 1..Len(w), Line(w, i, e)
      PROVE  LineAfter(w, i) = SubSeq(w, i + 1, e - 1)
  <2>1. e \in next /\ \A k \in next : e <= k
    BY <1>1 DEF Line, Unbroken
  <2>2. first \in next /\ \A k \in next : first <= k
    BY <2>1
  <2>3. first = e BY <2>1, <2>2
  <2> QED BY <2>1, <2>3 DEF LineAfter
<1>2. ASSUME Unbroken(w, i + 1, Len(w))
      PROVE  LineAfter(w, i) = SubSeq(w, i + 1, Len(w))
  <2>1. next = {} BY <1>2 DEF Unbroken
  <2> QED BY <2>1 DEF LineAfter
<1> QED BY <1>1, <1>2

-----------------------------------------------------------------------------
(* What a pump that has read n bytes of w, and reported nothing, has made   *)
(* of them: an entry for each line that ended before byte c, the last line  *)
(* border it read, and what it collects of the line after c.                *)

Entry == Seq(Byte) \cup {<<"invalid">>, <<"too long">>}

TooLong == <<"too long">>

Told(j, w, c) ==
  \A i \in 0..(c - 1) : Border(w, i) =>
    \E e \in (i + 1)..c :
      /\ Line(w, i, e) /\ Rank(w, i) \in 1..Len(j)
      /\ j[Rank(w, i)] = EntryOf(SubSeq(w, i + 1, e - 1))

\* The line after c is in the record, or was given up as too long
Collecting(w, n, c, j, rec) ==
  /\ Len(rec) = n - c /\ Len(rec) <= MaxRecord
  /\ \A k \in 1..Len(rec) : rec[k] = w[c + k]
  /\ Len(j) = Rank(w, c) - 1

GivenUp(w, n, c, j, rec) ==
  /\ rec = <<>> /\ n - c > MaxRecord
  /\ Len(j) = Rank(w, c) /\ j[Len(j)] = TooLong

UpTo(w, n, c, j, rec, skip) ==
  /\ Border(w, c) /\ Unbroken(w, c + 1, n) /\ Told(j, w, c)
  /\ IF skip THEN GivenUp(w, n, c, j, rec) ELSE Collecting(w, n, c, j, rec)

Pumped(w, n, j, rec, skip) == \E c \in 0..n : UpTo(w, n, c, j, rec, skip)

LEMMA LimitIsNat == MaxRecord \in Nat /\ MaxRecord > 0 /\ Capacity \in Nat
BY ConstantsAssumption

LEMMA RecordEntryType ==
  ASSUME NEW rec \in Seq(Byte)
  PROVE  RecordEntry(rec) \in Entry
BY DEF RecordEntry, Entry

\* Nothing was read yet
LEMMA PumpedNothing ==
  ASSUME NEW w \in Seq(Byte)
  PROVE  Pumped(w, 0, <<>>, <<>>, FALSE)
<1>1. {j \in LineEnds(w) : j <= 0} = {0} BY LineEndsFacts DEF LineEnds
<1>2. Rank(w, 0) = 1
  <2>1. Cardinality({0}) = 1 BY FS_Singleton
  <2> QED BY <1>1, <2>1 DEF Rank
<1>3. Border(w, 0) /\ Unbroken(w, 1, 0) /\ Told(<<>>, w, 0)
  BY DEF Border, Unbroken, Told
<1>4. Collecting(w, 0, 0, <<>>, <<>>)
  BY <1>2, LimitIsNat DEF Collecting
<1> QED BY <1>3, <1>4 DEF Pumped, UpTo

\* The writer goes on
LEMMA ToldStays ==
  ASSUME NEW w \in Seq(Byte), NEW b \in Byte, NEW c \in 0..Len(w),
         NEW j \in Seq(Entry), Told(j, w, c)
  PROVE  Told(j, Append(w, b), c)
<1> DEFINE v == Append(w, b)
<1> SUFFICES ASSUME NEW i \in 0..(c - 1), Border(v, i)
             PROVE  \E e \in (i + 1)..c :
                      /\ Line(v, i, e) /\ Rank(v, i) \in 1..Len(j)
                      /\ j[Rank(v, i)] = EntryOf(SubSeq(v, i + 1, e - 1))
  BY DEF Told
<1>1. Border(w, i) BY DEF Border
<1>2. PICK e \in (i + 1)..c :
        /\ Line(w, i, e) /\ Rank(w, i) \in 1..Len(j)
        /\ j[Rank(w, i)] = EntryOf(SubSeq(w, i + 1, e - 1))
  BY <1>1 DEF Told
<1>3. Line(v, i, e) BY <1>2 DEF Line, Unbroken, Border
<1>4. Rank(v, i) = Rank(w, i) BY RankStays
<1>5. SubSeq(v, i + 1, e - 1) = SubSeq(w, i + 1, e - 1)
  BY SubSeqStays, i + 1 \in 1..(Len(w) + 1), e - 1 \in i..Len(w)
<1> QED BY <1>2, <1>3, <1>4, <1>5

LEMMA PumpedStays ==
  ASSUME NEW w \in Seq(Byte), NEW b \in Byte, NEW n \in 0..Len(w),
         NEW j \in Seq(Entry), NEW rec \in Seq(Byte), NEW skip \in BOOLEAN,
         Pumped(w, n, j, rec, skip)
  PROVE  Pumped(Append(w, b), n, j, rec, skip)
<1> DEFINE v == Append(w, b)
<1>1. PICK c \in 0..n : UpTo(w, n, c, j, rec, skip) BY DEF Pumped
<1>2. c \in 0..Len(w) OBVIOUS
<1>3. Border(v, c) /\ Unbroken(v, c + 1, n) BY <1>1 DEF UpTo, Border, Unbroken
<1>4. Told(j, v, c) BY <1>1, <1>2, ToldStays DEF UpTo
<1>5. Rank(v, c) = Rank(w, c) BY <1>2, RankStays
<1>6. Collecting(w, n, c, j, rec) => Collecting(v, n, c, j, rec)
  BY <1>5 DEF Collecting
<1>7. GivenUp(w, n, c, j, rec) => GivenUp(v, n, c, j, rec)
  BY <1>5 DEF GivenUp
<1> QED BY <1>1, <1>3, <1>4, <1>6, <1>7 DEF Pumped, UpTo

\* One more entry in the journal
LEMMA ToldAppend ==
  ASSUME NEW w \in Seq(Byte), NEW c \in 0..Len(w), NEW j \in Seq(Entry),
         NEW x \in Entry, Told(j, w, c)
  PROVE  Told(Append(j, x), w, c)
<1> SUFFICES ASSUME NEW i \in 0..(c - 1), Border(w, i)
             PROVE  \E e \in (i + 1)..c :
                      /\ Line(w, i, e) /\ Rank(w, i) \in 1..Len(Append(j, x))
                      /\ Append(j, x)[Rank(w, i)] = EntryOf(SubSeq(w, i + 1, e - 1))
  BY DEF Told
<1>1. PICK e \in (i + 1)..c :
        /\ Line(w, i, e) /\ Rank(w, i) \in 1..Len(j)
        /\ j[Rank(w, i)] = EntryOf(SubSeq(w, i + 1, e - 1))
  BY DEF Told
<1>2. Rank(w, i) \in 1..Len(Append(j, x)) /\ Append(j, x)[Rank(w, i)] = j[Rank(w, i)]
  BY <1>1
<1> QED BY <1>1, <1>2

\* The end of a line
LEMMA ToldLine ==
  ASSUME NEW w \in Seq(Byte), NEW c \in 0..Len(w), NEW e \in 1..Len(w),
         NEW j \in Seq(Entry), Told(j, w, c), Line(w, c, e),
         Len(j) = Rank(w, c), j[Len(j)] = EntryOf(SubSeq(w, c + 1, e - 1))
  PROVE  Told(j, w, e) /\ Len(j) = Rank(w, e) - 1
<1>1. Rank(w, e) = Rank(w, c) + 1 BY RankNext
<1>2. Rank(w, c) \in Nat BY RankIsNat
<1>0. e > c /\ Len(j) \in Nat BY DEF Line
<1>3. Rank(w, c) >= 1
  <2>1. c \in {k \in LineEnds(w) : k <= c} BY LineEndsFacts DEF Line
  <2>2. IsFiniteSet({k \in LineEnds(w) : k <= c}) BY RankIsNat
  <2>3. Cardinality({k \in LineEnds(w) : k <= c}) # 0
    BY <2>1, <2>2, FS_EmptySet
  <2> QED BY <1>2, <2>3 DEF Rank
<1>4. ASSUME NEW i \in 0..(e - 1), Border(w, i)
      PROVE  \E f \in (i + 1)..e :
               /\ Line(w, i, f) /\ Rank(w, i) \in 1..Len(j)
               /\ j[Rank(w, i)] = EntryOf(SubSeq(w, i + 1, f - 1))
  <2>1. CASE i = c
    <3>1. e \in (i + 1)..e BY <1>0, <2>1
    <3>2. Rank(w, i) \in 1..Len(j) BY <1>2, <1>3, <2>1
    <3> QED BY <2>1, <3>1, <3>2
  <2>2. CASE i < c
    <3>1. PICK f \in (i + 1)..c :
            /\ Line(w, i, f) /\ Rank(w, i) \in 1..Len(j)
            /\ j[Rank(w, i)] = EntryOf(SubSeq(w, i + 1, f - 1))
      BY <1>4, <2>2 DEF Told
    <3>2. f \in (i + 1)..e BY <1>0
    <3> QED BY <3>1, <3>2
  <2>3. CASE i > c BY <1>4, <2>3 DEF Line, Unbroken, Border
  <2> QED BY <2>1, <2>2, <2>3
<1> QED BY <1>1, <1>2, <1>4 DEF Told

\* What was collected is the line
LEMMA CollectedLine ==
  ASSUME NEW w \in Seq(Byte), NEW n \in 0..Len(w), NEW c \in 0..n,
         NEW j, NEW rec \in Seq(Byte), Collecting(w, n, c, j, rec)
  PROVE  /\ SubSeq(w, c + 1, n) = rec
         /\ EntryOf(SubSeq(w, c + 1, n)) = RecordEntry(rec)
<1>1. c + 1 \in 1..(Len(w) + 1) /\ n \in ((c + 1) - 1)..Len(w) OBVIOUS
<1>2. Len(rec) = n - (c + 1) + 1 BY DEF Collecting
<1>3. \A k \in 1..Len(rec) : rec[k] = w[(c + 1) + k - 1] BY DEF Collecting
<1>4. SubSeq(w, c + 1, n) = rec BY <1>1, <1>2, <1>3, SubSeqIs
<1>5. ~(Len(rec) > MaxRecord) BY LimitIsNat DEF Collecting
<1> QED BY <1>4, <1>5 DEF EntryOf

LEMMA GivenUpLine ==
  ASSUME NEW w \in Seq(Byte), NEW n \in 0..Len(w), NEW c \in 0..n,
         n - c > MaxRecord
  PROVE  EntryOf(SubSeq(w, c + 1, n)) = TooLong
<1>1. Len(SubSeq(w, c + 1, n)) = n - c OBVIOUS
<1> QED BY <1>1 DEF EntryOf, TooLong

LEMMA PumpedEndOfLine ==
  ASSUME NEW w \in Seq(Byte), NEW n \in 0..(Len(w) - 1), w[n + 1] = "nl",
         NEW j \in Seq(Entry), NEW rec \in Seq(Byte), NEW skip \in BOOLEAN,
         Pumped(w, n, j, rec, skip)
  PROVE  Pumped(w, n + 1, IF skip THEN j ELSE Append(j, RecordEntry(rec)), <<>>, FALSE)
<1>1. PICK c \in 0..n : UpTo(w, n, c, j, rec, skip) BY DEF Pumped
<1> DEFINE e == n + 1
           l == IF skip THEN j ELSE Append(j, RecordEntry(rec))
<1>2. /\ c \in 0..Len(w) /\ e \in 1..Len(w) /\ n \in 0..Len(w) /\ e - 1 = n
  OBVIOUS
<1>3. Line(w, c, e)
  <2>1. Border(w, c) /\ Unbroken(w, c + 1, n) BY <1>1 DEF UpTo
  <2> QED BY <1>2, <2>1 DEF Line
<1>4. RecordEntry(rec) \in Entry BY RecordEntryType
<1>5. l \in Seq(Entry) BY <1>4
<1>6. Told(l, w, c)
  <2>1. Told(j, w, c) BY <1>1 DEF UpTo
  <2> QED BY <1>2, <1>4, <2>1, ToldAppend
<1>7. Len(l) = Rank(w, c) /\ l[Len(l)] = EntryOf(SubSeq(w, c + 1, n))
  <2>1. CASE skip
    <3>1. GivenUp(w, n, c, j, rec) BY <1>1, <2>1 DEF UpTo
    <3> QED BY <1>2, <2>1, <3>1, GivenUpLine DEF GivenUp
  <2>2. CASE ~skip
    <3>1. Collecting(w, n, c, j, rec) BY <1>1, <2>2 DEF UpTo
    <3>2. EntryOf(SubSeq(w, c + 1, n)) = RecordEntry(rec)
      BY <1>2, <3>1, CollectedLine
    <3>3. Len(j) = Rank(w, c) - 1 BY <3>1 DEF Collecting
    <3>4. Rank(w, c) \in Nat BY <1>2, RankIsNat
    <3> QED BY <1>4, <2>2, <3>2, <3>3, <3>4
  <2> QED BY <2>1, <2>2
<1>8. Told(l, w, e) /\ Len(l) = Rank(w, e) - 1
  <2> HIDE DEF l
  <2> QED BY <1>2, <1>3, <1>5, <1>6, <1>7, ToldLine
<1>9. UpTo(w, e, e, l, <<>>, FALSE)
  <2> HIDE DEF l
  <2>1. Border(w, e) /\ Unbroken(w, e + 1, e) BY <1>2 DEF Border, Unbroken
  <2>2. Collecting(w, e, e, l, <<>>) BY <1>8, LimitIsNat DEF Collecting
  <2> QED BY <1>8, <2>1, <2>2 DEF UpTo
<1> QED
  <2> HIDE DEF l
  <2>1. e \in 0..e OBVIOUS
  <2>2. Pumped(w, e, l, <<>>, FALSE) BY <1>9, <2>1 DEF Pumped
  <2> QED BY <2>2 DEF l

\* A byte of an overlong line
LEMMA PumpedSkips ==
  ASSUME NEW w \in Seq(Byte), NEW n \in 0..(Len(w) - 1), w[n + 1] # "nl",
         NEW j \in Seq(Entry), NEW rec \in Seq(Byte), Pumped(w, n, j, rec, TRUE)
  PROVE  Pumped(w, n + 1, j, rec, TRUE)
<1>1. PICK c \in 0..n : UpTo(w, n, c, j, rec, TRUE) BY DEF Pumped
<1>2. GivenUp(w, n, c, j, rec) BY <1>1 DEF UpTo
<1>3. GivenUp(w, n + 1, c, j, rec)
  <2>1. n - c > MaxRecord => n + 1 - c > MaxRecord BY LimitIsNat
  <2> QED BY <1>2, <2>1 DEF GivenUp
<1>4. Border(w, c) /\ Unbroken(w, c + 1, n + 1) /\ Told(j, w, c)
  BY <1>1 DEF UpTo, Unbroken
<1> QED BY <1>3, <1>4, c \in 0..(n + 1) DEF Pumped, UpTo

\* The byte that makes a line too long
LEMMA PumpedFull ==
  ASSUME NEW w \in Seq(Byte), NEW n \in 0..(Len(w) - 1), w[n + 1] # "nl",
         NEW j \in Seq(Entry), NEW rec \in Seq(Byte), Pumped(w, n, j, rec, FALSE),
         Full(rec)
  PROVE  Pumped(w, n + 1, Append(j, TooLong), <<>>, TRUE)
<1>1. PICK c \in 0..n : UpTo(w, n, c, j, rec, FALSE) BY DEF Pumped
<1>2. Collecting(w, n, c, j, rec) BY <1>1 DEF UpTo
<1>3. TooLong \in Entry BY DEF Entry, TooLong
<1>4. c \in 0..Len(w) OBVIOUS
<1>5. Rank(w, c) \in Nat BY <1>4, RankIsNat
<1>6. GivenUp(w, n + 1, c, Append(j, TooLong), <<>>)
  <2>1. n + 1 - c > MaxRecord BY <1>2, LimitIsNat DEF Collecting, Full
  <2>2. Len(j) = Rank(w, c) - 1 BY <1>2 DEF Collecting
  <2>3. /\ Len(Append(j, TooLong)) = Rank(w, c)
        /\ Append(j, TooLong)[Rank(w, c)] = TooLong
    BY <1>3, <1>5, <2>2
  <2> QED BY <2>1, <2>3 DEF GivenUp
<1>7. Border(w, c) /\ Unbroken(w, c + 1, n + 1) /\ Told(j, w, c)
  BY <1>1 DEF UpTo, Unbroken
<1>8. Told(Append(j, TooLong), w, c) BY <1>3, <1>4, <1>7, ToldAppend
<1> QED
  <2>1. UpTo(w, n + 1, c, Append(j, TooLong), <<>>, TRUE)
    BY <1>6, <1>7, <1>8 DEF UpTo
  <2>2. c \in 0..(n + 1) OBVIOUS
  <2> QED BY <2>1, <2>2 DEF Pumped

\* A byte that is collected
LEMMA PumpedCollects ==
  ASSUME NEW w \in Seq(Byte), NEW n \in 0..(Len(w) - 1), w[n + 1] # "nl",
         NEW j \in Seq(Entry), NEW rec \in Seq(Byte), Pumped(w, n, j, rec, FALSE),
         ~Full(rec)
  PROVE  Pumped(w, n + 1, j, Append(rec, w[n + 1]), FALSE)
<1>1. PICK c \in 0..n : UpTo(w, n, c, j, rec, FALSE) BY DEF Pumped
<1>2. Collecting(w, n, c, j, rec) BY <1>1 DEF UpTo
<1>3. Collecting(w, n + 1, c, j, Append(rec, w[n + 1]))
  <2> DEFINE l == Append(rec, w[n + 1])
  <2>1. w[n + 1] \in Byte OBVIOUS
  <2>2. Len(rec) = n - c /\ Len(rec) < MaxRecord
    BY <1>2, LimitIsNat DEF Collecting, Full
  <2>3. Len(l) = n + 1 - c /\ Len(l) <= MaxRecord
    BY <2>1, <2>2, LimitIsNat
  <2>4. \A k \in 1..Len(rec) : rec[k] = w[c + k] BY <1>2 DEF Collecting
  <2>5. \A k \in 1..Len(l) : l[k] = w[c + k] BY <2>1, <2>2, <2>4
  <2> QED BY <1>2, <2>3, <2>5, SMTT(60) DEF Collecting
<1>4. Border(w, c) /\ Unbroken(w, c + 1, n + 1) /\ Told(j, w, c)
  BY <1>1 DEF UpTo, Unbroken
<1> QED BY <1>3, <1>4, c \in 0..(n + 1) DEF Pumped, UpTo

\* Everything was read
LEMMA AllTold ==
  ASSUME NEW w \in Seq(Byte), NEW c \in 0..Len(w), NEW j \in Seq(Entry),
         Border(w, c), Unbroken(w, c + 1, Len(w)), Told(j, w, c),
         \/ c = Len(w) /\ Len(j) = Rank(w, c) - 1
         \/ /\ c < Len(w) /\ Len(j) = Rank(w, c)
            /\ j[Len(j)] = EntryOf(SubSeq(w, c + 1, Len(w)))
  PROVE  Transcribes(j, w)
<1>1. Len(j) = Cardinality(LineEnds(w) \ {Len(w)})
  <2>1. Cardinality(LineEnds(w) \ {Len(w)}) =
          IF c = Len(w) THEN Rank(w, c) - 1 ELSE Rank(w, c)
    BY RankOfLast
  <2>2. c < Len(w) => c # Len(w) OBVIOUS
  <2> QED BY <2>1, <2>2
<1>2. ASSUME NEW i \in LineEnds(w) \ {Len(w)}
      PROVE  j[Rank(w, i)] = EntryOf(LineAfter(w, i))
  <2>1. i \in 0..Len(w) /\ Border(w, i) BY LineEndsFacts
  <2>2. CASE i < c
    <3>1. PICK e \in (i + 1)..c :
            /\ Line(w, i, e) /\ j[Rank(w, i)] = EntryOf(SubSeq(w, i + 1, e - 1))
      BY <2>1, <2>2 DEF Told
    <3> QED BY <2>1, <3>1, LineAfterIs, e \in 1..Len(w)
  <2>3. CASE i = c
    <3>1. LineAfter(w, i) = SubSeq(w, i + 1, Len(w)) BY <2>1, <2>3, LineAfterIs
    <3> QED BY <1>2, <2>3, <3>1
  <2>4. CASE i > c BY <2>1, <2>4 DEF Border, Unbroken
  <2> QED BY <2>1, <2>2, <2>3, <2>4
<1> QED BY <1>1, <1>2 DEF Transcribes

LEMMA PumpedAll ==
  ASSUME NEW w \in Seq(Byte), NEW j \in Seq(Entry), NEW rec \in Seq(Byte),
         NEW skip \in BOOLEAN, Pumped(w, Len(w), j, rec, skip)
  PROVE  Transcribes(IF skip \/ rec = <<>> THEN j ELSE Append(j, RecordEntry(rec)), w)
<1>1. PICK c \in 0..Len(w) : UpTo(w, Len(w), c, j, rec, skip) BY DEF Pumped
<1>2. Border(w, c) /\ Unbroken(w, c + 1, Len(w)) /\ Told(j, w, c) BY <1>1 DEF UpTo
<1>3. Len(w) \in 0..Len(w) /\ Rank(w, c) \in Nat
  <2>1. Len(w) \in 0..Len(w) OBVIOUS
  <2>2. Rank(w, c) \in Nat BY RankIsNat
  <2> QED BY <2>1, <2>2
<1>4. CASE skip
  <2>1. GivenUp(w, Len(w), c, j, rec) BY <1>1, <1>4 DEF UpTo
  <2>2. j[Len(j)] = EntryOf(SubSeq(w, c + 1, Len(w)))
    BY <1>3, <2>1, GivenUpLine DEF GivenUp
  <2>3. Len(w) - c > MaxRecord /\ Len(j) = Rank(w, c) BY <2>1 DEF GivenUp
  <2>4. c < Len(w) BY <2>3, LimitIsNat
  <2> QED BY <1>2, <1>4, <2>2, <2>3, <2>4, AllTold
<1>5. CASE ~skip /\ rec = <<>>
  <2>1. Collecting(w, Len(w), c, j, rec) BY <1>1, <1>5 DEF UpTo
  <2>2. c = Len(w) /\ Len(j) = Rank(w, c) - 1 BY <1>5, <2>1 DEF Collecting
  <2> QED BY <1>2, <1>5, <2>2, AllTold
<1>6. CASE ~skip /\ rec # <<>>
  <2> DEFINE l == Append(j, RecordEntry(rec))
  <2>1. Collecting(w, Len(w), c, j, rec) BY <1>1, <1>6 DEF UpTo
  <2>2. c < Len(w) /\ Len(j) = Rank(w, c) - 1 BY <1>6, <2>1 DEF Collecting
  <2>3. RecordEntry(rec) \in Entry BY RecordEntryType
  <2>4. RecordEntry(rec) = EntryOf(SubSeq(w, c + 1, Len(w)))
    BY <1>3, <2>1, CollectedLine
  <2>5. /\ l \in Seq(Entry) /\ Len(l) = Rank(w, c)
        /\ l[Len(l)] = EntryOf(SubSeq(w, c + 1, Len(w)))
    BY <1>3, <2>2, <2>3, <2>4
  <2>6. Told(l, w, c) BY <1>2, <2>3, ToldAppend
  <2>7. Transcribes(l, w)
    <3> HIDE DEF l
    <3> QED BY <1>2, <2>2, <2>5, <2>6, AllTold
  <2> QED BY <1>6, <2>7
<1> QED BY <1>4, <1>5, <1>6

-----------------------------------------------------------------------------
(* Types.  What each stream holds are sequences.                            *)

Shapes ==
  /\ pipe \in [Stream -> Seq(Byte)] /\ written \in [Stream -> Seq(Byte)]
  /\ record \in [Stream -> Seq(Byte)] /\ journal \in [Stream -> Seq(Entry)]

Types == TypeOK /\ Shapes

PumpStates == {"none", "reads", "drains", "done"}

LEMMA ShortSeqs ==
  ASSUME NEW S
  PROVE  /\ <<>> \in Seq(S) /\ Len(<<>>) = 0
         /\ \A x \in S : <<x>> \in Seq(S) /\ Len(<<x>>) = 1
OBVIOUS

LEMMA NotJoinedType ==
  NotJoined \in Seq(Stream) /\ ToSet(NotJoined) = {s \in Stream : pump[s] = "none"}
<1>1. NeverRan("stdout") \in Seq(Stream) /\ NeverRan("stderr") \in Seq(Stream)
  <2>1. "stdout" \in Stream /\ "stderr" \in Stream BY DEF Stream
  <2>2. <<"stdout">> \in Seq(Stream) /\ <<"stderr">> \in Seq(Stream) /\ <<>> \in Seq(Stream)
    BY <2>1, ShortSeqs
  <2> QED BY <2>2 DEF NeverRan
<1>2. ToSet(NotJoined) = {s \in Stream : pump[s] = "none"}
  <2>1. CASE pump["stdout"] = "none" /\ pump["stderr"] = "none"
    BY <2>1 DEF NeverRan, NotJoined, ToSet, Stream
  <2>2. CASE pump["stdout"] = "none" /\ pump["stderr"] # "none"
    BY <2>2 DEF NeverRan, NotJoined, ToSet, Stream
  <2>3. CASE pump["stdout"] # "none" /\ pump["stderr"] = "none"
    BY <2>3 DEF NeverRan, NotJoined, ToSet, Stream
  <2>4. CASE pump["stdout"] # "none" /\ pump["stderr"] # "none"
    BY <2>4 DEF NeverRan, NotJoined, ToSet, Stream
  <2> QED BY <2>1, <2>2, <2>3, <2>4
<1> QED BY <1>1, <1>2 DEF NotJoined

LEMMA InitTypes == Init => Types
<1> SUFFICES ASSUME Init PROVE Types OBVIOUS
<1>1. Shapes BY DEF Init, Shapes
<1>2. failures \in Seq(Stream) BY NotJoinedType DEF Init
<1>3. \A s \in Stream : /\ pipe[s] = <<>> /\ written[s] = <<>> /\ record[s] = <<>>
  BY DEF Init
<1>4. pump \in [Stream -> PumpStates] BY DEF Init, PumpStates
<1>5. \A s \in Stream : /\ pipe[s] \in Seq(Byte) /\ Len(pipe[s]) <= Capacity
                        /\ written[s] \in Seq(Byte)
                        /\ record[s] \in Seq(Byte) /\ Len(record[s]) <= MaxRecord
  <2>1. <<>> \in Seq(Byte) /\ Len(<<>>) <= Capacity /\ Len(<<>>) <= MaxRecord
    BY ShortSeqs, LimitIsNat
  <2> QED BY <1>3, <2>1
<1>6. silent \subseteq Stream BY DEF Init
<1> QED BY <1>1, <1>2, <1>4, <1>5, <1>6 DEF Init, Types, TypeOK, PumpStates

\* What the emission of an entry does
LEMMA EmitDoes ==
  ASSUME NEW s \in Stream, NEW x \in Entry, Types, Emit(s, x)
  PROVE  \/ /\ journal' = [journal EXCEPT ![s] = Append(journal[s], x)]
            /\ failures' = failures /\ silent' = silent
         \/ /\ journal' = journal
            /\ failures' = Append(failures, s) /\ silent' = silent \cup {s}
BY DEF Emit, Quiet, Report

LEMMA EmitTypes ==
  ASSUME NEW s \in Stream, NEW x \in Entry, Types, Emit(s, x)
  PROVE  /\ journal' \in [Stream -> Seq(Entry)]
         /\ failures' \in Seq(Stream) /\ silent' \subseteq Stream
<1>1. /\ journal \in [Stream -> Seq(Entry)] /\ failures \in Seq(Stream)
      /\ silent \subseteq Stream
  BY DEF Types, TypeOK, Shapes
<1>2. Append(journal[s], x) \in Seq(Entry) /\ Append(failures, s) \in Seq(Stream)
  BY <1>1
<1>3. CASE /\ journal' = [journal EXCEPT ![s] = Append(journal[s], x)]
           /\ failures' = failures /\ silent' = silent
  BY <1>1, <1>2, <1>3
<1>4. CASE /\ journal' = journal
           /\ failures' = Append(failures, s) /\ silent' = silent \cup {s}
  BY <1>1, <1>2, <1>4
<1> QED BY <1>3, <1>4, EmitDoes

LEMMA QuietTypes ==
  ASSUME Types, Quiet, journal' = journal
  PROVE  /\ journal' \in [Stream -> Seq(Entry)]
         /\ failures' \in Seq(Stream) /\ silent' \subseteq Stream
BY DEF Types, TypeOK, Shapes, Quiet

LEMMA ReportTypes ==
  ASSUME NEW s \in Stream, Types, Report(s)
  PROVE  failures' \in Seq(Stream) /\ silent' \subseteq Stream
BY DEF Types, TypeOK, Report

\* A step that moves one stream only
LEMMA StreamTypes ==
  ASSUME Types, NEW s \in Stream, NEW p \in Seq(Byte), NEW w \in Seq(Byte),
         NEW rec \in Seq(Byte), NEW pu \in PumpStates,
         Len(p) <= Capacity, Len(rec) <= MaxRecord,
         pipe' = [pipe EXCEPT ![s] = p], written' = [written EXCEPT ![s] = w],
         record' = [record EXCEPT ![s] = rec], pump' = [pump EXCEPT ![s] = pu],
         journal' \in [Stream -> Seq(Entry)], failures' \in Seq(Stream),
         silent' \subseteq Stream, skipping' \subseteq Stream, reader' \subseteq Stream,
         open' = open, UNCHANGED <<faults, child, session>>
  PROVE  Types'
<1>1. Shapes' BY DEF Types, Shapes
<1>2. pump' \in [Stream -> PumpStates] BY DEF Types, TypeOK, PumpStates
<1>3. \A t \in Stream : /\ pipe'[t] \in Seq(Byte) /\ Len(pipe'[t]) <= Capacity
                        /\ written'[t] \in Seq(Byte)
                        /\ record'[t] \in Seq(Byte) /\ Len(record'[t]) <= MaxRecord
  <2> SUFFICES ASSUME NEW t \in Stream
               PROVE  /\ pipe'[t] \in Seq(Byte) /\ Len(pipe'[t]) <= Capacity
                      /\ written'[t] \in Seq(Byte)
                      /\ record'[t] \in Seq(Byte) /\ Len(record'[t]) <= MaxRecord
    OBVIOUS
  <2>1. t = s => pipe'[t] = p /\ written'[t] = w /\ record'[t] = rec
    BY DEF Types, Shapes
  <2>2. t # s => pipe'[t] = pipe[t] /\ written'[t] = written[t] /\ record'[t] = record[t]
    BY DEF Types, Shapes
  <2>3. /\ pipe[t] \in Seq(Byte) /\ Len(pipe[t]) <= Capacity /\ written[t] \in Seq(Byte)
        /\ record[t] \in Seq(Byte) /\ Len(record[t]) <= MaxRecord
    BY DEF Types, TypeOK
  <2> QED BY <2>1, <2>2, <2>3
<1>4. /\ faults' \in Scenarios /\ child' \in {"runs", "zombie", "reaped"}
      /\ open' \subseteq Stream /\ named' \subseteq Stream
      /\ main' \in {"loop", "reap", "waits", "end"} /\ failed' \in BOOLEAN
  BY DEF Types, TypeOK, session
<1> QED BY <1>1, <1>2, <1>3, <1>4 DEF Types, TypeOK, PumpStates

-----------------------------------------------------------------------------
(* The inductive invariant of the streams.  The pipe holds the end of what  *)
(* was written, and a pump that reported nothing has made of the rest what  *)
(* Pumped says.                                                             *)

Suffix(p, w) ==
  /\ Len(p) <= Len(w)
  /\ \A k \in 1..Len(p) : p[k] = w[Len(w) - Len(p) + k]

StreamHas(p, w, pu, rec, skip, quiet, j, held) ==
  /\ Suffix(p, w)
  /\ pu = "none" => quiet
  /\ (pu = "reads" /\ ~quiet) => Pumped(w, Len(w) - Len(p), j, rec, skip)
  /\ (pu = "done" /\ ~quiet) => ~held /\ Transcribes(j, w)

Has(s) == StreamHas(pipe[s], written[s], pump[s], record[s], s \in skipping,
                    s \in silent, journal[s], s \in open)

OutputInv == Types /\ \A s \in Stream : Has(s)

LEMMA SuffixWrite ==
  ASSUME NEW p \in Seq(Byte), NEW w \in Seq(Byte), NEW b \in Byte, Suffix(p, w)
  PROVE  /\ Suffix(Append(p, b), Append(w, b))
         /\ Len(Append(w, b)) - Len(Append(p, b)) = Len(w) - Len(p)
         /\ Len(w) - Len(p) \in 0..Len(w)
<1>1. Len(w) - Len(p) \in 0..Len(w) BY DEF Suffix
<1>2. Len(Append(w, b)) - Len(Append(p, b)) = Len(w) - Len(p) OBVIOUS
<1>3. ASSUME NEW k \in 1..(Len(p) + 1)
      PROVE  Append(p, b)[k] = Append(w, b)[Len(w) - Len(p) + k]
  <2>1. CASE k = Len(p) + 1 BY <2>1
  <2>2. CASE k # Len(p) + 1
    <3>1. k \in 1..Len(p) /\ Len(w) - Len(p) + k \in 1..Len(w) BY <1>1, <2>2
    <3>2. p[k] = w[Len(w) - Len(p) + k] BY <3>1 DEF Suffix
    <3> QED BY <3>1, <3>2
  <2> QED BY <2>1, <2>2
<1>4. Len(Append(p, b)) = Len(p) + 1 /\ Len(Append(p, b)) <= Len(Append(w, b))
  BY DEF Suffix
<1>5. \A k \in 1..Len(Append(p, b)) :
        Append(p, b)[k] = Append(w, b)[Len(Append(w, b)) - Len(Append(p, b)) + k]
  BY <1>2, <1>3, <1>4
<1> QED BY <1>1, <1>2, <1>4, <1>5 DEF Suffix

LEMMA SuffixTail ==
  ASSUME NEW p \in Seq(Byte), NEW w \in Seq(Byte), Suffix(p, w), p # <<>>
  PROVE  /\ Tail(p) \in Seq(Byte) /\ Head(p) \in Byte /\ Len(Tail(p)) <= Len(p)
         /\ Suffix(Tail(p), w)
         /\ Len(w) - Len(p) \in 0..(Len(w) - 1)
         /\ Len(w) - Len(Tail(p)) = (Len(w) - Len(p)) + 1
         /\ w[(Len(w) - Len(p)) + 1] = Head(p)
BY DEF Suffix

LEMMA Unmoved ==
  ASSUME Types, NEW s \in Stream
  PROVE  /\ pipe = [pipe EXCEPT ![s] = pipe[s]]
         /\ written = [written EXCEPT ![s] = written[s]]
         /\ record = [record EXCEPT ![s] = record[s]]
         /\ pump = [pump EXCEPT ![s] = pump[s]]
         /\ journal = [journal EXCEPT ![s] = journal[s]]
BY DEF Types, TypeOK, Shapes

LEMMA StreamTyped ==
  ASSUME Types, NEW s \in Stream
  PROVE  /\ pipe[s] \in Seq(Byte) /\ Len(pipe[s]) <= Capacity
         /\ written[s] \in Seq(Byte)
         /\ record[s] \in Seq(Byte) /\ Len(record[s]) <= MaxRecord
         /\ journal[s] \in Seq(Entry) /\ pump[s] \in PumpStates
BY DEF Types, TypeOK, Shapes, PumpStates

\* A step that moves one stream, as StreamTypes
LEMMA StreamMoves ==
  ASSUME OutputInv, NEW s \in Stream, NEW p \in Seq(Byte), NEW w \in Seq(Byte),
         NEW rec \in Seq(Byte), NEW pu \in PumpStates, NEW j \in Seq(Entry),
         Len(p) <= Capacity, Len(rec) <= MaxRecord,
         pipe' = [pipe EXCEPT ![s] = p], written' = [written EXCEPT ![s] = w],
         record' = [record EXCEPT ![s] = rec], pump' = [pump EXCEPT ![s] = pu],
         journal' = [journal EXCEPT ![s] = j], failures' \in Seq(Stream),
         silent' \in {silent, silent \cup {s}},
         skipping' \in {skipping, skipping \cup {s}, skipping \ {s}},
         reader' \in {reader, reader \ {s}},
         open' = open, UNCHANGED <<faults, child, session>>,
         StreamHas(p, w, pu, rec, s \in skipping', s \in silent', j, s \in open)
  PROVE  OutputInv'
<1>0. Types BY DEF OutputInv
<1>1. /\ journal' \in [Stream -> Seq(Entry)]
      /\ silent' \subseteq Stream /\ skipping' \subseteq Stream /\ reader' \subseteq Stream
  BY <1>0 DEF Types, TypeOK, Shapes
<1>2. Types' BY <1>0, <1>1, StreamTypes
<1>3. ASSUME NEW t \in Stream PROVE Has(t)'
  <2>1. CASE t = s
    <3>1. /\ pipe'[s] = p /\ written'[s] = w /\ record'[s] = rec /\ pump'[s] = pu
          /\ journal'[s] = j
      BY <1>0 DEF Types, TypeOK, Shapes
    <3> QED BY <2>1, <3>1 DEF Has
  <2>2. CASE t # s
    <3>1. /\ pipe'[t] = pipe[t] /\ written'[t] = written[t] /\ record'[t] = record[t]
          /\ pump'[t] = pump[t] /\ journal'[t] = journal[t]
      BY <1>0, <2>2 DEF Types, TypeOK, Shapes
    <3>2. /\ (t \in silent') = (t \in silent) /\ (t \in skipping') = (t \in skipping)
          /\ open' = open
      BY <2>2
    <3>3. Has(t) BY DEF OutputInv
    <3> QED BY <3>1, <3>2, <3>3 DEF Has
  <2> QED BY <2>1, <2>2
<1> QED BY <1>2, <1>3 DEF OutputInv

LEMMA HasTold ==
  ASSUME OutputInv, NEW s \in Stream, pump[s] = "reads"
  PROVE  /\ Suffix(pipe[s], written[s])
         /\ s \notin silent =>
              Pumped(written[s], Len(written[s]) - Len(pipe[s]), journal[s], record[s],
                     s \in skipping)
BY DEF OutputInv, Has, StreamHas

LEMMA WriteHas ==
  ASSUME OutputInv, NEW s \in Stream, NEW b \in Byte, Write(s, b), UNCHANGED faults
  PROVE  OutputInv'
<1>0. Types /\ Has(s) BY DEF OutputInv
<1> DEFINE p == pipe[s]
           w == written[s]
<1>1. /\ p \in Seq(Byte) /\ w \in Seq(Byte) /\ record[s] \in Seq(Byte)
      /\ Len(record[s]) <= MaxRecord /\ journal[s] \in Seq(Entry) /\ pump[s] \in PumpStates
  BY <1>0, StreamTyped
<1>2. s \in open /\ Len(p) < Capacity BY DEF Write
<1>3. Append(p, b) \in Seq(Byte) /\ Append(w, b) \in Seq(Byte) /\ Len(Append(p, b)) <= Capacity
  BY <1>1, <1>2, LimitIsNat
<1>4. Suffix(p, w) BY <1>0 DEF Has, StreamHas
<1>5. /\ Suffix(Append(p, b), Append(w, b))
      /\ Len(Append(w, b)) - Len(Append(p, b)) = Len(w) - Len(p)
      /\ Len(w) - Len(p) \in 0..Len(w)
  BY <1>1, <1>4, SuffixWrite
<1>6. StreamHas(Append(p, b), Append(w, b), pump[s], record[s], s \in skipping,
                s \in silent, journal[s], s \in open)
  <2>1. pump[s] = "none" => s \in silent BY <1>0 DEF Has, StreamHas
  <2>2. ~(pump[s] = "done" /\ s \notin silent) BY <1>0, <1>2 DEF Has, StreamHas
  <2>3. ASSUME pump[s] = "reads", s \notin silent
        PROVE  Pumped(Append(w, b), Len(w) - Len(p), journal[s], record[s], s \in skipping)
    <3>1. Pumped(w, Len(w) - Len(p), journal[s], record[s], s \in skipping)
      BY <1>0, <2>3 DEF Has, StreamHas
    <3>2. (s \in skipping) \in BOOLEAN OBVIOUS
    <3> HIDE DEF p, w
    <3> QED BY <1>1, <1>5, <3>1, <3>2, PumpedStays
  <2> QED BY <1>5, <2>1, <2>2, <2>3 DEF StreamHas
<1>7. /\ record' = [record EXCEPT ![s] = record[s]] /\ pump' = [pump EXCEPT ![s] = pump[s]]
      /\ journal' = [journal EXCEPT ![s] = journal[s]]
      /\ UNCHANGED <<failures, silent, skipping, reader, open, child, session>>
  BY <1>0, Unmoved DEF Write, pumps
<1>8. /\ pipe' = [pipe EXCEPT ![s] = Append(p, b)]
      /\ written' = [written EXCEPT ![s] = Append(w, b)]
  BY DEF Write
<1>9. failures' \in Seq(Stream) BY <1>0, <1>7 DEF Types, TypeOK
<1>10. StreamHas(Append(p, b), Append(w, b), pump[s], record[s], s \in skipping',
                 s \in silent', journal[s], s \in open)
  BY <1>6, <1>7
<1> HIDE DEF p, w
<1> QED BY <1>1, <1>3, <1>7, <1>8, <1>9, <1>10, StreamMoves

LEMMA OpenShrinks ==
  ASSUME OutputInv, open' \subseteq open, child' \in {"runs", "zombie", "reaped"},
         UNCHANGED <<faults, pipe, written, pumps, failures, session>>
  PROVE  OutputInv'
<1>1. Types' BY DEF OutputInv, Types, TypeOK, Shapes, pumps, session
<1>2. ASSUME NEW t \in Stream PROVE Has(t)'
  <2>1. Has(t) BY DEF OutputInv
  <2>2. t \in open' => t \in open OBVIOUS
  <2>3. /\ pipe' = pipe /\ written' = written /\ record' = record /\ pump' = pump
        /\ journal' = journal /\ silent' = silent /\ skipping' = skipping
    BY DEF pumps
  <2> QED BY <2>1, <2>2, <2>3 DEF Has, StreamHas
<1> QED BY <1>1, <1>2 DEF OutputInv

LEMMA ChildExitsHas ==
  ASSUME OutputInv, ChildExits, UNCHANGED faults
  PROVE  OutputInv'
BY OpenShrinks DEF ChildExits

LEMMA ClosesHas ==
  ASSUME OutputInv, NEW s \in Stream, Closes(s), UNCHANGED faults
  PROVE  OutputInv'
<1>1. child \in {"runs", "zombie", "reaped"} BY DEF OutputInv, Types, TypeOK
<1> QED BY <1>1, OpenShrinks DEF Closes

\* The main thread
LEMMA SessionMoves ==
  ASSUME OutputInv, UNCHANGED <<faults, outputs, pumps>>,
         child' \in {"runs", "zombie", "reaped"}, failures' \in Seq(Stream),
         main' \in {"loop", "reap", "waits", "end"}, failed' \in BOOLEAN,
         named' \subseteq Stream
  PROVE  OutputInv'
<1>1. Types' BY DEF OutputInv, Types, TypeOK, Shapes, pumps, outputs
<1>2. ASSUME NEW t \in Stream PROVE Has(t)'
  <2>1. Has(t) BY DEF OutputInv
  <2> QED BY <2>1 DEF Has, StreamHas, pumps, outputs
<1> QED BY <1>1, <1>2 DEF OutputInv

LEMMA HearTypes ==
  ASSUME Types, NEW list \in Seq(Stream), NEW then, Hear(list, then)
  PROVE  /\ failures' \in Seq(Stream) /\ failed' \in BOOLEAN
         /\ named' \subseteq Stream
<1>1. <<>> \in Seq(Stream) BY ShortSeqs
<1>2. ToSet(list) \subseteq Stream BY DEF ToSet
<1>3. failed \in BOOLEAN /\ named \subseteq Stream BY DEF Types, TypeOK
<1> QED BY <1>1, <1>2, <1>3 DEF Hear

LEMMA LateFailuresType ==
  ASSUME Types
  PROVE  /\ LateFailures \o NotJoined \in Seq(Stream)
         /\ ToSet(LateFailures \o NotJoined) =
              ToSet(failures) \cup {s \in Stream : pump[s] = "none"}
<1>1. /\ failures \in Seq(Stream) /\ NotJoined \in Seq(Stream)
      /\ ToSet(NotJoined) = {s \in Stream : pump[s] = "none"}
  BY NotJoinedType DEF Types, TypeOK
<1>2. \A f \in Seq(Stream), g \in Seq(Stream) :
        f \o g \in Seq(Stream) /\ ToSet(f \o g) = ToSet(f) \cup ToSet(g)
  <2> TAKE f \in Seq(Stream), g \in Seq(Stream)
  <2>1. f \o g \in Seq(Stream) /\ Len(f \o g) = Len(f) + Len(g) OBVIOUS
  <2>2. ToSet(f) \subseteq ToSet(f \o g)
    <3> SUFFICES ASSUME NEW i \in 1..Len(f)
                 PROVE  f[i] \in ToSet(f \o g)
      BY DEF ToSet
    <3>1. i \in DOMAIN (f \o g) /\ (f \o g)[i] = f[i] BY <2>1
    <3> QED BY <3>1 DEF ToSet
  <2>3. ToSet(g) \subseteq ToSet(f \o g)
    <3> SUFFICES ASSUME NEW i \in 1..Len(g)
                 PROVE  g[i] \in ToSet(f \o g)
      BY SMTT(60) DEF ToSet
    <3>1. (Len(f) + i) \in DOMAIN (f \o g) /\ (f \o g)[Len(f) + i] = g[i] BY <2>1
    <3> QED BY <3>1 DEF ToSet
  <2>4. ToSet(f \o g) \subseteq ToSet(f) \cup ToSet(g)
    <3> SUFFICES ASSUME NEW i \in 1..(Len(f) + Len(g))
                 PROVE  (f \o g)[i] \in ToSet(f) \cup ToSet(g)
      BY <2>1 DEF ToSet
    <3>1. CASE i <= Len(f)
      <4>1. i \in DOMAIN f /\ (f \o g)[i] = f[i] BY <3>1
      <4> QED BY <4>1 DEF ToSet
    <3>2. CASE ~(i <= Len(f))
      <4>1. (i - Len(f)) \in DOMAIN g /\ (f \o g)[i] = g[i - Len(f)] BY <3>2
      <4> QED BY <4>1 DEF ToSet
    <3> QED BY <3>1, <3>2
  <2> QED BY <2>1, <2>2, <2>3, <2>4
<1> QED BY <1>1, <1>2 DEF LateFailures

LEMMA MainThreadHas ==
  ASSUME OutputInv, MainThread, UNCHANGED faults
  PROVE  OutputInv'
<1>0. Types BY DEF OutputInv
<1>1. /\ child \in {"runs", "zombie", "reaped"} /\ failures \in Seq(Stream)
      /\ main \in {"loop", "reap", "waits", "end"} /\ failed \in BOOLEAN
      /\ named \subseteq Stream
  BY <1>0 DEF Types, TypeOK
<1>2. CASE HearFailures
  <2>1. failures' \in Seq(Stream) /\ failed' \in BOOLEAN /\ named' \subseteq Stream
    BY <1>0, <1>1, <1>2, HearTypes DEF HearFailures
  <2> QED BY <1>1, <1>2, <2>1, SessionMoves DEF HearFailures
<1>3. CASE ReapChild
  <2>1. /\ child' \in {"runs", "zombie", "reaped"} /\ main' \in {"loop", "reap", "waits", "end"}
        /\ UNCHANGED <<outputs, pumps, failures, failed, named>>
    BY <1>1, <1>3 DEF ReapChild
  <2> QED BY <1>1, <2>1, SessionMoves
<1>4. CASE WaitChild
  BY <1>1, <1>4, SessionMoves DEF WaitChild
<1>5. CASE FinishChild
  <2>1. LateFailures \o NotJoined \in Seq(Stream) BY <1>0, LateFailuresType
  <2>2. /\ \E then : Hear(LateFailures \o NotJoined, then)
        /\ main' = "end" /\ UNCHANGED <<child, outputs, pumps>>
    BY <1>5 DEF FinishChild
  <2>3. failures' \in Seq(Stream) /\ failed' \in BOOLEAN /\ named' \subseteq Stream
    BY <1>0, <2>1, <2>2, HearTypes
  <2> QED BY <1>1, <2>2, <2>3, SessionMoves
<1> QED BY <1>2, <1>3, <1>4, <1>5 DEF MainThread

-----------------------------------------------------------------------------
(* Steps of a pump *)

\* What the step of a pump that writes nothing must leave behind
LEMMA PumpMoves ==
  ASSUME OutputInv, NEW s \in Stream, NEW p \in Seq(Byte), NEW rec \in Seq(Byte),
         NEW pu \in PumpStates, NEW j \in Seq(Entry),
         Len(p) <= Capacity, Len(rec) <= MaxRecord, Suffix(p, written[s]), pu # "none",
         pipe' = [pipe EXCEPT ![s] = p], record' = [record EXCEPT ![s] = rec],
         pump' = [pump EXCEPT ![s] = pu], journal' = [journal EXCEPT ![s] = j],
         failures' \in Seq(Stream), silent' \in {silent, silent \cup {s}},
         skipping' \in {skipping, skipping \cup {s}, skipping \ {s}},
         reader' \in {reader, reader \ {s}},
         UNCHANGED <<faults, child, open, written, session>>,
         s \notin silent' /\ pu = "reads" =>
           Pumped(written[s], Len(written[s]) - Len(p), j, rec, s \in skipping'),
         s \notin silent' /\ pu = "done" =>
           s \notin open /\ Transcribes(j, written[s])
  PROVE  OutputInv'
<1>0. Types BY DEF OutputInv
<1>1. written' = [written EXCEPT ![s] = written[s]] /\ written[s] \in Seq(Byte)
  BY <1>0, Unmoved, StreamTyped
<1>2. StreamHas(p, written[s], pu, rec, s \in skipping', s \in silent', j, s \in open)
  BY DEF StreamHas
<1> QED BY <1>1, <1>2, StreamMoves

LEMMA EmitMoves ==
  ASSUME Types, NEW s \in Stream, NEW x \in Entry, Emit(s, x)
  PROVE  /\ failures' \in Seq(Stream)
         /\ \/ /\ journal' = [journal EXCEPT ![s] = Append(journal[s], x)]
               /\ silent' = silent /\ Append(journal[s], x) \in Seq(Entry)
            \/ /\ journal' = [journal EXCEPT ![s] = journal[s]]
               /\ silent' = silent \cup {s}
<1>1. journal[s] \in Seq(Entry) BY StreamTyped
<1>2. Append(journal[s], x) \in Seq(Entry) BY <1>1
<1> QED BY <1>2, EmitTypes, EmitDoes, Unmoved

LEMMA PumpByteHas ==
  ASSUME OutputInv, NEW s \in Stream, PumpByte(s), UNCHANGED faults
  PROVE  OutputInv'
<1> DEFINE w == written[s]
           p == pipe[s]
           q == Tail(p)
           n == Len(w) - Len(p)
           rec == record[s]
           j == journal[s]
           entry == RecordEntry(rec)
<1>0. Types BY DEF OutputInv
<1>1. /\ p \in Seq(Byte) /\ Len(p) <= Capacity /\ w \in Seq(Byte)
      /\ rec \in Seq(Byte) /\ Len(rec) <= MaxRecord /\ j \in Seq(Entry)
      /\ failures \in Seq(Stream)
  BY <1>0, StreamTyped DEF Types, TypeOK
<1>2. pump[s] = "reads" /\ p # <<>> BY DEF PumpByte, Reads
<1>3. /\ Suffix(p, w)
      /\ s \notin silent => Pumped(w, n, j, rec, s \in skipping)
  BY <1>2, HasTold
<1>4. /\ q \in Seq(Byte) /\ Head(p) \in Byte /\ Len(q) <= Len(p) /\ Suffix(q, w)
      /\ n \in 0..(Len(w) - 1) /\ Len(w) - Len(q) = n + 1 /\ w[n + 1] = Head(p)
  BY <1>1, <1>2, <1>3, SuffixTail
<1>5. Len(q) <= Capacity BY <1>1, <1>4, LimitIsNat
<1>6. /\ pipe' = [pipe EXCEPT ![s] = q] /\ pump' = [pump EXCEPT ![s] = "reads"]
      /\ reader' = reader /\ UNCHANGED <<child, open, written, session>>
  BY <1>0, <1>2, Unmoved DEF PumpByte
<1>7. "reads" \in PumpStates /\ "reads" # "none" /\ "reads" # "done" BY DEF PumpStates
<1>8. /\ <<>> \in Seq(Byte) /\ Len(<<>>) <= MaxRecord
      /\ entry \in Entry /\ <<"too long">> \in Entry /\ TooLong = <<"too long">>
  <2>1. entry \in Entry BY <1>1, RecordEntryType
  <2>2. <<>> \in Seq(Byte) /\ Len(<<>>) <= MaxRecord BY ShortSeqs, LimitIsNat
  <2> QED BY <2>1, <2>2 DEF Entry, TooLong
<1> HIDE DEF w, p, q, n, rec, j, entry
\* What is left to show once the step is known
<1>9. ASSUME NEW r \in Seq(Byte), NEW i \in Seq(Entry), Len(r) <= MaxRecord,
             record' = [record EXCEPT ![s] = r], journal' = [journal EXCEPT ![s] = i],
             failures' \in Seq(Stream), silent' \in {silent, silent \cup {s}},
             skipping' \in {skipping, skipping \cup {s}, skipping \ {s}},
             s \notin silent' => Pumped(w, n + 1, i, r, s \in skipping')
      PROVE  OutputInv'
  <2>1. s \notin silent' /\ "reads" = "reads" =>
          Pumped(written[s], Len(written[s]) - Len(q), i, r, s \in skipping')
    BY <1>4, <1>9 DEF w
  <2>2. s \notin silent' /\ "reads" = "done" => s \notin open /\ Transcribes(i, written[s])
    BY <1>7
  <2>3. Suffix(q, written[s]) BY <1>4 DEF w
  <2> QED BY <1>4, <1>5, <1>6, <1>7, <1>9, <2>1, <2>2, <2>3, PumpMoves
<1>10. CASE Head(p) = "nl" /\ (s \in skipping \/ s \in silent)
  <2>1. /\ record' = [record EXCEPT ![s] = <<>>] /\ skipping' = skipping \ {s}
        /\ failures' = failures /\ silent' = silent /\ journal' = journal
    BY <1>10 DEF PumpByte, Collected, Quiet, p
  <2>2. journal' = [journal EXCEPT ![s] = j] BY <1>0, <2>1, Unmoved DEF j
  <2>3. ASSUME s \notin silent' PROVE Pumped(w, n + 1, j, <<>>, s \in skipping')
    <3>1. Pumped(w, n, j, rec, TRUE)
      <4>1. s \in skipping /\ s \notin silent BY <1>10, <2>1, <2>3
      <4>2. (s \in skipping) = TRUE BY <4>1
      <4> QED BY <1>3, <4>1, <4>2
    <3>2. Pumped(w, n + 1, IF TRUE THEN j ELSE Append(j, RecordEntry(rec)), <<>>, FALSE)
      BY <1>1, <1>4, <1>10, <3>1, PumpedEndOfLine
    <3>3. (s \in skipping') = FALSE BY <2>1
    <3> QED BY <3>2, <3>3
  <2> QED BY <1>1, <1>8, <1>9, <2>1, <2>2, <2>3
<1>11. CASE Head(p) = "nl" /\ s \notin skipping /\ s \notin silent
  <2>1. /\ record' = [record EXCEPT ![s] = <<>>] /\ skipping' = skipping \ {s}
        /\ Emit(s, entry)
    BY <1>11 DEF PumpByte, Collected, p, entry, rec
  <2>2. /\ failures' \in Seq(Stream)
        /\ \/ /\ journal' = [journal EXCEPT ![s] = Append(j, entry)]
              /\ silent' = silent /\ Append(j, entry) \in Seq(Entry)
           \/ /\ journal' = [journal EXCEPT ![s] = j]
              /\ silent' = silent \cup {s}
    BY <1>0, <1>8, <2>1, EmitMoves DEF j
  <2>3. (s \in skipping') = FALSE BY <2>1
  <2>4. CASE /\ journal' = [journal EXCEPT ![s] = Append(j, entry)]
             /\ silent' = silent /\ Append(j, entry) \in Seq(Entry)
    <3>1. Pumped(w, n, j, rec, FALSE)
      <4>1. (s \in skipping) = FALSE BY <1>11
      <4> QED BY <1>3, <1>11, <4>1
    <3>2. Pumped(w, n + 1, IF FALSE THEN j ELSE Append(j, RecordEntry(rec)), <<>>, FALSE)
      BY <1>1, <1>4, <1>11, <3>1, PumpedEndOfLine
    <3>3. Pumped(w, n + 1, Append(j, entry), <<>>, s \in skipping')
      BY <2>3, <3>2 DEF entry
    <3> QED BY <1>8, <1>9, <2>1, <2>2, <2>4, <3>3
  <2>5. CASE journal' = [journal EXCEPT ![s] = j] /\ silent' = silent \cup {s}
    BY <1>1, <1>8, <1>9, <2>1, <2>2, <2>5
  <2> QED BY <2>2, <2>4, <2>5
<1>12. CASE Head(p) # "nl" /\ (s \in skipping \/ s \in silent)
  <2>1. /\ failures' = failures /\ silent' = silent /\ skipping' = skipping
        /\ journal' = journal /\ record' = record
    BY <1>12 DEF PumpByte, Quiet, p
  <2>2. journal' = [journal EXCEPT ![s] = j] /\ record' = [record EXCEPT ![s] = rec]
    BY <1>0, <2>1, Unmoved DEF j, rec
  <2>3. ASSUME s \notin silent' PROVE Pumped(w, n + 1, j, rec, s \in skipping')
    <3>1. (s \in skipping) = TRUE /\ (s \in skipping') = TRUE BY <1>12, <2>1, <2>3
    <3>2. Pumped(w, n, j, rec, TRUE) BY <1>3, <2>1, <2>3, <3>1
    <3>3. Pumped(w, n + 1, j, rec, TRUE) BY <1>1, <1>4, <1>12, <3>2, PumpedSkips
    <3> QED BY <3>1, <3>3
  <2> QED BY <1>1, <1>9, <2>1, <2>2, <2>3
<1>13. CASE Head(p) # "nl" /\ s \notin skipping /\ s \notin silent /\ Full(rec)
  <2>1. /\ record' = [record EXCEPT ![s] = <<>>] /\ skipping' = skipping \cup {s}
        /\ Emit(s, <<"too long">>)
    BY <1>13 DEF PumpByte, Collected, p, rec
  <2>2. /\ failures' \in Seq(Stream)
        /\ \/ /\ journal' = [journal EXCEPT ![s] = Append(j, TooLong)]
              /\ silent' = silent /\ Append(j, TooLong) \in Seq(Entry)
           \/ /\ journal' = [journal EXCEPT ![s] = j]
              /\ silent' = silent \cup {s}
    BY <1>0, <1>8, <2>1, EmitMoves DEF j
  <2>4. CASE /\ journal' = [journal EXCEPT ![s] = Append(j, TooLong)]
             /\ silent' = silent /\ Append(j, TooLong) \in Seq(Entry)
    <3>1. Pumped(w, n, j, rec, FALSE)
      <4>1. (s \in skipping) = FALSE BY <1>13
      <4> QED BY <1>3, <1>13, <4>1
    <3>2. Pumped(w, n + 1, Append(j, TooLong), <<>>, TRUE)
      BY <1>1, <1>4, <1>13, <3>1, PumpedFull
    <3>3. (s \in skipping') = TRUE BY <2>1
    <3>4. Pumped(w, n + 1, Append(j, TooLong), <<>>, s \in skipping')
      BY <3>2, <3>3
    <3> QED BY <1>8, <1>9, <2>1, <2>2, <2>4, <3>4
  <2>5. CASE journal' = [journal EXCEPT ![s] = j] /\ silent' = silent \cup {s}
    BY <1>1, <1>8, <1>9, <2>1, <2>2, <2>5
  <2> QED BY <2>2, <2>4, <2>5
<1>14. CASE Head(p) # "nl" /\ s \notin skipping /\ s \notin silent /\ ~Full(rec)
  <2> DEFINE r == Append(rec, Head(p))
  <2>1. /\ record' = [record EXCEPT ![s] = r] /\ skipping' = skipping \ {s}
        /\ failures' = failures /\ silent' = silent /\ journal' = journal
    BY <1>14 DEF PumpByte, Collected, Quiet, p, rec
  <2>2. journal' = [journal EXCEPT ![s] = j] BY <1>0, <2>1, Unmoved DEF j
  <2>3. r \in Seq(Byte) /\ Len(r) <= MaxRecord
    BY <1>1, <1>4, <1>14, LimitIsNat DEF Full
  <2>4. Pumped(w, n, j, rec, FALSE)
    <3>1. (s \in skipping) = FALSE BY <1>14
    <3> QED BY <1>3, <1>14, <3>1
  <2>5. Pumped(w, n + 1, j, Append(rec, w[n + 1]), FALSE)
    BY <1>1, <1>4, <1>14, <2>4, PumpedCollects
  <2>6. (s \in skipping') = FALSE BY <2>1
  <2>7. Pumped(w, n + 1, j, r, s \in skipping') BY <1>4, <2>5, <2>6
  <2> HIDE DEF r
  <2> QED BY <1>1, <1>9, <2>1, <2>2, <2>3, <2>7
<1> QED BY <1>10, <1>11, <1>12, <1>13, <1>14

LEMMA PumpEndsHas ==
  ASSUME OutputInv, NEW s \in Stream, PumpEnds(s), UNCHANGED faults
  PROVE  OutputInv'
<1> DEFINE w == written[s]
           rec == record[s]
           j == journal[s]
           entry == RecordEntry(rec)
<1>0. Types BY DEF OutputInv
<1>1. /\ pipe[s] \in Seq(Byte) /\ Len(pipe[s]) <= Capacity /\ w \in Seq(Byte)
      /\ rec \in Seq(Byte) /\ Len(rec) <= MaxRecord /\ j \in Seq(Entry)
      /\ failures \in Seq(Stream)
  BY <1>0, StreamTyped DEF Types, TypeOK
<1>2. pump[s] = "reads" /\ pipe[s] = <<>> /\ s \notin open BY DEF PumpEnds, Reads
<1>3. /\ Suffix(pipe[s], w)
      /\ s \notin silent => Pumped(w, Len(w), j, rec, s \in skipping)
  <2>1. Len(w) - Len(pipe[s]) = Len(w) BY <1>1, <1>2
  <2> QED BY <1>2, <2>1, HasTold
<1>4. s \notin silent =>
        Transcribes(IF s \in skipping \/ rec = <<>> THEN j ELSE Append(j, entry), w)
  <2>1. (s \in skipping) \in BOOLEAN OBVIOUS
  <2> HIDE DEF w, rec, j
  <2> QED BY <1>1, <1>3, <2>1, PumpedAll
<1>5. entry \in Entry BY <1>1, RecordEntryType
<1>6. "done" \in PumpStates /\ "done" # "none" /\ "done" # "reads" BY DEF PumpStates
<1>7. /\ pipe' = [pipe EXCEPT ![s] = pipe[s]] /\ record' = [record EXCEPT ![s] = rec]
      /\ pump' = [pump EXCEPT ![s] = "done"] /\ reader' = reader \ {s}
      /\ skipping' = skipping /\ UNCHANGED <<child, open, written, session>>
  BY <1>0, Unmoved DEF PumpEnds, outputs
<1> HIDE DEF w, rec, j, entry
<1>8. ASSUME NEW i \in Seq(Entry), journal' = [journal EXCEPT ![s] = i],
             failures' \in Seq(Stream), silent' \in {silent, silent \cup {s}},
             s \notin silent' => Transcribes(i, w)
      PROVE  OutputInv'
  <2>1. s \notin silent' /\ "done" = "done" => s \notin open /\ Transcribes(i, written[s])
    BY <1>2, <1>8 DEF w
  <2>2. s \notin silent' /\ "done" = "reads" =>
          Pumped(written[s], Len(written[s]) - Len(pipe[s]), i, rec, s \in skipping')
    BY <1>6
  <2>3. Suffix(pipe[s], written[s]) BY <1>3 DEF w
  <2> QED BY <1>1, <1>6, <1>7, <1>8, <2>1, <2>2, <2>3, PumpMoves
<1>9. CASE s \in silent \/ s \in skipping \/ rec = <<>>
  <2>1. failures' = failures /\ silent' = silent /\ journal' = journal
    BY <1>9 DEF PumpEnds, EmitLast, Quiet, rec
  <2>2. journal' = [journal EXCEPT ![s] = j] BY <1>0, <2>1, Unmoved DEF j
  <2>3. s \notin silent' => Transcribes(j, w) BY <1>4, <1>9, <2>1
  <2> QED BY <1>1, <1>8, <2>1, <2>2, <2>3
<1>10. CASE ~(s \in silent \/ s \in skipping \/ rec = <<>>)
  <2>1. Emit(s, entry) BY <1>10 DEF PumpEnds, EmitLast, rec, entry
  <2>2. /\ failures' \in Seq(Stream)
        /\ \/ /\ journal' = [journal EXCEPT ![s] = Append(j, entry)]
              /\ silent' = silent /\ Append(j, entry) \in Seq(Entry)
           \/ /\ journal' = [journal EXCEPT ![s] = j]
              /\ silent' = silent \cup {s}
    BY <1>0, <1>5, <2>1, EmitMoves DEF j
  <2>3. Transcribes(Append(j, entry), w) BY <1>4, <1>10
  <2> QED BY <1>1, <1>8, <2>2, <2>3
<1> QED BY <1>9, <1>10

\* A pump that gives up on its pipe: what is left of it goes unread
LEMMA PumpGivesUp ==
  ASSUME OutputInv, NEW s \in Stream, NEW p \in Seq(Byte), NEW pu \in {"drains", "done"},
         Len(p) <= Capacity, Suffix(p, written[s]),
         pipe' = [pipe EXCEPT ![s] = p], pump' = [pump EXCEPT ![s] = pu],
         failures' \in Seq(Stream), silent' \in {silent, silent \cup {s}},
         pu = "done" => s \in silent',
         reader' \in {reader, reader \ {s}},
         UNCHANGED <<faults, child, open, written, record, skipping, journal, session>>
  PROVE  OutputInv'
<1>0. Types BY DEF OutputInv
<1>1. /\ record[s] \in Seq(Byte) /\ Len(record[s]) <= MaxRecord /\ journal[s] \in Seq(Entry)
      /\ record' = [record EXCEPT ![s] = record[s]]
      /\ journal' = [journal EXCEPT ![s] = journal[s]]
  BY <1>0, StreamTyped, Unmoved
<1>2. pu \in PumpStates /\ pu # "none" /\ pu # "reads" BY DEF PumpStates
<1> QED BY <1>1, <1>2, PumpMoves

LEMMA PumpFailsHas ==
  ASSUME OutputInv, NEW s \in Stream, UNCHANGED faults,
         PumpReadFails(s) \/ PumpPanics(s) \/ Drain(s)
  PROVE  OutputInv'
<1>0. Types /\ failures \in Seq(Stream) BY DEF OutputInv, Types, TypeOK
<1>1. /\ pipe[s] \in Seq(Byte) /\ Len(pipe[s]) <= Capacity /\ written[s] \in Seq(Byte)
      /\ Suffix(pipe[s], written[s]) /\ pipe = [pipe EXCEPT ![s] = pipe[s]]
      /\ pump = [pump EXCEPT ![s] = pump[s]]
  BY <1>0, StreamTyped, Unmoved DEF OutputInv, Has, StreamHas
<1>2. pipe[s] # <<>> => /\ Tail(pipe[s]) \in Seq(Byte) /\ Len(Tail(pipe[s])) <= Capacity
                        /\ Suffix(Tail(pipe[s]), written[s])
  <2>1. pipe[s] # <<>> => /\ Tail(pipe[s]) \in Seq(Byte) /\ Len(Tail(pipe[s])) <= Len(pipe[s])
                          /\ Suffix(Tail(pipe[s]), written[s])
    BY <1>1, SuffixTail
  <2>2. pipe[s] # <<>> => Len(Tail(pipe[s])) <= Capacity BY <1>1, <2>1, LimitIsNat
  <2> QED BY <2>1, <2>2
<1>3. CASE PumpReadFails(s)
  <2>1. /\ silent' \in {silent, silent \cup {s}} /\ s \in silent'
        /\ failures' \in Seq(Stream)
    BY <1>0, <1>3 DEF PumpReadFails, Quiet, Report
  <2>2. /\ pump' = [pump EXCEPT ![s] = "done"] /\ reader' = reader
        /\ UNCHANGED <<child, open, pipe, written, record, skipping, journal, session>>
    BY <1>3 DEF PumpReadFails, ForgetReader, outputs
  <2> QED BY <1>1, <2>1, <2>2, PumpGivesUp
<1>4. CASE PumpPanics(s)
  BY <1>0, <1>2, <1>4, PumpGivesUp DEF PumpPanics
<1>5. CASE Drain(s)
  <2>1. /\ pump[s] = "drains"
        /\ UNCHANGED <<child, open, written, record, skipping, journal, session>>
    BY <1>5 DEF Drain
  <2>2. CASE /\ pipe[s] # <<>> /\ pipe' = [pipe EXCEPT ![s] = Tail(@)]
             /\ UNCHANGED <<pump, reader, failures, silent>>
    <3>1. pump' = [pump EXCEPT ![s] = "drains"] BY <1>1, <2>1, <2>2
    <3> QED BY <1>0, <1>2, <2>1, <2>2, <3>1, PumpGivesUp
  <2>3. CASE /\ reader' \in {reader, reader \ {s}} /\ pump' = [pump EXCEPT ![s] = "done"]
             /\ Report(s) /\ UNCHANGED pipe
    <3>1. /\ silent' \in {silent, silent \cup {s}} /\ s \in silent'
          /\ failures' \in Seq(Stream)
      BY <1>0, <2>3 DEF Report
    <3>2. pipe' = [pipe EXCEPT ![s] = pipe[s]] BY <1>1, <2>3
    <3> QED BY <1>1, <2>1, <2>3, <3>1, <3>2, PumpGivesUp
  <2> QED BY <1>5, <2>2, <2>3 DEF Drain, ForgetReader
<1> QED BY <1>3, <1>4, <1>5

LEMMA InitHas == Init => OutputInv
<1> SUFFICES ASSUME Init PROVE OutputInv OBVIOUS
<1>1. Types BY InitTypes
<1>2. ASSUME NEW s \in Stream PROVE Has(s)
  <2>1. /\ pipe[s] = <<>> /\ written[s] = <<>> /\ record[s] = <<>> /\ journal[s] = <<>>
        /\ s \notin skipping /\ (s \in silent <=> pump[s] = "none")
        /\ pump[s] \in {"none", "reads"}
    BY DEF Init
  <2>2. <<>> \in Seq(Byte) /\ Len(<<>>) = 0 BY ShortSeqs
  <2>3. Suffix(<<>>, <<>>) BY <2>2 DEF Suffix
  <2>4. (s \in skipping) = FALSE /\ Len(<<>>) - Len(<<>>) = 0 BY <2>1, <2>2
  <2>5. Pumped(<<>>, Len(<<>>) - Len(<<>>), <<>>, <<>>, s \in skipping)
    BY <2>2, <2>4, PumpedNothing
  <2> QED BY <2>1, <2>3, <2>5 DEF Has, StreamHas
<1> QED BY <1>1, <1>2 DEF OutputInv

LEMMA NextHas == OutputInv /\ [Next]_vars => OutputInv'
<1> SUFFICES ASSUME OutputInv, [Next]_vars PROVE OutputInv' OBVIOUS
<1>1. CASE UNCHANGED vars
  <2>1. /\ UNCHANGED <<faults, outputs, pumps, child, failures, main, failed, named>>
    BY <1>1 DEF vars, session
  <2>2. /\ child \in {"runs", "zombie", "reaped"} /\ failures \in Seq(Stream)
        /\ main \in {"loop", "reap", "waits", "end"} /\ failed \in BOOLEAN
        /\ named \subseteq Stream
    BY DEF OutputInv, Types, TypeOK
  <2> QED BY <2>1, <2>2, SessionMoves
<1>2. CASE Next
  <2>1. UNCHANGED faults BY <1>2 DEF Next
  <2>2. CASE ChildExits BY <2>1, <2>2, ChildExitsHas
  <2>3. CASE MainThread BY <2>1, <2>3, MainThreadHas
  <2>4. ASSUME NEW s \in Stream, Closes(s) \/ Pump(s) \/ \E byte \in Byte : Write(s, byte)
        PROVE  OutputInv'
    BY <2>1, <2>4, ClosesHas, WriteHas, PumpByteHas, PumpEndsHas, PumpFailsHas DEF Pump
  <2> QED BY <1>2, <2>2, <2>3, <2>4 DEF Next
<1> QED BY <1>1, <1>2

-----------------------------------------------------------------------------
(* Counting the frames that were sent                                       *)

EventOp == {"childExited", "sanitizerFailed", "finished"}
Event   == [op : EventOp, failed : BOOLEAN]

Sent(list, op) == {i \in DOMAIN list : list[i].op = op}
Times(list, op) == Cardinality(Sent(list, op))

LEMMA SentFacts ==
  ASSUME NEW list \in Seq(Event), NEW op
  PROVE  /\ Sent(list, op) \subseteq 1..Len(list)
         /\ IsFiniteSet(Sent(list, op)) /\ Times(list, op) \in Nat
<1>1. Sent(list, op) \subseteq 1..Len(list) BY DEF Sent
<1>2. IsFiniteSet(1..Len(list)) BY FS_Interval
<1> QED BY <1>1, <1>2, FS_Subset, FS_CardinalityType DEF Times

LEMMA SendOne ==
  ASSUME NEW list \in Seq(Event), NEW e \in Event, NEW op
  PROVE  /\ Sent(Append(list, e), op) =
              IF e.op = op THEN Sent(list, op) \cup {Len(list) + 1} ELSE Sent(list, op)
         /\ Times(Append(list, e), op) =
              IF e.op = op THEN Times(list, op) + 1 ELSE Times(list, op)
<1>1. /\ DOMAIN Append(list, e) = 1..(Len(list) + 1)
      /\ \A i \in 1..Len(list) : Append(list, e)[i] = list[i]
      /\ Append(list, e)[Len(list) + 1] = e
      /\ DOMAIN list = 1..Len(list) /\ Len(list) \in Nat
  OBVIOUS
<1>2. Sent(Append(list, e), op) =
        IF e.op = op THEN Sent(list, op) \cup {Len(list) + 1} ELSE Sent(list, op)
  <2> DEFINE both == Append(list, e)
  <2>1. \A i \in 1..(Len(list) + 1) : i \in 1..Len(list) \/ i = Len(list) + 1
    BY <1>1
  <2>2. 1..Len(list) \subseteq 1..(Len(list) + 1) /\ Len(list) + 1 \in 1..(Len(list) + 1)
    BY <1>1
  <2>3. Len(list) + 1 \notin 1..Len(list) BY <1>1
  <2> HIDE DEF both
  <2>4. /\ DOMAIN both = 1..(Len(list) + 1)
        /\ \A i \in 1..Len(list) : both[i] = list[i]
        /\ both[Len(list) + 1] = e
    BY <1>1 DEF both
  <2>5. Sent(both, op) =
          IF e.op = op THEN Sent(list, op) \cup {Len(list) + 1} ELSE Sent(list, op)
    BY <1>1, <2>1, <2>2, <2>3, <2>4 DEF Sent
  <2> QED BY <2>5 DEF both
<1>3. Len(list) + 1 \notin Sent(list, op)
  <2>1. Len(list) + 1 \notin 1..Len(list) BY <1>1
  <2> QED BY <2>1, SentFacts
<1>4. Cardinality(Sent(list, op) \cup {Len(list) + 1}) = Cardinality(Sent(list, op)) + 1
  BY <1>3, SentFacts, FS_AddElement
<1> QED BY <1>2, <1>4 DEF Times

LEMMA SendNews ==
  ASSUME NEW list \in Seq(Event), NEW news \in Seq(Event),
         \A i \in 1..Len(news) : news[i].op = "sanitizerFailed"
  PROVE  /\ list \o news \in Seq(Event)
         /\ Times(list \o news, "sanitizerFailed") = Times(list, "sanitizerFailed") + Len(news)
         /\ \A op : op # "sanitizerFailed" => Sent(list \o news, op) = Sent(list, op)
<1> DEFINE both == list \o news
           n == Len(list)
           k == Len(news)
           new == (n + 1)..(n + k)
<1>1. /\ both \in Seq(Event) /\ n \in Nat /\ k \in Nat
      /\ DOMAIN both = 1..(n + k) /\ DOMAIN list = 1..n
      /\ \A i \in 1..n : both[i] = list[i]
      /\ \A i \in new : both[i] = news[i - n]
  OBVIOUS
<1>2. \A i \in 1..(n + k) : i \in 1..n \/ i \in new BY <1>1
<1>3. 1..n \subseteq 1..(n + k) /\ new \subseteq 1..(n + k) /\ 1..n \cap new = {}
  BY <1>1
<1>4. \A i \in new : both[i].op = "sanitizerFailed"
  <2> SUFFICES ASSUME NEW i \in new PROVE both[i].op = "sanitizerFailed" OBVIOUS
  <2>1. i - n \in 1..k BY <1>1
  <2>2. both[i] = news[i - n] BY <1>1
  <2> QED BY <2>1, <2>2
<1>5. IsFiniteSet(new) /\ Cardinality(new) = k
  <2>1. n + 1 \in Int /\ n + k \in Int BY <1>1
  <2>2. IsFiniteSet(new)
        /\ Cardinality(new) = IF n + 1 > n + k THEN 0 ELSE (n + k) - (n + 1) + 1
    BY <2>1, FS_Interval
  <2>3. (IF n + 1 > n + k THEN 0 ELSE (n + k) - (n + 1) + 1) = k BY <1>1
  <2> QED BY <2>2, <2>3
<1> HIDE DEF both, n, k, new
<1>6. Sent(both, "sanitizerFailed") = Sent(list, "sanitizerFailed") \cup new
  BY <1>1, <1>2, <1>3, <1>4 DEF Sent
<1>7. \A op : op # "sanitizerFailed" => Sent(both, op) = Sent(list, op)
  BY <1>1, <1>2, <1>3, <1>4 DEF Sent
<1>8. Times(both, "sanitizerFailed") = Times(list, "sanitizerFailed") + k
  <2> DEFINE S == Sent(list, "sanitizerFailed")
  <2>1. IsFiniteSet(S) /\ Cardinality(S) \in Nat /\ S \subseteq 1..n
    BY SentFacts DEF Times, n
  <2>2. S \cap new = {} BY <1>3, <2>1
  <2> HIDE DEF S
  <2>3. Cardinality(S \cup new) = Cardinality(S) + Cardinality(new) - Cardinality(S \cap new)
    BY <1>5, <2>1, FS_Union
  <2>4. Cardinality(S \cap new) = 0 BY <2>2, FS_EmptySet
  <2>5. Cardinality(S \cup new) = Cardinality(S) + k BY <1>1, <1>5, <2>1, <2>3, <2>4
  <2> QED BY <1>6, <2>5 DEF Times, S
<1> QED BY <1>1, <1>7, <1>8 DEF both, k

LEMMA StreamFinite == ASSUME NEW S, S \subseteq Stream
                      PROVE  IsFiniteSet(S) /\ Cardinality(S) \in Nat
<1>1. IsFiniteSet({"stdout"}) /\ Stream = {"stdout"} \cup {"stderr"}
  BY FS_Singleton DEF Stream
<1>2. IsFiniteSet(Stream) BY <1>1, FS_AddElement
<1> QED BY <1>2, FS_Subset, FS_CardinalityType

LEMMA SetToSeqDomain ==
  ASSUME NEW S, IsFiniteSet(S)
  PROVE  DOMAIN SetToSeq(S) = 1..Cardinality(S)
<1>1. ExistsBijection(1..Cardinality(S), S) BY FS_CardinalityType
<1>2. \E f \in [1..Cardinality(S) -> S] : IsInjective(f)
  BY <1>1 DEF ExistsBijection, Bijection, Injection
<1>3. SetToSeq(S) \in [1..Cardinality(S) -> S] BY <1>2 DEF SetToSeq
<1> QED BY <1>3

\* The frames that name the streams newly heard of
Frames(list) ==
  [i \in DOMAIN NewlyNamed(list) |-> [op |-> "sanitizerFailed", failed |-> TRUE]]

LEMMA FramesFacts ==
  ASSUME Types, NEW list \in Seq(Stream)
  PROVE  /\ Frames(list) \in Seq(Event)
         /\ \A i \in 1..Len(Frames(list)) : Frames(list)[i].op = "sanitizerFailed"
         /\ Cardinality(named \cup ToSet(list)) = Cardinality(named) + Len(Frames(list))
         /\ Cardinality(named) \in Nat /\ Len(Frames(list)) \in Nat
<1> DEFINE new == ToSet(list) \ named
           e == [op |-> "sanitizerFailed", failed |-> TRUE]
<1>1. named \subseteq Stream /\ new \subseteq Stream /\ ToSet(list) \subseteq Stream
  BY DEF Types, TypeOK, ToSet
<1>2. /\ IsFiniteSet(named) /\ Cardinality(named) \in Nat
      /\ IsFiniteSet(new) /\ Cardinality(new) \in Nat
  BY <1>1, StreamFinite
<1>3. Frames(list) = [i \in 1..Cardinality(new) |-> e]
  BY <1>2, SetToSeqDomain DEF Frames, NewlyNamed
<1>4. e \in Event /\ e.op = "sanitizerFailed" BY DEF Event, EventOp
<1>5. Cardinality(named \cup ToSet(list)) = Cardinality(named) + Cardinality(new)
  <2>1. named \cup ToSet(list) = named \cup new /\ named \cap new = {} OBVIOUS
  <2> HIDE DEF new
  <2>2. Cardinality(named \cup new) =
          Cardinality(named) + Cardinality(new) - Cardinality(named \cap new)
    BY <1>2, FS_Union
  <2>3. Cardinality(named \cap new) = 0 BY <2>1, FS_EmptySet
  <2>4. Cardinality(named \cup new) = Cardinality(named) + Cardinality(new)
    BY <1>2, <2>2, <2>3
  <2> QED BY <2>1, <2>4
<1> HIDE DEF new, e
<1>6. /\ Frames(list) \in Seq(Event) /\ Len(Frames(list)) = Cardinality(new)
      /\ \A i \in 1..Len(Frames(list)) : Frames(list)[i] = e
  BY <1>2, <1>3, <1>4
<1> QED BY <1>2, <1>4, <1>5, <1>6

-----------------------------------------------------------------------------
(* The inductive invariant of the session.  What a pump reported was named  *)
(* or is in the channel, the frames count what was named, and the session   *)
(* that was finished has nobody left who could report.                      *)

Books(list) ==
  /\ list \in Seq(Event)
  /\ Times(list, "childExited") \in {0, 1}

Ended ==
  /\ PumpsFinished /\ child = "reaped" /\ failures = <<>>
  /\ Sent(events, "finished") = {Len(events)} /\ Times(events, "childExited") = 1
  /\ Last(events).failed = (silent # {})

SessionInv ==
  /\ Books(events)
  /\ Times(events, "sanitizerFailed") = Cardinality(named)
  /\ silent = named \cup ToSet(failures)
  /\ failed = (named # {})
  /\ Times(events, "childExited") = 1 => child = "reaped"
  /\ main # "end" => Sent(events, "finished") = {}
  /\ main = "end" => Ended

SupervisorInv == OutputInv /\ SessionInv

LEMMA ToSetAppend ==
  ASSUME NEW S, NEW list \in Seq(S), NEW x \in S
  PROVE  ToSet(Append(list, x)) = ToSet(list) \cup {x}
<1>1. /\ DOMAIN Append(list, x) = 1..(Len(list) + 1) /\ DOMAIN list = 1..Len(list)
      /\ \A i \in 1..Len(list) : Append(list, x)[i] = list[i]
      /\ Append(list, x)[Len(list) + 1] = x /\ Len(list) \in Nat
  OBVIOUS
<1>2. \A i \in 1..(Len(list) + 1) : i \in 1..Len(list) \/ i = Len(list) + 1
  BY <1>1
<1>3. 1..Len(list) \subseteq 1..(Len(list) + 1) /\ Len(list) + 1 \in 1..(Len(list) + 1)
  BY <1>1
<1> DEFINE both == Append(list, x)
<1> HIDE DEF both
<1>4. /\ DOMAIN both = 1..(Len(list) + 1)
      /\ \A i \in 1..Len(list) : both[i] = list[i]
      /\ both[Len(list) + 1] = x
  BY <1>1 DEF both
<1>5. ToSet(both) = ToSet(list) \cup {x}
  BY <1>1, <1>2, <1>3, <1>4 DEF ToSet
<1> QED BY <1>5 DEF both

LEMMA ToSetEmpty == ToSet(<<>>) = {}
BY DEF ToSet

LEMMA ToldOnce ==
  ASSUME NEW list, Books(list)
  PROVE  /\ Times(list, "childExited") \in {0, 1}
         /\ (\E i \in DOMAIN list : list[i].op = "childExited")
              <=> Times(list, "childExited") = 1
<1>1. list \in Seq(Event) BY DEF Books
<1>2. Times(list, "childExited") = 0 <=> Sent(list, "childExited") = {}
  BY <1>1, SentFacts, FS_EmptySet DEF Times
<1>3. Sent(list, "childExited") = {}
        <=> ~ \E i \in DOMAIN list : list[i].op = "childExited"
  BY DEF Sent
<1>4. Times(list, "childExited") \in {0, 1} BY DEF Books
<1> QED BY <1>2, <1>3, <1>4

\* What a pump's step does to the session: at most one report
LEMMA PumpReports ==
  ASSUME NEW s \in Stream, Pump(s)
  PROVE  /\ UNCHANGED <<child, session>> /\ pump[s] \in {"reads", "drains"}
         /\ \/ UNCHANGED <<failures, silent>>
            \/ failures' = Append(failures, s) /\ silent' = silent \cup {s}
<1>1. CASE PumpByte(s)
  BY <1>1 DEF PumpByte, Reads, Emit, Quiet, Report
<1>2. CASE PumpEnds(s)
  BY <1>2 DEF PumpEnds, Reads, EmitLast, Emit, Quiet, Report
<1>3. CASE PumpReadFails(s)
  BY <1>3 DEF PumpReadFails, Quiet, Report
<1>4. CASE PumpPanics(s) BY <1>4 DEF PumpPanics
<1>5. CASE Drain(s) BY <1>5 DEF Drain, Report
<1> QED BY <1>1, <1>2, <1>3, <1>4, <1>5 DEF Pump

LEMMA PumpBooks ==
  ASSUME SupervisorInv, NEW s \in Stream, Pump(s)
  PROVE  SessionInv'
<1>1. /\ UNCHANGED <<child, session>> /\ pump[s] \in {"reads", "drains"}
      /\ \/ UNCHANGED <<failures, silent>>
         \/ failures' = Append(failures, s) /\ silent' = silent \cup {s}
  BY PumpReports
<1>2. main # "end"
  <2>1. ~PumpsFinished BY <1>1 DEF PumpsFinished
  <2> QED BY <2>1 DEF SupervisorInv, SessionInv, Ended
<1>3. failures \in Seq(Stream) BY DEF SupervisorInv, OutputInv, Types, TypeOK
<1>4. silent' = named' \cup ToSet(failures')
  <2>1. silent = named \cup ToSet(failures) /\ named' = named
    BY <1>1 DEF SupervisorInv, SessionInv, session
  <2>2. ToSet(Append(failures, s)) = ToSet(failures) \cup {s} BY <1>3, ToSetAppend
  <2> QED BY <1>1, <2>1, <2>2
<1>5. UNCHANGED <<child, main, failed, named, events>> BY <1>1 DEF session
<1> QED BY <1>2, <1>4, <1>5 DEF SupervisorInv, SessionInv, Books

LEMMA ChildBooks ==
  ASSUME SupervisorInv,
         ChildExits \/ (\E s \in Stream : Closes(s) \/ \E byte \in Byte : Write(s, byte))
  PROVE  SessionInv'
<1>1. UNCHANGED <<pump, silent, failures, main, failed, named, events>>
  BY DEF ChildExits, Closes, Write, pumps, session
<1>2. child = "reaped" => child' = "reaped"
  BY DEF ChildExits, Closes, Write
<1>3. PumpsFinished => PumpsFinished' BY <1>1 DEF PumpsFinished
<1> QED BY <1>1, <1>2, <1>3 DEF SupervisorInv, SessionInv, Books, Ended

LEMMA Concats ==
  ASSUME NEW S, NEW list \in Seq(S), NEW x \in S, NEW y \in S
  PROVE  /\ list \o <<>> = list
         /\ list \o (<<>> \o <<x>>) = Append(list, x)
         /\ list \o (<<x>> \o <<y>>) = Append(Append(list, x), y)
  OBVIOUS

LEMMA HearBooks ==
  ASSUME SupervisorInv, NEW list \in Seq(Stream), NEW then, Hear(list, then)
  PROVE  LET ev == events \o Frames(list)
         IN /\ events' = ev \o then /\ Books(ev)
            /\ Times(ev, "childExited") = Times(events, "childExited")
            /\ Sent(ev, "finished") = Sent(events, "finished")
            /\ Times(ev, "sanitizerFailed") = Cardinality(named')
            /\ named' = named \cup ToSet(list) /\ failures' = <<>>
            /\ failed' = (failed \/ list # <<>>) /\ failed' = (named' # {})
<1> DEFINE ev == events \o Frames(list)
<1>0. Types BY DEF SupervisorInv, OutputInv
<1>1. /\ events' = ev \o then /\ failures' = <<>>
      /\ named' = named \cup ToSet(list) /\ failed' = (failed \/ list # <<>>)
  BY DEF Hear, Frames
<1>2. /\ Frames(list) \in Seq(Event)
      /\ \A i \in 1..Len(Frames(list)) : Frames(list)[i].op = "sanitizerFailed"
      /\ Cardinality(named \cup ToSet(list)) = Cardinality(named) + Len(Frames(list))
  BY <1>0, FramesFacts
<1>3. /\ events \in Seq(Event) /\ Times(events, "childExited") \in {0, 1}
      /\ Times(events, "sanitizerFailed") = Cardinality(named)
      /\ failed = (named # {})
  BY DEF SupervisorInv, SessionInv, Books
<1>4. /\ ev \in Seq(Event)
      /\ Times(ev, "sanitizerFailed") = Times(events, "sanitizerFailed") + Len(Frames(list))
      /\ \A op : op # "sanitizerFailed" => Sent(ev, op) = Sent(events, op)
  BY <1>2, <1>3, SendNews
<1>5. list # <<>> <=> ToSet(list) # {}
  <2>1. list # <<>> => 1 \in DOMAIN list OBVIOUS
  <2>2. 1 \in DOMAIN list => list[1] \in ToSet(list) BY DEF ToSet
  <2> QED BY <2>1, <2>2, ToSetEmpty
<1>6. failed' = (named' # {}) BY <1>1, <1>3, <1>5
<1> HIDE DEF ev
<1>7. Times(ev, "childExited") = Times(events, "childExited") BY <1>4 DEF Times
<1>8. Times(ev, "sanitizerFailed") = Cardinality(named') BY <1>1, <1>2, <1>3, <1>4
<1>9. /\ events' = ev \o then /\ Books(ev)
      /\ Times(ev, "childExited") = Times(events, "childExited")
      /\ Sent(ev, "finished") = Sent(events, "finished")
      /\ Times(ev, "sanitizerFailed") = Cardinality(named')
      /\ named' = named \cup ToSet(list) /\ failures' = <<>>
      /\ failed' = (failed \/ list # <<>>) /\ failed' = (named' # {})
  BY <1>1, <1>3, <1>4, <1>6, <1>7, <1>8 DEF Books
<1> QED BY <1>9 DEF ev

LEMMA HearFailuresBooks ==
  ASSUME SupervisorInv, HearFailures
  PROVE  SessionInv'
<1> DEFINE ev == events \o Frames(failures)
<1>0. failures \in Seq(Stream) BY DEF SupervisorInv, OutputInv, Types, TypeOK
<1>1. Hear(failures, <<>>) /\ main = "loop" /\ main' = "reap"
      /\ child' = child /\ silent' = silent
  BY DEF HearFailures, pumps
<1>2. /\ events' = ev \o <<>> /\ Books(ev)
      /\ Times(ev, "childExited") = Times(events, "childExited")
      /\ Sent(ev, "finished") = Sent(events, "finished")
      /\ Times(ev, "sanitizerFailed") = Cardinality(named')
      /\ named' = named \cup ToSet(failures) /\ failures' = <<>>
      /\ failed' = (named' # {})
  BY <1>0, <1>1, HearBooks
<1>3. events' = ev
  <2>1. ev \in Seq(Event) BY <1>2 DEF Books
  <2> HIDE DEF ev
  <2>2. ev \o <<>> = ev BY <2>1
  <2> QED BY <1>2, <2>2
<1>4. silent' = named' \cup ToSet(failures')
  BY <1>1, <1>2, ToSetEmpty DEF SupervisorInv, SessionInv
<1>5. /\ Times(events, "childExited") = 1 => child = "reaped"
      /\ Sent(events, "finished") = {}
  BY <1>1 DEF SupervisorInv, SessionInv
<1> HIDE DEF ev
<1> QED BY <1>1, <1>2, <1>3, <1>4, <1>5 DEF SessionInv, Books

LEMMA ReapBooks ==
  ASSUME SupervisorInv, ReapChild \/ WaitChild
  PROVE  SessionInv'
<1>1. UNCHANGED <<silent, failures, failed, named, pump>> /\ main # "end" /\ main' # "end"
  BY DEF ReapChild, WaitChild, pumps
<1>2. /\ Books(events) /\ Times(events, "sanitizerFailed") = Cardinality(named)
      /\ silent = named \cup ToSet(failures) /\ failed = (named # {})
      /\ Times(events, "childExited") = 1 => child = "reaped"
      /\ Sent(events, "finished") = {}
  BY <1>1 DEF SupervisorInv, SessionInv
<1>3. CASE events' = events
  <2>1. child' = child \/ child' = "reaped" BY DEF ReapChild, WaitChild
  <2> QED BY <1>1, <1>2, <1>3, <2>1 DEF SessionInv, Books
<1>4. CASE /\ Reapable /\ child' = "reaped"
           /\ events' = Append(events, [op |-> "childExited", failed |-> failed])
  <2> DEFINE e == [op |-> "childExited", failed |-> failed]
  <2>1. e \in Event /\ e.op = "childExited"
    <3>1. failed \in BOOLEAN BY DEF SupervisorInv, OutputInv, Types, TypeOK
    <3> QED BY <3>1 DEF Event, EventOp
  <2>2. events \in Seq(Event) /\ Times(events, "childExited") = 0
    BY <1>2, <1>4 DEF Reapable, Books
  <2>3. events' = Append(events, e) BY <1>4
  <2> HIDE DEF e
  <2>4. events' \in Seq(Event) BY <2>1, <2>2, <2>3
  <2>5. Times(events', "childExited") = 1 BY <2>1, <2>2, <2>3, SendOne
  <2>6. Times(events', "sanitizerFailed") = Times(events, "sanitizerFailed")
    BY <2>1, <2>2, <2>3, SendOne
  <2>7. Sent(events', "finished") = Sent(events, "finished")
    BY <2>1, <2>2, <2>3, SendOne
  <2> QED BY <1>1, <1>2, <1>4, <2>4, <2>5, <2>6, <2>7 DEF SessionInv, Books
<1> QED BY <1>3, <1>4 DEF ReapChild, WaitChild

LEMMA FinishBooks ==
  ASSUME SupervisorInv, FinishChild
  PROVE  SessionInv'
<1> DEFINE late == LateFailures \o NotJoined
           last(op) == [op |-> op, failed |-> failed \/ late # <<>>]
           ev == events \o Frames(late)
<1>0. Types BY DEF SupervisorInv, OutputInv
<1>1. /\ late \in Seq(Stream)
      /\ ToSet(late) = ToSet(failures) \cup {s \in Stream : pump[s] = "none"}
  BY <1>0, LateFailuresType
<1>2. /\ Hear(late, (IF ExitTold THEN <<>> ELSE <<last("childExited")>>) \o <<last("finished")>>)
      /\ main = "loop" /\ main' = "end" /\ child = "reaped" /\ PumpsFinished
      /\ UNCHANGED <<child, silent, pump>>
  BY DEF FinishChild, pumps
<1>3. /\ events' = ev \o ((IF ExitTold THEN <<>> ELSE <<last("childExited")>>)
                            \o <<last("finished")>>)
      /\ Books(ev)
      /\ Times(ev, "childExited") = Times(events, "childExited")
      /\ Sent(ev, "finished") = Sent(events, "finished")
      /\ Times(ev, "sanitizerFailed") = Cardinality(named')
      /\ named' = named \cup ToSet(late) /\ failures' = <<>>
      /\ failed' = (failed \/ late # <<>>) /\ failed' = (named' # {})
  BY <1>1, <1>2, HearBooks
<1>4. silent' = named'
  <2>1. \A s \in Stream : pump[s] = "none" => s \in silent
    BY DEF SupervisorInv, OutputInv, Has, StreamHas
  <2>2. silent = named \cup ToSet(failures) BY DEF SupervisorInv, SessionInv
  <2> QED BY <1>1, <1>2, <1>3, <2>1, <2>2
<1> DEFINE a == last("childExited")
           z == last("finished")
<1>5. /\ a \in Event /\ z \in Event /\ a.op = "childExited" /\ z.op = "finished"
      /\ z.failed = (silent' # {})
  <2>1. failed \in BOOLEAN BY <1>0 DEF Types, TypeOK
  <2>2. z.failed = (failed \/ late # <<>>) OBVIOUS
  <2>3. a \in Event /\ z \in Event BY <2>1 DEF Event, EventOp
  <2> QED BY <1>3, <1>4, <2>2, <2>3
<1>6. ev \in Seq(Event) /\ Sent(ev, "finished") = {}
      /\ (ExitTold <=> Times(ev, "childExited") = 1)
      /\ Times(ev, "childExited") \in {0, 1}
  <2>1. Books(events) /\ Sent(events, "finished") = {}
    BY <1>2 DEF SupervisorInv, SessionInv
  <2> QED BY <1>3, <2>1, ToldOnce DEF Books, ExitTold
<1>7. events' = ev \o ((IF ExitTold THEN <<>> ELSE <<a>>) \o <<z>>) BY <1>3
<1>8. Times(ev, "sanitizerFailed") = Cardinality(named') /\ failures' = <<>>
  BY <1>3
<1> HIDE DEF ev, a, z
<1>9. PICK b \in Seq(Event) :
        /\ events' = Append(b, z) /\ Sent(b, "finished") = {}
        /\ Times(b, "childExited") = 1
        /\ Times(b, "sanitizerFailed") = Times(ev, "sanitizerFailed")
  <2>1. CASE ExitTold
    <3>1. events' = Append(ev, z)
      <4>1. ev \o (<<>> \o <<z>>) = Append(ev, z) BY <1>5, <1>6, Concats
      <4> QED BY <1>7, <2>1, <4>1
    <3> QED BY <1>6, <2>1, <3>1
  <2>2. CASE ~ExitTold
    <3>1. events' = Append(Append(ev, a), z)
      <4>1. ev \o (<<a>> \o <<z>>) = Append(Append(ev, a), z) BY <1>5, <1>6, Concats
      <4> QED BY <1>7, <2>2, <4>1
    <3>2. Append(ev, a) \in Seq(Event) BY <1>5, <1>6
    <3>3. Times(ev, "childExited") = 0 BY <1>6, <2>2
    <3>4. Times(Append(ev, a), "childExited") = 1
      BY <1>5, <1>6, <3>3, SendOne
    <3>5. Times(Append(ev, a), "sanitizerFailed") = Times(ev, "sanitizerFailed")
      BY <1>5, <1>6, SendOne
    <3>6. Sent(Append(ev, a), "finished") = Sent(ev, "finished")
      BY <1>5, <1>6, SendOne
    <3> QED BY <1>6, <3>1, <3>2, <3>4, <3>5, <3>6
  <2> QED BY <2>1, <2>2
<1>10. /\ events' \in Seq(Event) /\ Len(events') = Len(b) + 1 /\ Last(events') = z
  BY <1>5, <1>9 DEF Last
<1>11. Times(events', "childExited") = 1 BY <1>5, <1>9, SendOne
<1>12. Times(events', "sanitizerFailed") = Cardinality(named')
  <2>1. Times(Append(b, z), "sanitizerFailed") = Times(b, "sanitizerFailed")
    BY <1>5, SendOne
  <2> QED BY <1>8, <1>9, <2>1
<1>13. Sent(events', "finished") = {Len(events')}
  <2>1. Sent(Append(b, z), "finished") = Sent(b, "finished") \cup {Len(b) + 1}
    BY <1>5, SendOne
  <2> QED BY <1>9, <1>10, <2>1
<1>14. PumpsFinished' BY <1>2 DEF PumpsFinished
<1>15. silent' = named' \cup ToSet(failures') BY <1>4, <1>8, ToSetEmpty
<1>16. Ended'
  BY <1>2, <1>5, <1>8, <1>10, <1>11, <1>13, <1>14 DEF Ended
<1>17. failed' = (named' # {}) BY <1>3
<1> QED BY <1>2, <1>10, <1>11, <1>12, <1>15, <1>16, <1>17 DEF SessionInv, Books

LEMMA InitBooks == Init => SessionInv
<1> SUFFICES ASSUME Init PROVE SessionInv OBVIOUS
<1>1. events = <<>> /\ named = {} /\ failed = FALSE /\ main = "loop"
  BY DEF Init
<1>2. events \in Seq(Event) BY <1>1, ShortSeqs
<1>3. \A op : Sent(events, op) = {} BY <1>1 DEF Sent
<1>4. \A op : Times(events, op) = 0 BY <1>3, FS_EmptySet DEF Times
<1>5. silent = named \cup ToSet(failures)
  BY <1>1, NotJoinedType DEF Init
<1>6. Cardinality(named) = 0 BY <1>1, FS_EmptySet
<1>7. Books(events)
  <2>1. Times(events, "childExited") \in {0, 1} BY <1>4
  <2> QED BY <1>2, <2>1 DEF Books
<1>8. /\ Times(events, "sanitizerFailed") = Cardinality(named)
      /\ Times(events, "childExited") # 1 /\ Sent(events, "finished") = {}
  <2>1. Times(events, "childExited") = 0 BY <1>4
  <2> QED BY <1>3, <1>4, <1>6, <2>1
<1>9. failed = (named # {}) BY <1>1
<1>10. main # "end" BY <1>1
<1> QED BY <1>5, <1>7, <1>8, <1>9, <1>10 DEF SessionInv

LEMMA NextKeeps == SupervisorInv /\ [Next]_vars => SupervisorInv'
<1> SUFFICES ASSUME SupervisorInv, [Next]_vars PROVE SupervisorInv' OBVIOUS
<1>1. OutputInv' BY NextHas DEF SupervisorInv
<1>2. SessionInv'
  <2>1. CASE UNCHANGED vars
    BY <2>1 DEF vars, outputs, pumps, session, SupervisorInv, SessionInv, Books, Ended,
               PumpsFinished
  <2>2. CASE MainThread
    BY <2>2, HearFailuresBooks, ReapBooks, FinishBooks DEF MainThread
  <2>3. CASE ChildExits \/ (\E s \in Stream : Closes(s) \/ \E byte \in Byte : Write(s, byte))
    BY <2>3, ChildBooks
  <2>4. CASE \E s \in Stream : Pump(s)
    BY <2>4, PumpBooks
  <2> QED BY <2>1, <2>2, <2>3, <2>4 DEF Next
<1> QED BY <1>1, <1>2 DEF SupervisorInv

(* The supervisor's books are right in every state: what was written and    *)
(* what is in the journal of it agree, and what failed was named or is in   *)
(* the channel (pump_stream, report_pump_failure, finish_child).            *)
THEOREM SupervisorInvHolds == Spec => []SupervisorInv
<1>1. Init => SupervisorInv BY InitHas, InitBooks DEF SupervisorInv
<1> QED BY <1>1, NextKeeps, PTL DEF Spec

LEMMA WholeFollows == SupervisorInv => SessionIsWhole
<1> SUFFICES ASSUME SupervisorInv PROVE SessionIsWhole OBVIOUS
<1>1. TypeOK BY DEF SupervisorInv, OutputInv, Types
<1>2. JournalIsTranscript
  BY DEF SupervisorInv, OutputInv, Has, StreamHas, JournalIsTranscript
<1>3. SessionIsWellFormed
  <2>1. Books(events) BY DEF SupervisorInv, SessionInv
  <2>2. Cardinality({i \in DOMAIN events : events[i].op = "childExited"}) <= 1
    BY <2>1, ToldOnce DEF Times, Sent
  <2>3. Cardinality({i \in DOMAIN events : events[i].op = "sanitizerFailed"})
          = Cardinality(named)
    BY DEF SupervisorInv, SessionInv, Times, Sent
  <2>4. ASSUME Finished # {}
        PROVE  /\ Finished = {Len(events)} /\ ExitTold
               /\ named = silent
               /\ Last(events).failed = (silent # {})
    <3>1. main = "end" BY <2>4 DEF SupervisorInv, SessionInv, Sent, Finished
    <3>2. Ended /\ silent = named \cup ToSet(failures)
      BY <3>1 DEF SupervisorInv, SessionInv
    <3>3. named = silent BY <3>2, ToSetEmpty DEF Ended
    <3>4. ExitTold BY <2>1, <3>2, ToldOnce DEF Ended, ExitTold
    <3> QED BY <3>2, <3>3, <3>4 DEF Ended, Sent, Finished
  <2> QED BY <2>2, <2>3, <2>4 DEF SessionIsWellFormed
<1> QED BY <1>1, <1>2, <1>3 DEF SessionIsWhole

(* A stream whose pump reported nothing is in the journal line by line, and *)
(* the compositor hears of one exit, of every failed stream once, and of    *)
(* the end with the truth about the logging: for every record limit, pipe   *)
(* and set of faults (pump_stream, finish_child).                           *)
THEOREM SessionStaysWhole == Spec => []SessionIsWhole
BY SupervisorInvHolds, WholeFollows, PTL

(* No failure of a pump closes a pipe that somebody may still write to      *)
(* (spawn_stream_pump).                                                     *)
THEOREM WritersAlwaysKeepReaders == Spec => []WritersKeepReaders
<1>1. Init => WritersKeepReaders BY DEF Init, WritersKeepReaders
<1>2. WritersKeepReaders /\ [Next]_vars => WritersKeepReaders'
  <2> SUFFICES ASSUME WritersKeepReaders, [Next]_vars PROVE WritersKeepReaders' OBVIOUS
  <2>1. CASE UNCHANGED <<open, reader>> BY <2>1 DEF WritersKeepReaders
  <2>2. CASE open' \subseteq open /\ reader' = reader BY <2>2 DEF WritersKeepReaders
  <2>3. ASSUME NEW s \in Stream, Pump(s) PROVE WritersKeepReaders'
    <3>1. open' = open /\ (reader' = reader \/ (s \notin open /\ reader' = reader \ {s}))
      <4>1. CASE PumpByte(s) BY <4>1 DEF PumpByte
      <4>2. CASE PumpEnds(s) BY <4>2 DEF PumpEnds, outputs
      <4>3. CASE PumpReadFails(s) BY <4>3 DEF PumpReadFails, ForgetReader, outputs
      <4>4. CASE PumpPanics(s) BY <4>4 DEF PumpPanics
      <4>5. CASE Drain(s) BY <4>5 DEF Drain, ForgetReader
      <4> QED BY <2>3, <4>1, <4>2, <4>3, <4>4, <4>5 DEF Pump
    <3> QED BY <3>1 DEF WritersKeepReaders
  <2>4. CASE MainThread
    <3>1. UNCHANGED <<open, reader>>
      BY <2>4 DEF MainThread, HearFailures, ReapChild, WaitChild, FinishChild, outputs, pumps
    <3> QED BY <2>1, <3>1
  <2>5. CASE ChildExits \/ (\E s \in Stream : Closes(s) \/ \E byte \in Byte : Write(s, byte))
    <3>1. open' \subseteq open /\ reader' = reader
      BY <2>5 DEF ChildExits, Closes, Write, pumps
    <3> QED BY <2>2, <3>1
  <2>6. CASE UNCHANGED vars
    BY <2>1, <2>6 DEF vars, outputs, pumps
  <2> QED BY <2>3, <2>4, <2>5, <2>6 DEF Next
<1> QED BY <1>1, <1>2, PTL DEF Spec

=============================================================================
