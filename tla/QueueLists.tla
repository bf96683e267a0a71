----------------------------- MODULE QueueLists -----------------------------
(***************************************************************************)
(* Facts about the lists the play queue is made of (Queue): what joining,  *)
(* cutting, splicing, picking and shuffling them leaves.                   *)
(***************************************************************************)
EXTENDS Queue, SequenceTheorems, FiniteSetTheorems, TLAPS

\* A list of the members of a set, each of them once.
Lists(list, set) ==
  /\ list \in Seq(set)
  /\ \A x \in set : \E i \in 1..Len(list) : list[i] = x
  /\ \A i, j \in 1..Len(list) : list[i] = list[j] => i = j

-----------------------------------------------------------------------------
(* A list and the set it lists.                                            *)

LEMMA ListIsAList ==
  ASSUME NEW set, NEW list, Lists(list, set)
  PROVE  /\ Len(list) \in Nat /\ DOMAIN list = 1..Len(list)
         /\ list \in [1..Len(list) -> set]
         /\ ToSet(list) = set
         /\ \A i, j \in 1..Len(list) : list[i] = list[j] => i = j
<1>1. list \in Seq(set)
  BY DEF Lists
<1>2. Len(list) \in Nat /\ DOMAIN list = 1..Len(list) /\ list \in [1..Len(list) -> set]
  BY <1>1, LenProperties
<1>3. ToSet(list) = set
  BY <1>2 DEF Lists, ToSet
<1>4. QED
  BY <1>2, <1>3 DEF Lists

LEMMA ListCounts ==
  ASSUME NEW set, NEW list, Lists(list, set)
  PROVE  IsFiniteSet(set) /\ Cardinality(set) = Len(list)
<1>1. Len(list) \in Nat /\ list \in [1..Len(list) -> set]
  BY ListIsAList
<1>2. list \in Bijection(1..Len(list), set)
  BY <1>1 DEF Lists, Bijection, Injection, Surjection, IsInjective
<1>3. IsFiniteSet(1..Len(list)) /\ Cardinality(1..Len(list)) = Len(list)
  BY <1>1, FS_Interval
<1>4. ExistsBijection(1..Len(list), set)
  BY <1>2 DEF ExistsBijection
<1>5. QED
  BY <1>3, <1>4, FS_Bijection

\* A sequence without repeats lists what it holds.
LEMMA NoneTwice ==
  ASSUME NEW set, NEW list \in Seq(set),
         \A i, j \in 1..Len(list) : list[i] = list[j] => i = j
  PROVE  Lists(list, ToSet(list)) /\ ToSet(list) \in SUBSET set
<1>1. Len(list) \in Nat /\ DOMAIN list = 1..Len(list) /\ list \in [1..Len(list) -> set]
  BY LenProperties
<1>2. list \in [1..Len(list) -> ToSet(list)] /\ ToSet(list) \in SUBSET set
  BY <1>1 DEF ToSet
<1>3. list \in Seq(ToSet(list))
  BY <1>1, <1>2, SeqDef
<1>4. \A x \in ToSet(list) : \E i \in 1..Len(list) : list[i] = x
  BY <1>1 DEF ToSet
<1>5. QED
  BY <1>2, <1>3, <1>4 DEF Lists

LEMMA EmptyLists == Lists(<<>>, {}) /\ \A list : Lists(list, {}) => list = <<>>
<1>1. Lists(<<>>, {})
  BY EmptySeq DEF Lists
<1>2. ASSUME NEW list, Lists(list, {}) PROVE list = <<>>
  <2>1. list \in Seq({}) /\ IsFiniteSet({}) /\ Cardinality({}) = Len(list)
    BY <1>2, ListCounts DEF Lists
  <2>2. QED
    BY <2>1, FS_EmptySet, EmptySeq
<1>3. QED
  BY <1>1, <1>2

LEMMA OneLists == ASSUME NEW x PROVE Lists(<<x>>, {x})
  BY DEF Lists

LEMMA ListOfMore ==
  ASSUME NEW set, NEW list, Lists(list, set), NEW more, set \in SUBSET more
  PROVE  list \in Seq(more)
  BY SeqMonotonic DEF Lists

\* Two lists of sets apart, one after the other.
LEMMA JoinedLists ==
  ASSUME NEW a, NEW b, NEW s, NEW t, Lists(s, a), Lists(t, b), a \cap b = {}
  PROVE  /\ Lists(s \o t, a \cup b)
         /\ Len(s \o t) = Len(s) + Len(t)
<1> DEFINE c == a \cup b
<1>1. s \in Seq(c) /\ t \in Seq(c)
  BY SeqMonotonic DEF Lists
<1>2. Len(s) \in Nat /\ Len(t) \in Nat
  BY ListIsAList
<1>3. /\ s \o t \in Seq(c) /\ Len(s \o t) = Len(s) + Len(t)
      /\ \A i \in 1..(Len(s) + Len(t)) :
           (s \o t)[i] = IF i <= Len(s) THEN s[i] ELSE t[i - Len(s)]
  BY <1>1, ConcatProperties
<1>4. \A i \in 1..Len(s) : s[i] \in a
  BY ListIsAList
<1>5. \A i \in 1..Len(t) : t[i] \in b
  BY ListIsAList
<1>6. \A x \in c : \E i \in 1..Len(s \o t) : (s \o t)[i] = x
  <2>1. ASSUME NEW x \in a PROVE \E i \in 1..Len(s \o t) : (s \o t)[i] = x
    <3>1. PICK i \in 1..Len(s) : s[i] = x
      BY DEF Lists
    <3>2. i \in 1..(Len(s) + Len(t)) /\ i <= Len(s)
      BY <1>2
    <3>3. QED
      BY <1>3, <3>1, <3>2
  <2>2. ASSUME NEW x \in b PROVE \E i \in 1..Len(s \o t) : (s \o t)[i] = x
    <3>1. PICK i \in 1..Len(t) : t[i] = x
      BY DEF Lists
    <3>2. /\ i + Len(s) \in 1..(Len(s) + Len(t)) /\ ~(i + Len(s) <= Len(s))
          /\ (i + Len(s)) - Len(s) = i
      BY <1>2
    <3>3. QED
      BY <1>3, <3>1, <3>2
  <2>3. QED
    BY <2>1, <2>2
<1>7. ASSUME NEW i \in 1..Len(s \o t), NEW j \in 1..Len(s \o t), (s \o t)[i] = (s \o t)[j]
      PROVE  i = j
  <2>1. i \in 1..(Len(s) + Len(t)) /\ j \in 1..(Len(s) + Len(t))
    BY <1>3
  <2>2. CASE i <= Len(s) /\ j <= Len(s)
    <3>1. i \in 1..Len(s) /\ j \in 1..Len(s) /\ s[i] = s[j]
      BY <1>2, <1>3, <1>7, <2>1, <2>2
    <3>2. QED
      BY <3>1 DEF Lists
  <2>3. CASE ~(i <= Len(s)) /\ ~(j <= Len(s))
    <3>1. i - Len(s) \in 1..Len(t) /\ j - Len(s) \in 1..Len(t)
      BY <1>2, <2>1, <2>3
    <3>2. t[i - Len(s)] = t[j - Len(s)]
      BY <1>3, <1>7, <2>1, <2>3
    <3>3. i - Len(s) = j - Len(s)
      BY <3>1, <3>2 DEF Lists
    <3>4. QED
      BY <1>2, <2>1, <3>3
  <2>4. ASSUME NEW k \in 1..(Len(s) + Len(t)), NEW l \in 1..(Len(s) + Len(t)),
               k <= Len(s), ~(l <= Len(s))
        PROVE  (s \o t)[k] # (s \o t)[l]
    <3>1. k \in 1..Len(s) /\ l - Len(s) \in 1..Len(t)
      BY <1>2, <2>4
    <3>2. (s \o t)[k] = s[k] /\ (s \o t)[l] = t[l - Len(s)]
      BY <1>3, <2>4
    <3>3. QED
      BY <1>4, <1>5, <3>1, <3>2
  <2>5. QED
    BY <1>7, <2>1, <2>2, <2>3, <2>4
<1>8. QED
  BY <1>3, <1>6, <1>7 DEF Lists

-----------------------------------------------------------------------------
(* Cutting a list in two, and splicing one into it.                        *)

LEMMA LeastIs ==
  ASSUME NEW a \in Int, NEW b \in Int
  PROVE  Least(a, b) \in Int /\ Least(a, b) <= a /\ Least(a, b) <= b
         /\ (a <= b => Least(a, b) = a) /\ (b <= a => Least(a, b) = b)
  BY DEF Least

\* The first rows of a list and the rest.
LEMMA CutInTwo ==
  ASSUME NEW set, NEW list \in Seq(set), NEW n \in Nat, n <= Len(list)
  PROVE  /\ First(list, n) \in Seq(set) /\ Past(list, n) \in Seq(set)
         /\ Len(First(list, n)) = n /\ Len(Past(list, n)) = Len(list) - n
         /\ \A i \in 1..n : First(list, n)[i] = list[i]
         /\ \A i \in 1..(Len(list) - n) : Past(list, n)[i] = list[n + i]
         /\ First(list, n) \o Past(list, n) = list
<1>1. Len(list) \in Nat /\ \A i \in 1..Len(list) : list[i] \in set
  BY LenProperties
<1>2. Least(n, Len(list)) = n
  BY <1>1, LeastIs
<1> DEFINE first == SubSeq(list, 1, n)
           past == SubSeq(list, n + 1, Len(list))
<1>3. First(list, n) = first /\ Past(list, n) = past
  BY <1>2 DEF First, Past
<1>4. 1 \in Int /\ n \in Int /\ n + 1 \in Int /\ Len(list) \in Int
  BY <1>1
<1>5. /\ first \in Seq(set) /\ Len(first) = n
      /\ \A i \in 1..n : first[i] = list[i]
  <2>1. \A i \in 1..n : list[i] \in set
    BY <1>1
  <2>2. /\ first \in Seq(set) /\ Len(first) = IF 1 <= n THEN n - 1 + 1 ELSE 0
        /\ \A i \in 1..(n - 1 + 1) : first[i] = list[1 + i - 1]
    BY <1>4, <2>1, SubSeqProperties
  <2>3. \A i \in 1..n : 1 + i - 1 = i
    OBVIOUS
  <2>4. n - 1 + 1 = n /\ (~(1 <= n) => n = 0)
    OBVIOUS
  <2> HIDE DEF first
  <2>5. QED
    BY <2>2, <2>3, <2>4
<1>6. /\ past \in Seq(set) /\ Len(past) = Len(list) - n
      /\ \A i \in 1..(Len(list) - n) : past[i] = list[n + i]
  <2>1. \A i \in (n + 1)..Len(list) : list[i] \in set
    BY <1>1
  <2>2. /\ past \in Seq(set)
        /\ Len(past) = IF n + 1 <= Len(list) THEN Len(list) - (n + 1) + 1 ELSE 0
        /\ \A i \in 1..(Len(list) - (n + 1) + 1) : past[i] = list[(n + 1) + i - 1]
    BY <1>4, <2>1, SubSeqProperties
  <2>3. \A i \in 1..(Len(list) - n) : (n + 1) + i - 1 = n + i
    OBVIOUS
  <2>4. /\ Len(list) - (n + 1) + 1 = Len(list) - n
        /\ ~(n + 1 <= Len(list)) => Len(list) - n = 0
    BY <1>1
  <2> HIDE DEF past
  <2>5. QED
    BY <2>2, <2>3, <2>4
<1>7. first \o past = list
  <2>1. /\ 1 \in 1..(Len(list) + 1) /\ n \in (1 - 1)..Len(list)
        /\ Len(list) \in n..Len(list)
    BY <1>1
  <2>2. SubSeq(list, 1, n) \o SubSeq(list, n + 1, Len(list)) = SubSeq(list, 1, Len(list))
    BY <2>1, ConcatAdjacentSubSeq
  <2>3. QED
    BY <2>2, SubSeqFull
<1> HIDE DEF first, past
<1>8. QED
  BY <1>3, <1>5, <1>6, <1>7

\* Past the end there is nothing left.
LEMMA CutBeyond ==
  ASSUME NEW set, NEW list \in Seq(set), NEW n \in Nat, Len(list) <= n
  PROVE  First(list, n) = list /\ Past(list, n) = <<>>
<1>1. Len(list) \in Nat
  BY LenProperties
<1>2. Least(n, Len(list)) = Len(list)
  BY <1>1, LeastIs
<1>3. SubSeq(list, 1, Len(list)) = list
  BY SubSeqFull
<1>4. SubSeq(list, n + 1, Len(list)) = <<>>
  BY <1>1, SubSeqEmpty
<1>5. QED
  BY <1>2, <1>3, <1>4 DEF First, Past

LEMMA CutLists ==
  ASSUME NEW set, NEW list, Lists(list, set), NEW n \in Nat
  PROVE  /\ Lists(First(list, n), ToSet(First(list, n)))
         /\ Lists(Past(list, n), ToSet(Past(list, n)))
         /\ ToSet(First(list, n)) \cup ToSet(Past(list, n)) = set
         /\ ToSet(First(list, n)) \cap ToSet(Past(list, n)) = {}
         /\ Len(First(list, n)) = Least(n, Len(list))
         /\ Len(Past(list, n)) = Len(list) - Least(n, Len(list))
<1>1. /\ Len(list) \in Nat /\ list \in Seq(set) /\ ToSet(list) = set
      /\ \A i \in 1..Len(list) : list[i] \in set
      /\ \A i, j \in 1..Len(list) : list[i] = list[j] => i = j
  BY ListIsAList DEF Lists
<1>2. CASE n <= Len(list)
  <2> DEFINE first == First(list, n)
             past == Past(list, n)
  <2>1. /\ first \in Seq(set) /\ past \in Seq(set)
        /\ Len(first) = n /\ Len(past) = Len(list) - n
        /\ \A i \in 1..n : first[i] = list[i]
        /\ \A i \in 1..(Len(list) - n) : past[i] = list[n + i]
    BY <1>1, <1>2, CutInTwo
  <2> HIDE DEF first, past
  <2>2. \A i, j \in 1..Len(first) : first[i] = first[j] => i = j
    <3>1. \A i \in 1..Len(first) : i \in 1..Len(list) /\ first[i] = list[i]
      BY <1>1, <1>2, <2>1
    <3>2. QED
      BY <1>1, <3>1
  <2>3. \A i, j \in 1..Len(past) : past[i] = past[j] => i = j
    <3>1. \A i \in 1..Len(past) : n + i \in 1..Len(list)
      BY <1>1, <1>2, <2>1
    <3>2. \A i \in 1..Len(past) : past[i] = list[n + i]
      BY <2>1
    <3>3. \A i, j \in 1..Len(past) : past[i] = past[j] => n + i = n + j
      BY <1>1, <3>1, <3>2
    <3>4. \A i, j \in 1..Len(past) : n + i = n + j => i = j
      BY <1>1, <2>1
    <3>5. QED
      BY <3>3, <3>4
  <2>4. Lists(first, ToSet(first)) /\ Lists(past, ToSet(past))
    BY <2>1, <2>2, <2>3, NoneTwice
  <2>5. DOMAIN first = 1..n /\ DOMAIN past = 1..(Len(list) - n)
    BY <2>1, LenProperties
  <2>6. ToSet(first) = {list[i] : i \in 1..n}
    BY <2>1, <2>5 DEF ToSet
  <2>7. ToSet(past) = {list[n + i] : i \in 1..(Len(list) - n)}
    <3>1. DOMAIN past = 1..(Len(list) - n)
      BY <2>5
    <3>2. \A i \in 1..(Len(list) - n) : past[i] = list[n + i]
      BY <2>1
    <3>3. ToSet(past) = {past[i] : i \in 1..(Len(list) - n)}
      BY <3>1 DEF ToSet
    <3>4. QED
      BY <3>2, <3>3
  <2>8. ToSet(first) \cup ToSet(past) = set
    <3>1. \A i \in 1..n : list[i] \in set
      BY <1>1, <1>2
    <3>2. \A i \in 1..(Len(list) - n) : list[n + i] \in set
      BY <1>1, <1>2
    <3>3. ASSUME NEW x \in set PROVE x \in ToSet(first) \cup ToSet(past)
      <4>1. PICK i \in 1..Len(list) : list[i] = x
        BY DEF Lists
      <4>2. i \in 1..n \/ (i - n \in 1..(Len(list) - n) /\ n + (i - n) = i)
        BY <1>1, <1>2
      <4>3. QED
        BY <2>6, <2>7, <4>1, <4>2
    <3>4. QED
      BY <2>6, <2>7, <3>1, <3>2, <3>3
  <2>9. ToSet(first) \cap ToSet(past) = {}
    <3>1. \A i \in 1..n, j \in 1..(Len(list) - n) :
            i \in 1..Len(list) /\ n + j \in 1..Len(list) /\ i # n + j
      BY <1>1, <1>2
    <3>2. \A i \in 1..n, j \in 1..(Len(list) - n) : list[i] # list[n + j]
      BY <1>1, <3>1
    <3>3. QED
      BY <2>6, <2>7, <3>2
  <2>10. Least(n, Len(list)) = n
    BY <1>1, <1>2, LeastIs
  <2>11. QED
    BY <2>1, <2>4, <2>8, <2>9, <2>10 DEF first, past
<1>3. CASE Len(list) <= n
  <2>1. First(list, n) = list /\ Past(list, n) = <<>>
    BY <1>1, <1>3, CutBeyond
  <2>2. Least(n, Len(list)) = Len(list)
    BY <1>1, <1>3, LeastIs
  <2>3. Lists(<<>>, {}) /\ ToSet(<<>>) = {} /\ Len(<<>>) = 0
    BY EmptyLists, ListIsAList, EmptySeq
  <2>4. Lists(list, ToSet(list)) /\ set \cup {} = set /\ set \cap {} = {}
        /\ Len(list) - Len(list) = 0
    BY <1>1
  <2>5. QED
    BY <1>1, <2>1, <2>2, <2>3, <2>4
<1>4. QED
  BY <1>1, <1>2, <1>3

\* A list spliced into another, wherever it goes.
LEMMA SplicedLists ==
  ASSUME NEW a, NEW b, NEW into, NEW run, Lists(into, a), Lists(run, b), a \cap b = {},
         NEW at \in Nat
  PROVE  /\ Lists(Spliced(into, at, run), a \cup b)
         /\ Len(Spliced(into, at, run)) = Len(into) + Len(run)
<1> DEFINE first == First(into, at)
           past == Past(into, at)
<1>1. /\ Lists(first, ToSet(first)) /\ Lists(past, ToSet(past))
      /\ ToSet(first) \cup ToSet(past) = a /\ ToSet(first) \cap ToSet(past) = {}
      /\ Len(first) = Least(at, Len(into)) /\ Len(past) = Len(into) - Least(at, Len(into))
  BY CutLists
<1> HIDE DEF first, past
<1>2. ToSet(first) \cap b = {}
  BY <1>1
<1>3. Lists(first \o run, ToSet(first) \cup b) /\ Len(first \o run) = Len(first) + Len(run)
  BY <1>1, <1>2, JoinedLists
<1>4. (ToSet(first) \cup b) \cap ToSet(past) = {}
  BY <1>1
<1>5. /\ Lists((first \o run) \o past, (ToSet(first) \cup b) \cup ToSet(past))
      /\ Len((first \o run) \o past) = Len(first \o run) + Len(past)
  <2> DEFINE joined == first \o run
  <2>1. /\ Lists(joined, ToSet(first) \cup b) /\ Lists(past, ToSet(past))
        /\ (ToSet(first) \cup b) \cap ToSet(past) = {}
    BY <1>1, <1>3, <1>4
  <2> HIDE DEF joined
  <2>2. /\ Lists(joined \o past, (ToSet(first) \cup b) \cup ToSet(past))
        /\ Len(joined \o past) = Len(joined) + Len(past)
    BY <2>1, JoinedLists
  <2>3. QED
    BY <2>2 DEF joined
<1>6. (ToSet(first) \cup b) \cup ToSet(past) = a \cup b
  BY <1>1
<1>7. Spliced(into, at, run) = (first \o run) \o past
  BY DEF Spliced, first, past
<1>8. Len(into) \in Nat /\ Len(run) \in Nat /\ Len(first) \in Nat /\ Len(past) \in Nat
  BY <1>1, ListIsAList
<1>9. Len(first) + Len(run) + Len(past) = Len(into) + Len(run)
  <2>1. Least(at, Len(into)) \in Int
    BY <1>8, LeastIs
  <2>2. QED
    BY <1>1, <1>8, <2>1
<1>10. QED
  BY <1>3, <1>5, <1>6, <1>7, <1>9

-----------------------------------------------------------------------------
(* Picking rows out of a list.                                             *)

UpTo(positions, at) == {i \in positions : i <= at}

LEMMA CountRises ==
  ASSUME NEW positions \in SUBSET Nat, IsFiniteSet(positions),
         NEW a \in positions, NEW b \in positions, a < b
  PROVE  Cardinality(UpTo(positions, a)) < Cardinality(UpTo(positions, b))
<1>1. UpTo(positions, a) \in SUBSET positions /\ UpTo(positions, b) \in SUBSET positions
  BY DEF UpTo
<1>2. IsFiniteSet(UpTo(positions, a)) /\ IsFiniteSet(UpTo(positions, b))
  BY <1>1, FS_Subset
<1>3. UpTo(positions, a) \in SUBSET UpTo(positions, b)
  <2>1. \A i \in positions : i <= a => i <= b
    OBVIOUS
  <2>2. QED
    BY <2>1 DEF UpTo
<1>4. b \in UpTo(positions, b) \ UpTo(positions, a)
  <2>1. b <= b /\ ~(b <= a)
    OBVIOUS
  <2>2. QED
    BY <2>1 DEF UpTo
<1>5. /\ Cardinality(UpTo(positions, a)) <= Cardinality(UpTo(positions, b))
      /\ Cardinality(UpTo(positions, a)) # Cardinality(UpTo(positions, b))
  BY <1>2, <1>3, <1>4, FS_Subset
<1>6. QED
  BY <1>2, <1>5, FS_CardinalityType

LEMMA CountWithin ==
  ASSUME NEW positions \in SUBSET Nat, IsFiniteSet(positions), NEW at \in positions
  PROVE  Cardinality(UpTo(positions, at)) \in 1..Cardinality(positions)
<1>1. UpTo(positions, at) \in SUBSET positions /\ at \in UpTo(positions, at)
  BY DEF UpTo
<1>2. /\ IsFiniteSet(UpTo(positions, at))
      /\ Cardinality(UpTo(positions, at)) <= Cardinality(positions)
  BY <1>1, FS_Subset
<1>3. Cardinality(UpTo(positions, at)) # 0
  BY <1>1, <1>2, FS_EmptySet
<1>4. QED
  BY <1>2, <1>3, FS_CardinalityType

\* The n-th of some positions: each is the n-th for one n, and later ones come later.
LEMMA NthIs ==
  ASSUME NEW positions \in SUBSET Nat, IsFiniteSet(positions)
  PROVE  /\ Cardinality(positions) \in Nat
         /\ \A n \in 1..Cardinality(positions) :
              /\ Nth(positions, n) \in positions
              /\ Cardinality(UpTo(positions, Nth(positions, n))) = n
         /\ \A m, n \in 1..Cardinality(positions) :
              m < n => Nth(positions, m) < Nth(positions, n)
         /\ \A at \in positions :
              /\ Cardinality(UpTo(positions, at)) \in 1..Cardinality(positions)
              /\ Nth(positions, Cardinality(UpTo(positions, at))) = at
<1> DEFINE count == Cardinality(positions)
           rank == [at \in positions |-> Cardinality(UpTo(positions, at))]
<1>1. count \in Nat /\ IsFiniteSet(1..count) /\ Cardinality(1..count) = count
  BY FS_CardinalityType, FS_Interval
<1>2. rank \in [positions -> 1..count]
  BY CountWithin
<1>3. \A a, b \in positions : a < b => rank[a] < rank[b]
  BY CountRises
<1>4. \A a, b \in positions : rank[a] = rank[b] => a = b
  <2>1. \A a, b \in positions : a = b \/ a < b \/ b < a
    OBVIOUS
  <2>2. \A a \in positions : rank[a] \in Int
    BY <1>1, <1>2
  <2> HIDE DEF rank
  <2>3. QED
    BY <1>3, <2>1, <2>2
<1>5. rank \in Surjection(positions, 1..count)
  <2> HIDE DEF rank
  <2>1. rank \in Injection(positions, 1..count)
    BY <1>2, <1>4 DEF Injection, IsInjective
  <2>2. QED
    BY <1>1, <2>1, FS_Injection
<1>6. \A n \in 1..count : Nth(positions, n) \in positions /\ rank[Nth(positions, n)] = n
  <2>1. ASSUME NEW n \in 1..count
        PROVE  Nth(positions, n) \in positions /\ rank[Nth(positions, n)] = n
    <3>1. \E at \in positions : rank[at] = n
      BY <1>5 DEF Surjection
    <3>2. \E at \in positions : Cardinality({i \in positions : i <= at}) = n
      BY <3>1 DEF UpTo
    <3>3. /\ Nth(positions, n) \in positions
          /\ Cardinality({i \in positions : i <= Nth(positions, n)}) = n
      BY <3>2 DEF Nth
    <3>4. QED
      BY <3>3 DEF UpTo
  <2>2. QED
    BY <2>1
<1>7. \A at \in positions : rank[at] = Cardinality(UpTo(positions, at))
  OBVIOUS
<1>8. \A m, n \in 1..count : m < n => Nth(positions, m) < Nth(positions, n)
  <2> HIDE DEF rank
  <2>1. \A a, b \in positions : a = b \/ a < b \/ b < a
    OBVIOUS
  <2>2. ASSUME NEW m \in 1..count, NEW n \in 1..count, m < n
        PROVE  Nth(positions, m) < Nth(positions, n)
    <3>1. m # n /\ ~(n < m)
      BY <1>1, <2>2
    <3>2. \A a, b \in positions : rank[a] = m /\ rank[b] = n => a < b
      BY <1>3, <2>1, <3>1
    <3>3. QED
      BY <1>6, <3>2
  <2>3. QED
    BY <2>2
<1>9. \A at \in positions : rank[at] \in 1..count /\ Nth(positions, rank[at]) = at
  <2> HIDE DEF rank
  <2>1. QED
    BY <1>2, <1>4, <1>6
<1>10. QED
  <2>1. \A n \in 1..count : Cardinality(UpTo(positions, Nth(positions, n))) = n
    BY <1>6, <1>7
  <2>2. \A at \in positions :
          /\ Cardinality(UpTo(positions, at)) \in 1..count
          /\ Nth(positions, Cardinality(UpTo(positions, at))) = at
    BY <1>7, <1>9
  <2>3. QED
    BY <1>1, <1>6, <1>8, <2>1, <2>2

\* Picking keeps each row picked once.
LEMMA PickedLists ==
  ASSUME NEW set, NEW list, Lists(list, set), NEW positions \in SUBSET (1..Len(list))
  PROVE  /\ Lists(Picked(list, positions), {list[i] : i \in positions})
         /\ Len(Picked(list, positions)) = Cardinality(positions)
         /\ IsFiniteSet(positions)
<1> DEFINE count == Cardinality(positions)
           picked == Picked(list, positions)
           chosen == {list[i] : i \in positions}
<1>1. /\ Len(list) \in Nat /\ list \in [1..Len(list) -> set]
      /\ \A i, j \in 1..Len(list) : list[i] = list[j] => i = j
  BY ListIsAList
<1>2. IsFiniteSet(positions) /\ positions \in SUBSET Nat
  <2>1. IsFiniteSet(1..Len(list))
    BY <1>1, FS_Interval
  <2>2. IsFiniteSet(positions)
    BY <2>1, FS_Subset
  <2>3. QED
    BY <1>1, <2>2
<1>3. /\ count \in Nat
      /\ \A n \in 1..count : Nth(positions, n) \in positions
      /\ \A m, n \in 1..count : m < n => Nth(positions, m) < Nth(positions, n)
      /\ \A at \in positions : \E n \in 1..count : Nth(positions, n) = at
  BY <1>2, NthIs
<1>4. picked = [n \in 1..count |-> list[Nth(positions, n)]]
  BY DEF Picked
<1>5. picked \in [1..count -> chosen]
  BY <1>3, <1>4
<1>6. picked \in Seq(chosen) /\ Len(picked) = count
  BY <1>3, <1>4, <1>5, SeqDef
<1>7. \A x \in chosen : \E n \in 1..count : picked[n] = x
  BY <1>3, <1>4
<1>8. ASSUME NEW m \in 1..count, NEW n \in 1..count, picked[m] = picked[n]
      PROVE  m = n
  <2>1. Nth(positions, m) = Nth(positions, n)
    <3>1. Nth(positions, m) \in 1..Len(list) /\ Nth(positions, n) \in 1..Len(list)
      BY <1>3
    <3>2. picked[m] = list[Nth(positions, m)] /\ picked[n] = list[Nth(positions, n)]
      BY <1>4
    <3>3. QED
      BY <1>1, <1>8, <3>1, <3>2
  <2>2. \A at \in positions : ~(at < at)
    BY <1>2
  <2>3. ~(m < n) /\ ~(n < m)
    BY <1>3, <2>1, <2>2
  <2>4. QED
    BY <1>3, <2>3
<1> HIDE DEF count, picked, chosen
<1>9. Lists(picked, chosen)
  BY <1>6, <1>7, <1>8 DEF Lists
<1>10. QED
  BY <1>2, <1>6, <1>9 DEF count, picked, chosen

LEMMA AllPicked ==
  ASSUME NEW set, NEW list \in Seq(set)
  PROVE  Picked(list, 1..Len(list)) = list
<1>1. Len(list) \in Nat /\ DOMAIN list = 1..Len(list) /\ list \in [1..Len(list) -> set]
  BY LenProperties
<1> DEFINE n == Len(list)
<1>2. IsFiniteSet(1..n) /\ Cardinality(1..n) = n /\ 1..n \in SUBSET Nat
  BY <1>1, FS_Interval
<1>3. \A i \in 1..n : Nth(1..n, i) = i
  <2>1. ASSUME NEW i \in 1..n PROVE Nth(1..n, i) = i
    <3>1. UpTo(1..n, i) = 1..i
      BY <1>1 DEF UpTo
    <3>2. Cardinality(1..i) = i
      BY <1>1, FS_Interval
    <3>3. QED
      BY <1>2, <3>1, <3>2, NthIs
  <2>2. QED
    BY <2>1
<1>4. Picked(list, 1..n) = [i \in 1..n |-> list[i]]
  BY <1>2, <1>3 DEF Picked
<1>5. QED
  BY <1>1, <1>4

\* Keeping the rows of some places, or all but those.
LEMMA OnlyLists ==
  ASSUME NEW set, NEW list, Lists(list, set), NEW places
  PROVE  /\ Lists(Only(list, places), {r \in set : r.place \in places})
         /\ Lists(Without(list, places), {r \in set : r.place \notin places})
         /\ Len(Only(list, places)) + Len(Without(list, places)) = Len(list)
<1> DEFINE in == {i \in 1..Len(list) : list[i].place \in places}
           out == {i \in 1..Len(list) : list[i].place \notin places}
<1>1. /\ Len(list) \in Nat /\ DOMAIN list = 1..Len(list) /\ list \in [1..Len(list) -> set]
      /\ ToSet(list) = set
  BY ListIsAList
<1>2. Only(list, places) = Picked(list, in) /\ Without(list, places) = Picked(list, out)
  BY <1>1 DEF Only, Without
<1>3. in \in SUBSET (1..Len(list)) /\ out \in SUBSET (1..Len(list))
  OBVIOUS
<1>4. \A x \in set : \E i \in 1..Len(list) : list[i] = x
  BY DEF Lists
<1>5. {list[i] : i \in in} = {r \in set : r.place \in places}
  BY <1>1, <1>4
<1>6. {list[i] : i \in out} = {r \in set : r.place \notin places}
  BY <1>1, <1>4
<1>7. in \cup out = 1..Len(list) /\ in \cap out = {}
  OBVIOUS
<1> HIDE DEF in, out
<1>8. /\ Lists(Only(list, places), {r \in set : r.place \in places})
      /\ Lists(Without(list, places), {r \in set : r.place \notin places})
      /\ Len(Only(list, places)) = Cardinality(in)
      /\ Len(Without(list, places)) = Cardinality(out)
      /\ IsFiniteSet(in) /\ IsFiniteSet(out)
  <2>1. /\ Lists(Picked(list, in), {list[i] : i \in in})
        /\ Len(Picked(list, in)) = Cardinality(in) /\ IsFiniteSet(in)
    BY <1>3, PickedLists
  <2>2. /\ Lists(Picked(list, out), {list[i] : i \in out})
        /\ Len(Picked(list, out)) = Cardinality(out) /\ IsFiniteSet(out)
    BY <1>3, PickedLists
  <2>3. QED
    BY <1>2, <1>5, <1>6, <2>1, <2>2
<1>9. Cardinality(in) + Cardinality(out) = Len(list)
  <2>1. Cardinality(in \cup out) = Cardinality(in) + Cardinality(out) - Cardinality(in \cap out)
    BY <1>8, FS_Union
  <2>2. Cardinality(1..Len(list)) = Len(list)
    BY <1>1, FS_Interval
  <2>3. Cardinality(in) \in Nat /\ Cardinality(out) \in Nat
    BY <1>8, FS_CardinalityType
  <2>4. Cardinality(in \cap out) = 0
    BY <1>7, FS_EmptySet
  <2>5. Cardinality(in \cup out) = Len(list)
    BY <1>7, <2>2
  <2>6. QED
    BY <1>1, <2>1, <2>3, <2>4, <2>5
<1>10. QED
  BY <1>8, <1>9

LEMMA OnlyAll ==
  ASSUME NEW set, NEW list \in Seq(set), NEW places, \A r \in set : r.place \in places
  PROVE  Only(list, places) = list
<1>1. DOMAIN list = 1..Len(list) /\ list \in [1..Len(list) -> set]
  BY LenProperties
<1>2. {i \in DOMAIN list : list[i].place \in places} = 1..Len(list)
  BY <1>1
<1>3. QED
  BY <1>2, AllPicked DEF Only

-----------------------------------------------------------------------------
(* What a cut holds, and taking one row to the front.                      *)

LEMMA CutHolds ==
  ASSUME NEW set, NEW list \in Seq(set), NEW n \in Nat, n <= Len(list)
  PROVE  /\ ToSet(First(list, n)) = {list[i] : i \in 1..n}
         /\ ToSet(Past(list, n)) = {list[i] : i \in (n + 1)..Len(list)}
<1>1. /\ First(list, n) \in Seq(set) /\ Past(list, n) \in Seq(set)
      /\ Len(First(list, n)) = n /\ Len(Past(list, n)) = Len(list) - n
      /\ \A i \in 1..n : First(list, n)[i] = list[i]
      /\ \A i \in 1..(Len(list) - n) : Past(list, n)[i] = list[n + i]
  BY CutInTwo
<1>2. DOMAIN First(list, n) = 1..n /\ DOMAIN Past(list, n) = 1..(Len(list) - n)
  BY <1>1, LenProperties
<1>3. Len(list) \in Nat
  BY LenProperties
<1>4. ToSet(First(list, n)) = {list[i] : i \in 1..n}
  BY <1>1, <1>2 DEF ToSet
<1>5. ToSet(Past(list, n)) = {list[n + i] : i \in 1..(Len(list) - n)}
  BY <1>1, <1>2 DEF ToSet
<1>6. \A i \in 1..(Len(list) - n) : n + i \in (n + 1)..Len(list)
  BY <1>3
<1>7. \A i \in (n + 1)..Len(list) : i - n \in 1..(Len(list) - n) /\ n + (i - n) = i
  BY <1>3
<1>8. {list[n + i] : i \in 1..(Len(list) - n)} = {list[i] : i \in (n + 1)..Len(list)}
  BY <1>6, <1>7
<1>9. QED
  BY <1>4, <1>5, <1>8

\* The first row of a list, and what is left once it is let go of.
LEMMA HeadAndRest ==
  ASSUME NEW set, NEW list, Lists(list, set), list # <<>>
  PROVE  /\ Len(list) \in Nat /\ Len(list) >= 1 /\ list[1] \in set
         /\ First(list, 1) = <<list[1]>> /\ Tail(list) = Past(list, 1)
         /\ Lists(First(list, 1), {list[1]})
         /\ Lists(Past(list, 1), set \ {list[1]})
         /\ Len(Past(list, 1)) = Len(list) - 1
         /\ \A i \in 1..(Len(list) - 1) : Past(list, 1)[i] = list[i + 1]
<1>1. Len(list) \in Nat /\ list \in Seq(set) /\ list \in [1..Len(list) -> set]
  BY ListIsAList DEF Lists
<1>2. Len(list) >= 1 /\ 1 \in Nat /\ 1 <= Len(list)
  BY <1>1, EmptySeq
<1>3. list[1] \in set
  BY <1>1, <1>2
<1>4. /\ First(list, 1) \in Seq(set) /\ Len(First(list, 1)) = 1 /\ First(list, 1)[1] = list[1]
      /\ Len(Past(list, 1)) = Len(list) - 1
      /\ \A i \in 1..(Len(list) - 1) : Past(list, 1)[i] = list[i + 1]
  <2>1. /\ First(list, 1) \in Seq(set) /\ Len(First(list, 1)) = 1
        /\ \A i \in 1..1 : First(list, 1)[i] = list[i]
        /\ Len(Past(list, 1)) = Len(list) - 1
        /\ \A i \in 1..(Len(list) - 1) : Past(list, 1)[i] = list[1 + i]
    BY <1>1, <1>2, CutInTwo
  <2>2. 1 \in 1..1 /\ \A i \in 1..(Len(list) - 1) : 1 + i = i + 1
    BY <1>1
  <2>3. QED
    BY <2>1, <2>2
<1>5. First(list, 1) = <<list[1]>>
  BY <1>3, <1>4, SeqEqual
<1>6. Tail(list) = Past(list, 1)
  BY <1>1, TailIsSubSeq DEF Past
<1>7. /\ Lists(First(list, 1), ToSet(First(list, 1))) /\ Lists(Past(list, 1), ToSet(Past(list, 1)))
      /\ ToSet(First(list, 1)) \cup ToSet(Past(list, 1)) = set
      /\ ToSet(First(list, 1)) \cap ToSet(Past(list, 1)) = {}
  BY CutLists
<1>8. ToSet(First(list, 1)) = {list[1]}
  <2>1. ToSet(First(list, 1)) = {list[i] : i \in 1..1}
    BY <1>1, <1>2, CutHolds
  <2>2. QED
    BY <2>1
<1>9. ToSet(Past(list, 1)) = set \ {list[1]}
  BY <1>7, <1>8
<1>10. Lists(First(list, 1), {list[1]}) /\ Lists(Past(list, 1), set \ {list[1]})
  BY <1>7, <1>8, <1>9
<1>11. QED
  BY <1>1, <1>2, <1>3, <1>4, <1>5, <1>6, <1>10


LEMMA FrontedLists ==
  ASSUME NEW set, NEW list, Lists(list, set), NEW at \in 0..(Len(list) - 1)
  PROVE  /\ Lists(Fronted(list, at), set)
         /\ Fronted(list, at)[1] = list[at + 1]
         /\ Fronted(list, at) # <<>>
<1>1. /\ Len(list) \in Nat /\ list \in Seq(set)
      /\ \A i \in 1..Len(list) : list[i] \in set
      /\ \A i, j \in 1..Len(list) : list[i] = list[j] => i = j
  BY ListIsAList DEF Lists
<1>2. at \in Nat /\ at + 1 \in Nat /\ at + 1 \in 1..Len(list) /\ at <= Len(list)
      /\ at + 1 <= Len(list)
  BY <1>1
<1> DEFINE row == list[at + 1]
           before == First(list, at)
           behind == Past(list, at + 1)
<1>3. ToSet(before) = {list[i] : i \in 1..at} /\ Lists(before, ToSet(before))
  <2>1. ToSet(before) = {list[i] : i \in 1..at}
    BY <1>1, <1>2, CutHolds
  <2>2. Lists(before, ToSet(before))
    BY <1>2, CutLists
  <2>3. QED
    BY <2>1, <2>2
<1>4. /\ ToSet(behind) = {list[i] : i \in (at + 1 + 1)..Len(list)}
      /\ Lists(behind, ToSet(behind))
  <2>1. ToSet(behind) = {list[i] : i \in (at + 1 + 1)..Len(list)}
    BY <1>1, <1>2, CutHolds
  <2>2. Lists(behind, ToSet(behind))
    BY <1>2, CutLists
  <2>3. QED
    BY <2>1, <2>2
<1>5. Fronted(list, at) = <<row>> \o (before \o behind)
  <2>1. Least(at, Len(list)) = at
    BY <1>1, <1>2, LeastIs
  <2>2. at + 1 - 1 = at
    BY <1>2
  <2>3. before = SubSeq(list, 1, at)
    BY <2>1 DEF First
  <2>4. behind = SubSeq(list, at + 1 + 1, Len(list))
    BY DEF Past
  <2>5. PICK i : i = at + 1
    OBVIOUS
  <2>6. RemoveAt(list, at + 1) = before \o behind
    <3>1. RemoveAt(list, i) = SubSeq(list, 1, i - 1) \o SubSeq(list, i + 1, Len(list))
      BY DEF RemoveAt
    <3>2. i - 1 = at
      BY <2>2, <2>5
    <3>3. QED
      BY <2>3, <2>4, <2>5, <3>1, <3>2
  <2>7. QED
    BY <2>6 DEF Fronted
<1>6. row \in set /\ \A i \in 1..Len(list) : i # at + 1 => list[i] # row
  BY <1>1, <1>2
<1>7. row \notin ToSet(before) /\ row \notin ToSet(behind)
  <2>1. \A i \in 1..at : i \in 1..Len(list) /\ i # at + 1
    BY <1>1, <1>2
  <2>2. \A i \in (at + 1 + 1)..Len(list) : i \in 1..Len(list) /\ i # at + 1
    BY <1>1, <1>2
  <2>3. QED
    BY <1>3, <1>4, <1>6, <2>1, <2>2
<1>8. ToSet(before) \cap ToSet(behind) = {}
  <2>1. \A i \in 1..at, j \in (at + 1 + 1)..Len(list) :
          i \in 1..Len(list) /\ j \in 1..Len(list) /\ i # j
    BY <1>1, <1>2
  <2>2. \A i \in 1..at, j \in (at + 1 + 1)..Len(list) : list[i] # list[j]
    BY <1>1, <2>1
  <2>3. QED
    BY <1>3, <1>4, <2>2
<1>9. {row} \cup (ToSet(before) \cup ToSet(behind)) = set
  <2>1. \A i \in 1..Len(list) : i \in 1..at \/ i = at + 1 \/ i \in (at + 1 + 1)..Len(list)
    BY <1>1, <1>2
  <2>2. \A i : i \in 1..at \/ i \in (at + 1 + 1)..Len(list) => i \in 1..Len(list)
    BY <1>1, <1>2
  <2>3. \A x \in set : \E i \in 1..Len(list) : list[i] = x
    BY DEF Lists
  <2>4. \A x \in set : x \in {row} \cup (ToSet(before) \cup ToSet(behind))
    BY <1>3, <1>4, <2>1, <2>3
  <2>5. \A x \in ToSet(before) \cup ToSet(behind) : x \in set
    BY <1>1, <1>3, <1>4, <2>2
  <2>6. QED
    BY <1>6, <2>4, <2>5
<1> HIDE DEF row, before, behind
<1>10. Lists(before \o behind, ToSet(before) \cup ToSet(behind))
  BY <1>3, <1>4, <1>8, JoinedLists
<1> DEFINE rest == before \o behind
<1>11. Lists(<<row>> \o rest, set)
  <2>1. Lists(<<row>>, {row}) /\ {row} \cap (ToSet(before) \cup ToSet(behind)) = {}
    BY <1>7, OneLists
  <2> HIDE DEF rest
  <2>2. Lists(<<row>> \o rest, {row} \cup (ToSet(before) \cup ToSet(behind)))
    BY <1>10, <2>1, JoinedLists DEF rest
  <2>3. QED
    BY <1>9, <2>2
<1>12. (<<row>> \o rest)[1] = row
  <2>1. ToSet(before) \cup ToSet(behind) \in SUBSET set /\ {row} \in SUBSET set
    BY <1>6, <1>9
  <2>2. rest \in Seq(set)
    BY <1>10, <2>1, ListOfMore
  <2>3. <<row>> \in Seq(set) /\ Len(<<row>>) = 1 /\ <<row>>[1] = row
    BY <2>1, OneLists, ListOfMore
  <2>4. Len(rest) \in Nat
    BY <2>2, LenProperties
  <2> HIDE DEF rest
  <2>5. \A i \in 1..(Len(<<row>>) + Len(rest)) :
          (<<row>> \o rest)[i] = IF i <= Len(<<row>>) THEN <<row>>[i] ELSE rest[i - Len(<<row>>)]
    BY <2>2, <2>3, ConcatProperties
  <2>6. 1 \in 1..(Len(<<row>>) + Len(rest)) /\ 1 <= Len(<<row>>)
    BY <2>3, <2>4
  <2>7. QED
    BY <2>3, <2>5, <2>6
<1> HIDE DEF rest
<1>13. <<row>> \o rest # <<>>
  <2>1. ASSUME <<row>> \o rest = <<>> PROVE FALSE
    <3>1. Lists(<<>>, set)
      BY <1>11, <2>1
    <3>2. \E i \in 1..Len(<<>>) : <<>>[i] = row
      BY <1>6, <3>1 DEF Lists
    <3>3. QED
      BY <3>2, EmptySeq
  <2>2. QED
    BY <2>1
<1>14. QED
  BY <1>5, <1>11, <1>12, <1>13 DEF row, rest

-----------------------------------------------------------------------------
(* Shuffling, and finding a row.                                           *)

\* Every order a shuffle may leave lists the same rows.
LEMMA OrdersList ==
  ASSUME NEW set, NEW list, Lists(list, set), NEW order \in Orders(list)
  PROVE  Lists(order, set) /\ Len(order) = Len(list)
<1>1. PICK n \in Nat : n = Len(list)
  BY ListIsAList
<1>2. ToSet(list) = set /\ IsFiniteSet(set) /\ Cardinality(set) = n
  BY <1>1, ListIsAList, ListCounts
<1>3. order \in [1..n -> set] /\ \A i, j \in 1..n : i # j => order[i] # order[j]
  BY <1>2 DEF Orders, SetToSeqs
<1>4. order \in Seq(set) /\ Len(order) = n
  BY <1>3, SeqDef
<1>5. order \in Injection(1..n, set)
  BY <1>3 DEF Injection, IsInjective
<1>6. IsFiniteSet(1..n) /\ Cardinality(1..n) = n
  BY FS_Interval
<1>7. order \in Surjection(1..n, set)
  BY <1>2, <1>5, <1>6, FS_Injection
<1>8. QED
  BY <1>1, <1>3, <1>4, <1>7 DEF Lists, Surjection

LEMMA LeastIsThere ==
  ASSUME NEW positions \in SUBSET Nat, IsFiniteSet(positions), positions # {}
  PROVE  Min(positions) \in positions /\ \A i \in positions : Min(positions) <= i
<1>1. Cardinality(positions) \in Nat /\ Cardinality(positions) # 0
  BY FS_CardinalityType, FS_EmptySet
<1>2. 1 \in 1..Cardinality(positions)
  BY <1>1
<1>3. Nth(positions, 1) \in positions
  BY <1>2, NthIs
<1>4. ASSUME NEW i \in positions PROVE Nth(positions, 1) <= i
  <2>1. PICK n \in 1..Cardinality(positions) : Nth(positions, n) = i
    BY NthIs
  <2>2. n = 1 \/ 1 < n
    BY <1>1
  <2>3. 1 < n => Nth(positions, 1) < Nth(positions, n)
    BY <1>2, NthIs
  <2>4. Nth(positions, 1) \in Nat /\ i \in Nat
    BY <1>3
  <2>5. QED
    BY <2>1, <2>2, <2>3, <2>4
<1>5. \E a \in positions : \A i \in positions : a <= i
  BY <1>3, <1>4
<1>6. QED
  BY <1>5 DEF Min

LEMMA FoundIs ==
  ASSUME NEW set, NEW list \in Seq(set), NEW place
  PROVE  \/ /\ Found(list, place) = 0
            /\ \A i \in 1..Len(list) : list[i].place # place
         \/ /\ Found(list, place) \in 1..Len(list)
            /\ list[Found(list, place)].place = place
            /\ \A i \in 1..Len(list) : list[i].place = place => Found(list, place) <= i
<1> DEFINE where == {i \in 1..Len(list) : list[i].place = place}
<1>1. Len(list) \in Nat
  BY LenProperties
<1>2. IsFiniteSet(where) /\ where \in SUBSET Nat
  <2>1. IsFiniteSet(1..Len(list)) /\ where \in SUBSET (1..Len(list))
    BY <1>1, FS_Interval
  <2> HIDE DEF where
  <2>2. IsFiniteSet(where)
    BY <2>1, FS_Subset
  <2>3. QED
    BY <1>1, <2>1, <2>2
<1>3. Found(list, place) = IF where # {} THEN Min(where) ELSE 0
  BY DEF Found, SelectInSeq
<1>4. CASE where = {}
  BY <1>3, <1>4
<1>5. CASE where # {}
  <2>1. Min(where) \in where /\ \A i \in where : Min(where) <= i
    <3> HIDE DEF where
    <3>1. QED
      BY <1>2, <1>5, LeastIsThere
  <2>2. QED
    BY <1>3, <1>5, <2>1
<1>6. QED
  BY <1>4, <1>5


-----------------------------------------------------------------------------
(* Rows that no two share a place, and the stamps of them.                 *)

Apart(rows) == \A a, b \in rows : a.place = b.place => a = b

LEMMA PlacesAre ==
  ASSUME NEW set, NEW list, Lists(list, set)
  PROVE  Places(list) = {r.place : r \in set}
<1>1. DOMAIN list = 1..Len(list) /\ list \in [1..Len(list) -> set]
  BY ListIsAList
<1>2. \A x \in set : \E i \in 1..Len(list) : list[i] = x
  BY DEF Lists
<1>3. QED
  BY <1>1, <1>2 DEF Places

\* The stamp of rows none of which share a place: each mark is counted once or not at all.
Marked(rows) ==
  [mark \in Marks |-> IF \E r \in rows : <<r.place, r.stamped>> = mark THEN 1 ELSE 0]

LEMMA CountedIs ==
  ASSUME NEW set, NEW list, Lists(list, set), Apart(set), NEW mark \in Marks
  PROVE  Counted(list, mark) = IF \E r \in set : <<r.place, r.stamped>> = mark THEN 1 ELSE 0
<1>1. /\ DOMAIN list = 1..Len(list) /\ list \in [1..Len(list) -> set]
      /\ \A i, j \in 1..Len(list) : list[i] = list[j] => i = j
  BY ListIsAList
<1>2. \A x \in set : \E i \in 1..Len(list) : list[i] = x
  BY DEF Lists
<1> DEFINE at == {i \in 1..Len(list) : <<list[i].place, list[i].stamped>> = mark}
<1>3. Counted(list, mark) = Cardinality(at)
  BY <1>1 DEF Counted
<1>4. CASE \E r \in set : <<r.place, r.stamped>> = mark
  <2>1. PICK i \in 1..Len(list) : i \in at
    BY <1>2, <1>4
  <2>2. \A j \in at : j = i
    <3>1. ASSUME NEW j \in at PROVE j = i
      <4>1. list[i] \in set /\ list[j] \in set /\ list[i].place = list[j].place
        BY <1>1, <2>1
      <4>2. list[i] = list[j]
        BY <4>1 DEF Apart
      <4>3. QED
        BY <1>1, <4>2
    <3>2. QED
      BY <3>1
  <2>3. at = {i}
    BY <2>1, <2>2
  <2>4. QED
    BY <1>3, <1>4, <2>3, FS_Singleton
<1>5. CASE ~ \E r \in set : <<r.place, r.stamped>> = mark
  <2>1. at = {}
    BY <1>1, <1>5
  <2>2. QED
    BY <1>3, <1>5, <2>1, FS_EmptySet
<1>6. QED
  BY <1>4, <1>5

LEMMA UnstampedIs == Unstamped = Marked({})
  BY DEF Unstamped, Marked

LEMMA JoinedStamp ==
  ASSUME NEW held, NEW set, NEW list, Lists(list, set), Apart(held \cup set), held \cap set = {}
  PROVE  With(Marked(held), list) = Marked(held \cup set)
<1> DEFINE In(rows, mark) == \E r \in rows : <<r.place, r.stamped>> = mark
<1>1. Apart(set)
  BY DEF Apart
<1>2. ASSUME NEW mark \in Marks
      PROVE  Marked(held)[mark] + Counted(list, mark) = Marked(held \cup set)[mark]
  <2>1. Counted(list, mark) = IF In(set, mark) THEN 1 ELSE 0
    BY <1>1, CountedIs
  <2>2. /\ Marked(held)[mark] = IF In(held, mark) THEN 1 ELSE 0
        /\ Marked(held \cup set)[mark] = IF In(held \cup set, mark) THEN 1 ELSE 0
    BY DEF Marked
  <2>3. In(held \cup set, mark) <=> In(held, mark) \/ In(set, mark)
    OBVIOUS
  <2>4. ~(In(held, mark) /\ In(set, mark))
    <3>1. ASSUME NEW a \in held, NEW b \in set, <<a.place, a.stamped>> = <<b.place, b.stamped>>
          PROVE  FALSE
      <4>1. a \in held \cup set /\ b \in held \cup set /\ a.place = b.place
        BY <3>1
      <4>2. a = b
        BY <4>1 DEF Apart
      <4>3. QED
        BY <4>2
    <3>2. QED
      BY <3>1
  <2> HIDE DEF In
  <2>5. QED
    BY <2>1, <2>2, <2>3, <2>4
<1>3. QED
  BY <1>2 DEF With, Marked

LEMMA LeftStamp ==
  ASSUME NEW held, NEW set \in SUBSET held, NEW list, Lists(list, set), Apart(held)
  PROVE  Less(Marked(held), list) = Marked(held \ set)
<1> DEFINE In(rows, mark) == \E r \in rows : <<r.place, r.stamped>> = mark
<1>1. Apart(set)
  BY DEF Apart
<1>2. ASSUME NEW mark \in Marks
      PROVE  Marked(held)[mark] - Counted(list, mark) = Marked(held \ set)[mark]
  <2>1. Counted(list, mark) = IF In(set, mark) THEN 1 ELSE 0
    BY <1>1, CountedIs
  <2>2. /\ Marked(held)[mark] = IF In(held, mark) THEN 1 ELSE 0
        /\ Marked(held \ set)[mark] = IF In(held \ set, mark) THEN 1 ELSE 0
    BY DEF Marked
  <2>3. In(held, mark) <=> In(held \ set, mark) \/ In(set, mark)
    OBVIOUS
  <2>4. ~(In(held \ set, mark) /\ In(set, mark))
    <3>1. ASSUME NEW a \in held \ set, NEW b \in set, <<a.place, a.stamped>> = <<b.place, b.stamped>>
          PROVE  FALSE
      <4>1. a \in held /\ b \in held /\ a.place = b.place
        BY <3>1
      <4>2. a = b
        BY <4>1 DEF Apart
      <4>3. QED
        BY <4>2
    <3>2. QED
      BY <3>1
  <2> HIDE DEF In
  <2>5. QED
    BY <2>1, <2>2, <2>3, <2>4
<1>3. QED
  BY <1>2 DEF Less, Marked

-----------------------------------------------------------------------------
(* The order rows stand in unshuffled.                                     *)

LEMMA StandsAfterLists ==
  ASSUME NEW set, NEW standing, Lists(standing, set), NEW new, NEW run, Lists(run, new),
         set \cap new = {}, NEW place
  PROVE  Lists(StandsAfter(standing, place, run), set \cup new)
<1>1. standing \in Seq(set) /\ Len(standing) \in Nat
  BY ListIsAList DEF Lists
<1>2. Found(standing, place) = 0 \/ Found(standing, place) \in 1..Len(standing)
  BY <1>1, FoundIs
<1> DEFINE at == IF Found(standing, place) = 0 THEN Len(standing) ELSE Found(standing, place)
<1>3. at \in Nat
  BY <1>1, <1>2
<1>4. StandsAfter(standing, place, run) = Spliced(standing, at, run)
  BY DEF StandsAfter
<1> HIDE DEF at
<1>5. QED
  BY <1>3, <1>4, SplicedLists

\* One row more stands, unless it stood already.
LEMMA StoodLists ==
  ASSUME NEW set, NEW standing, Lists(standing, set), NEW rows, NEW order \in Seq(rows),
         Apart(set \cup rows), NEW at \in 0..(Len(order) - 1)
  PROVE  Lists(Stood(standing, order, at), set \cup {order[at + 1]})
<1> DEFINE row == order[at + 1]
<1>1. row \in rows
  <2>1. Len(order) \in Nat /\ order \in [1..Len(order) -> rows]
    BY LenProperties
  <2>2. at + 1 \in 1..Len(order)
    BY <2>1
  <2>3. QED
    BY <2>1, <2>2
<1>2. Places(standing) = {r.place : r \in set}
  BY PlacesAre
<1> HIDE DEF row
<1>3. CASE row.place \in Places(standing)
  <2>1. PICK r \in set : r.place = row.place
    BY <1>2, <1>3
  <2>2. r = row
    BY <1>1, <2>1 DEF Apart
  <2>3. set \cup {row} = set
    BY <2>2
  <2>4. Stood(standing, order, at) = standing
    BY <1>3 DEF Stood, row
  <2>5. QED
    BY <2>3, <2>4 DEF row
<1>4. CASE row.place \notin Places(standing)
  <2>1. set \cap {row} = {} /\ {row} \cap set = {}
    BY <1>2, <1>4
  <2>2. Lists(<<row>>, {row})
    BY OneLists
  <2>3. Lists(<<row>> \o standing, {row} \cup set)
    BY <2>1, <2>2, JoinedLists
  <2>4. Lists(standing \o <<row>>, set \cup {row})
    BY <2>1, <2>2, JoinedLists
  <2>5. \A place : Lists(StandsAfter(standing, place, <<row>>), set \cup {row})
    BY <2>1, <2>2, StandsAfterLists
  <2>6. Append(standing, row) = standing \o <<row>>
    <3>1. standing \in Seq(set \cup {row}) /\ row \in set \cup {row}
      <4>1. set \in SUBSET (set \cup {row})
        OBVIOUS
      <4>2. QED
        BY <4>1, ListOfMore
    <3>2. QED
      BY <3>1, AppendIsConcat
  <2>7. {row} \cup set = set \cup {row}
    OBVIOUS
  <2>8. \/ Stood(standing, order, at) = <<row>> \o standing
        \/ Stood(standing, order, at) = Append(standing, row)
        \/ Stood(standing, order, at) = StandsAfter(standing, order[at].place, <<row>>)
    <3>1. CASE at = 0
      BY <1>4, <3>1 DEF Stood, row
    <3>2. CASE at # 0 /\ at = Len(order) - 1
      <4>1. at > 0
        BY <3>2
      <4>2. QED
        BY <1>4, <3>2, <4>1 DEF Stood, row
    <3>3. CASE at # 0 /\ at # Len(order) - 1
      BY <1>4, <3>3 DEF Stood, row
    <3>4. QED
      BY <3>1, <3>2, <3>3
  <2>9. Lists(Stood(standing, order, at), set \cup {row})
    BY <2>3, <2>4, <2>5, <2>6, <2>7, <2>8
  <2>10. QED
    BY <2>9 DEF row
<1>5. QED
  BY <1>3, <1>4

\* The standings left row after row.
StoodInTurn(stood, standing, order, from, count) ==
  stood = [n \in 0..count |->
             IF n = 0 THEN standing ELSE Stood(stood[n - 1], order, from + n - 1)]

LEMMA ThereAreStandings ==
  ASSUME NEW standing, NEW order, NEW from \in Nat, NEW count \in Nat
  PROVE  \E stood : StoodInTurn(stood, standing, order, from, count)
<1> DEFINE None == {n \in 0..count : ~ \E stood : StoodInTurn(stood, standing, order, from, n)}
<1>1. ASSUME None # {} PROVE FALSE
  <2>1. None \in SUBSET Nat /\ IsFiniteSet(None)
    <3>1. IsFiniteSet(0..count) /\ None \in SUBSET (0..count)
      BY FS_Interval
    <3> HIDE DEF None
    <3>2. IsFiniteSet(None)
      BY <3>1, FS_Subset
    <3>3. QED
      BY <3>1, <3>2
  <2>2. PICK m \in None : \A n \in None : m <= n
    <3> HIDE DEF None
    <3>1. QED
      BY <1>1, <2>1, LeastIsThere
  <2>3. m \in 0..count /\ ~ \E stood : StoodInTurn(stood, standing, order, from, m)
    BY <2>2
  <2>4. CASE m = 0
    <3>1. StoodInTurn([n \in 0..0 |-> standing], standing, order, from, 0)
      BY DEF StoodInTurn
    <3>2. QED
      BY <2>3, <2>4, <3>1
  <2>5. CASE m # 0
    <3>1. m - 1 \in 0..count /\ ~(m <= m - 1) /\ m \in Nat
      BY <2>3, <2>5
    <3>2. m - 1 \notin None
      BY <2>2, <3>1
    <3>3. PICK before : StoodInTurn(before, standing, order, from, m - 1)
      BY <3>1, <3>2
    <3> DEFINE stood == [n \in 0..m |-> IF n = m THEN Stood(before[m - 1], order, from + m - 1)
                                        ELSE before[n]]
    <3>4. \A n \in 0..(m - 1) :
            before[n] = IF n = 0 THEN standing ELSE Stood(before[n - 1], order, from + n - 1)
      BY <3>3 DEF StoodInTurn
    <3>5. \A n \in 0..m : n # m => n \in 0..(m - 1) /\ (n # 0 => n - 1 \in 0..m /\ n - 1 # m)
      BY <3>1
    <3>6. m - 1 \in 0..m /\ m - 1 # m
      BY <2>5, <3>1
    <3>7. \A n \in 0..m :
            stood[n] = IF n = 0 THEN standing ELSE Stood(stood[n - 1], order, from + n - 1)
      BY <2>5, <3>4, <3>5, <3>6
    <3>8. StoodInTurn(stood, standing, order, from, m)
      <4>1. stood = [n \in 0..m |-> stood[n]]
        OBVIOUS
      <4> HIDE DEF stood
      <4>2. QED
        BY <3>7, <4>1 DEF StoodInTurn
    <3>9. QED
      BY <2>3, <3>8
  <2>6. QED
    BY <2>4, <2>5
<1>2. count \in 0..count
  OBVIOUS
<1>3. QED
  BY <1>1, <1>2


LEMMA UnshuffledIs ==
  ASSUME NEW standing, NEW order, NEW from \in Nat, NEW count \in Nat
  PROVE  \E stood : /\ StoodInTurn(stood, standing, order, from, count)
                    /\ UnshuffledIn(standing, order, from, count) = stood[count]
<1> DEFINE stood ==
      CHOOSE f : f = [n \in 0..count |->
                        IF n = 0 THEN standing ELSE Stood(f[n - 1], order, from + n - 1)]
<1>1. \E f : f = [n \in 0..count |->
                    IF n = 0 THEN standing ELSE Stood(f[n - 1], order, from + n - 1)]
  <2>1. PICK f : StoodInTurn(f, standing, order, from, count)
    BY ThereAreStandings
  <2>2. f = [n \in 0..count |->
               IF n = 0 THEN standing ELSE Stood(f[n - 1], order, from + n - 1)]
    BY <2>1 DEF StoodInTurn
  <2>3. QED
    BY <2>2
<1>2. StoodInTurn(stood, standing, order, from, count)
  BY <1>1 DEF StoodInTurn
<1>3. UnshuffledIn(standing, order, from, count) = stood[count]
  BY DEF UnshuffledIn
<1> HIDE DEF stood
<1>4. QED
  BY <1>2, <1>3

\* Rows of an order that are to stand do, whatever stood before.
LEMMA UnshuffledLists ==
  ASSUME NEW set, NEW standing, Lists(standing, set), NEW rows, NEW order \in Seq(rows),
         Apart(set \cup rows), NEW from \in Nat, NEW count \in Nat,
         from + count <= Len(order)
  PROVE  Lists(UnshuffledIn(standing, order, from, count),
               set \cup {order[i] : i \in (from + 1)..(from + count)})
<1> DEFINE Upto(n) == set \cup {order[i] : i \in (from + 1)..(from + n)}
<1>1. PICK stood : /\ StoodInTurn(stood, standing, order, from, count)
                   /\ UnshuffledIn(standing, order, from, count) = stood[count]
  BY UnshuffledIs
<1>2. /\ stood[0] = standing
      /\ \A n \in 0..count : n # 0 => stood[n] = Stood(stood[n - 1], order, from + n - 1)
  <2>1. 0 \in 0..count
    OBVIOUS
  <2>2. QED
    BY <1>1, <2>1 DEF StoodInTurn
<1>3. Len(order) \in Nat /\ \A i \in 1..Len(order) : order[i] \in rows
  BY LenProperties
<1> DEFINE Not == {n \in 0..count : ~Lists(stood[n], Upto(n))}
<1>4. ASSUME Not # {} PROVE FALSE
  <2>1. Not \in SUBSET Nat /\ IsFiniteSet(Not)
    <3>1. IsFiniteSet(0..count) /\ Not \in SUBSET (0..count)
      BY FS_Interval
    <3> HIDE DEF Not
    <3>2. IsFiniteSet(Not)
      BY <3>1, FS_Subset
    <3>3. QED
      BY <3>1, <3>2
  <2>2. PICK m \in Not : \A n \in Not : m <= n
    <3> HIDE DEF Not
    <3>1. QED
      BY <1>4, <2>1, LeastIsThere
  <2>3. m \in 0..count /\ ~Lists(stood[m], Upto(m))
    BY <2>2
  <2>4. CASE m = 0
    <3>1. (from + 1)..(from + 0) = {}
      OBVIOUS
    <3>2. Upto(0) = set
      BY <3>1
    <3> HIDE DEF Upto, Not
    <3>3. QED
      BY <1>2, <2>3, <2>4, <3>2
  <2>5. CASE m # 0
    <3>1. m - 1 \in 0..count /\ ~(m <= m - 1) /\ m \in Nat /\ m <= count
      BY <2>3, <2>5
    <3>2. Lists(stood[m - 1], Upto(m - 1))
      BY <2>2, <3>1
    <3>3. from + m - 1 \in 0..(Len(order) - 1) /\ (from + m - 1) + 1 = from + m
      BY <1>3, <3>1, <2>5
    <3>4. Apart(Upto(m - 1) \cup rows)
      <4>1. \A i \in (from + 1)..(from + (m - 1)) : i \in 1..Len(order)
        BY <1>3, <3>1
      <4>2. Upto(m - 1) \cup rows \in SUBSET (set \cup rows)
        BY <1>3, <4>1
      <4> HIDE DEF Upto
      <4>3. QED
        BY <4>2 DEF Apart
    <3>5. Upto(m - 1) \cup {order[from + m]} = Upto(m)
      <4>1. (from + 1)..(from + m) = (from + 1)..(from + (m - 1)) \cup {from + m}
        BY <2>5, <3>1
      <4>2. QED
        BY <4>1
    <3> HIDE DEF Upto
    <3>6. PICK at : at = from + m - 1
      OBVIOUS
    <3>7. Lists(Stood(stood[m - 1], order, at), Upto(m - 1) \cup {order[at + 1]})
      BY <3>2, <3>3, <3>4, <3>6, StoodLists
    <3>8. stood[m] = Stood(stood[m - 1], order, at) /\ at + 1 = from + m
      BY <1>2, <2>3, <2>5, <3>3, <3>6
    <3>9. QED
      BY <2>3, <3>5, <3>7, <3>8
  <2>6. QED
    BY <2>4, <2>5
<1>5. Lists(stood[count], Upto(count))
  <2>1. count \in 0..count
    OBVIOUS
  <2>2. QED
    BY <1>4, <2>1
<1>6. QED
  BY <1>1, <1>5


=============================================================================
