--------------------------- MODULE JournalProofs ---------------------------
(***************************************************************************)
(* What Journal promises, for any pages, bounds and schedules of faults,   *)
(* under the premises its passing runs are made under: that nothing is     *)
(* torn, that it implements Retag, and that what other programs wrote      *)
(* stands.  The argument: of every file the disk may come back with, each  *)
(* page is one the record can make good (Between), and what is left of a   *)
(* job brings the track to one end of the write, touching no page but the  *)
(* record's (Brings); a call keeps both, and so does a power cut, which    *)
(* mixes only files that are all Between.                                  *)
(***************************************************************************)
EXTENDS Journal, FiniteSetTheorems, TLAPS

\* What one job left is on the disk before the next begins, no write over pages cuts the
\* track, and a whole copy is written in units a power cut leaves whole.
Premises == WritesBack /\ ~ShrinksInPlace /\ "whole" \notin TornWays

Pages == Cells \cup {"zeros", "mixed", "other"}
Tracks == {file \in Seq(Pages) : Len(file) >= 1}

PlainCalls ==
  [call : {"sync"}] \cup [call : {"cut"}, to : Nat \ {0}]
    \cup [call : {"put"}, page : Nat \ {0}, cell : Pages]
Calls == PlainCalls \cup [call : {"open", "close"}, by : {1}]

PutOf(file, page) == [call |-> "put", page |-> page, cell |-> file[page]]
SyncCall == [call |-> "sync"]
CutTo(length) == [call |-> "cut", to |-> length]

-----------------------------------------------------------------------------
(* The order pages are put in.                                             *)

\* Of some pages, how many are not past one of them.
Rank(pages, page) == {other \in pages : other <= page}

LEMMA RankRises ==
  ASSUME NEW pages \in SUBSET Nat, IsFiniteSet(pages), NEW a \in pages, NEW b \in pages, a < b
  PROVE  Cardinality(Rank(pages, a)) < Cardinality(Rank(pages, b))
<1>1. IsFiniteSet(Rank(pages, a)) /\ IsFiniteSet(Rank(pages, b))
  <2>1. Rank(pages, a) \in SUBSET pages /\ Rank(pages, b) \in SUBSET pages
    BY DEF Rank
  <2>2. QED
    BY <2>1, FS_Subset
<1>2. Rank(pages, a) \in SUBSET Rank(pages, b) /\ b \in Rank(pages, b) \ Rank(pages, a)
  <2>1. a \in Nat /\ b \in Nat /\ b <= b /\ ~(b <= a)
    OBVIOUS
  <2>2. \A other \in pages : other <= a => other <= b
    <3>1. \A other \in Nat : other <= a => other <= b
      BY <2>1
    <3>2. QED
      BY <3>1
  <2>3. QED
    BY <2>1, <2>2 DEF Rank
<1>3. Cardinality(Rank(pages, a)) <= Cardinality(Rank(pages, b))
  BY <1>1, <1>2, FS_Subset
<1>4. Cardinality(Rank(pages, a)) # Cardinality(Rank(pages, b))
  BY <1>1, <1>2, FS_Subset
<1>5. QED
  BY <1>1, <1>3, <1>4, FS_CardinalityType

LEMMA RankWithin ==
  ASSUME NEW pages \in SUBSET Nat, IsFiniteSet(pages), NEW page \in pages
  PROVE  Cardinality(Rank(pages, page)) \in 1..Cardinality(pages)
<1>1. Rank(pages, page) \in SUBSET pages /\ page \in Rank(pages, page)
  BY DEF Rank
<1>2. /\ IsFiniteSet(Rank(pages, page))
      /\ Cardinality(Rank(pages, page)) <= Cardinality(pages)
  BY <1>1, FS_Subset
<1>3. Cardinality(Rank(pages, page)) # 0
  BY <1>1, <1>2, FS_EmptySet
<1>4. QED
  BY <1>2, <1>3, FS_CardinalityType

\* There is one order from the first page on, and InTurn is it: every page has its turn.
LEMMA InTurnIsInTurn ==
  ASSUME NEW pages \in SUBSET Nat, IsFiniteSet(pages)
  PROVE  /\ Cardinality(pages) \in Nat
         /\ InTurn(pages) \in [1..Cardinality(pages) -> pages]
         /\ \A i, j \in 1..Cardinality(pages) : i < j => InTurn(pages)[i] < InTurn(pages)[j]
         /\ \A page \in pages : \E i \in 1..Cardinality(pages) : InTurn(pages)[i] = page
<1> DEFINE n == Cardinality(pages)
           rank == [page \in pages |-> Cardinality(Rank(pages, page))]
           Rising(order) == \A i, j \in 1..n : i < j => order[i] < order[j]
<1>1. n \in Nat /\ IsFiniteSet(1..n) /\ Cardinality(1..n) = n
  BY FS_CardinalityType, FS_Interval
<1>2. rank \in [pages -> 1..n]
  BY RankWithin
<1>3. \A a, b \in pages : a < b => rank[a] < rank[b]
  BY RankRises
<1>4. rank \in Injection(pages, 1..n)
  <2>1. \A a, b \in pages : rank[a] = rank[b] => a = b
    <3>1. \A a, b \in pages : a = b \/ a < b \/ b < a
      OBVIOUS
    <3>2. \A a \in pages : rank[a] \in Int
      BY <1>1, <1>2
    <3> HIDE DEF rank
    <3>3. QED
      BY <1>3, <3>1, <3>2
  <2> HIDE DEF rank
  <2>2. QED
    BY <1>2, <2>1 DEF Injection, IsInjective
<1> HIDE DEF rank
<1>5. rank \in Surjection(pages, 1..n)
  BY <1>1, <1>4, FS_Injection
<1>6. \A i \in 1..n : \E page \in pages : rank[page] = i
  BY <1>5 DEF Surjection
<1>7. \E order \in [1..n -> pages] : Rising(order)
  <2> DEFINE order == [i \in 1..n |-> CHOOSE page \in pages : rank[page] = i]
  <2>1. order \in [1..n -> pages] /\ \A i \in 1..n : rank[order[i]] = i
    BY <1>6
  <2>2. ASSUME NEW i \in 1..n, NEW j \in 1..n, i < j
        PROVE  order[i] < order[j]
    <3>1. order[i] \in pages /\ order[j] \in pages /\ rank[order[i]] = i /\ rank[order[j]] = j
      BY <2>1
    <3>2. i \in Nat /\ j \in Nat /\ i # j /\ ~(j < i)
      BY <1>1, <2>2
    <3> HIDE DEF order
    <3>3. \A a, b \in pages : rank[a] = i /\ rank[b] = j => a < b
      <4>1. \A a, b \in pages : a = b \/ a < b \/ b < a
        OBVIOUS
      <4>2. QED
        BY <1>3, <3>2, <4>1
    <3>4. QED
      BY <3>1, <3>3
  <2> HIDE DEF order
  <2>3. QED
    BY <2>1, <2>2
<1>8. InTurn(pages) \in [1..n -> pages] /\ Rising(InTurn(pages))
  BY <1>7 DEF InTurn
<1>9. InTurn(pages) \in Injection(1..n, pages)
  <2>1. \A i, j \in 1..n : InTurn(pages)[i] = InTurn(pages)[j] => i = j
    <3>1. \A i, j \in 1..n : i = j \/ i < j \/ j < i
      BY <1>1
    <3>2. \A i \in 1..n : InTurn(pages)[i] \in Nat
      BY <1>8
    <3>3. QED
      BY <1>8, <3>1, <3>2
  <2>2. QED
    BY <1>8, <2>1 DEF Injection, IsInjective
<1>10. InTurn(pages) \in Surjection(1..n, pages)
  BY <1>1, <1>9, FS_Injection
<1>11. QED
  BY <1>1, <1>8, <1>10 DEF Surjection

\* What is put of a file: some of its pages, from the first on, as the file has them.
LEMMA PutsInTurn ==
  ASSUME NEW file \in Tracks, NEW pages \in SUBSET DOMAIN file
  PROVE  LET puts == Puts(file, pages)
             n == Cardinality(pages)
         IN  /\ n \in Nat /\ puts \in Seq(PlainCalls) /\ Len(puts) = n
             /\ \A i \in 1..n : \E page \in pages : puts[i] = PutOf(file, page)
             /\ \A page \in pages : \E i \in 1..n : puts[i] = PutOf(file, page)
             /\ \A i, j \in 1..n : i < j => puts[i].page < puts[j].page
<1> DEFINE puts == Puts(file, pages)
           n == Cardinality(pages)
           turn == InTurn(pages)
<1>1. pages \in SUBSET Nat /\ IsFiniteSet(pages) /\ DOMAIN file = 1..Len(file) /\ Len(file) \in Nat
  <2>1. DOMAIN file = 1..Len(file) /\ Len(file) \in Nat
    BY DEF Tracks
  <2>2. IsFiniteSet(1..Len(file))
    BY <2>1, FS_Interval
  <2>3. QED
    BY <2>1, <2>2, FS_Subset
<1>2. /\ n \in Nat /\ turn \in [1..n -> pages]
      /\ \A i, j \in 1..n : i < j => turn[i] < turn[j]
      /\ \A page \in pages : \E i \in 1..n : turn[i] = page
  BY <1>1, InTurnIsInTurn
<1>3. puts = [i \in 1..n |-> PutOf(file, turn[i])]
  BY DEF Puts, PutOf
<1> HIDE DEF puts, turn, n
<1>4. \A page \in pages : PutOf(file, page) \in PlainCalls /\ PutOf(file, page).page = page
  <2>1. ASSUME NEW page \in pages
        PROVE  page \in Nat \ {0} /\ file[page] \in Pages
    BY <1>1 DEF Tracks
  <2>2. QED
    BY <2>1 DEF PutOf, PlainCalls
<1>5. \A i \in 1..n : turn[i] \in pages /\ puts[i] = PutOf(file, turn[i])
  BY <1>2, <1>3
<1>6. puts \in [1..n -> PlainCalls]
  BY <1>3, <1>4, <1>5
<1>7. puts \in Seq(PlainCalls) /\ Len(puts) = n
  BY <1>2, <1>6
<1>8. \A i, j \in 1..n : i < j => puts[i].page < puts[j].page
  BY <1>2, <1>4, <1>5
<1>9. QED
  BY <1>2, <1>5, <1>7, <1>8 DEF puts, n

-----------------------------------------------------------------------------
(* What a call makes of a track.                                           *)

LEMMA PutIsWhere ==
  ASSUME NEW file \in Tracks, NEW at \in Nat \ {0}, NEW cell \in Pages
  PROVE  LET next == Put(file, at, cell)
         IN  /\ next \in Tracks /\ at \in DOMAIN next /\ next[at] = cell
             /\ Len(next) \in {Len(file), at} /\ Len(next) >= Len(file) /\ Len(next) >= at
             /\ \A page \in DOMAIN file : page # at => page \in DOMAIN next /\ next[page] = file[page]
<1> DEFINE next == Put(file, at, cell)
           length == IF Len(file) > at THEN Len(file) ELSE at
<1>1. Len(file) \in Nat /\ file \in [1..Len(file) -> Pages] /\ DOMAIN file = 1..Len(file)
  BY DEF Tracks
<1>2. next = [page \in 1..length |->
                IF page = at THEN cell ELSE IF page <= Len(file) THEN file[page] ELSE "zeros"]
  BY DEF Put, Greatest
<1>3. length \in Nat /\ length >= 1 /\ length >= at /\ length >= Len(file)
  BY <1>1
<1> HIDE DEF next, length
<1>4. next \in [1..length -> Pages]
  BY <1>1, <1>2 DEF Pages
<1>5. next \in Seq(Pages) /\ Len(next) = length /\ DOMAIN next = 1..length
  BY <1>3, <1>4
<1>6. next \in Tracks
  BY <1>3, <1>5 DEF Tracks
<1>7. \A page \in 1..length : next[page] =
         IF page = at THEN cell ELSE IF page <= Len(file) THEN file[page] ELSE "zeros"
  BY <1>2
<1>8. \A page \in DOMAIN file : page # at => page \in DOMAIN next /\ next[page] = file[page]
  BY <1>1, <1>3, <1>5, <1>7
<1>9. length \in {Len(file), at}
  BY DEF length
<1>10. next[at] = cell
  BY <1>3, <1>7
<1>11. QED
  BY <1>3, <1>5, <1>6, <1>8, <1>9, <1>10 DEF next

LEMMA CutIsWhere ==
  ASSUME NEW file \in Tracks, NEW length \in Nat \ {0}
  PROVE  LET next == Cut(file, length)
         IN  /\ next \in Tracks /\ Len(next) = length
             /\ \A page \in DOMAIN next : page <= Len(file) => next[page] = file[page]
<1> DEFINE next == Cut(file, length)
<1>1. Len(file) \in Nat /\ file \in [1..Len(file) -> Pages] /\ DOMAIN file = 1..Len(file)
  BY DEF Tracks
<1>2. next = [page \in 1..length |-> IF page <= Len(file) THEN file[page] ELSE "zeros"]
  BY DEF Cut
<1> HIDE DEF next
<1>3. next \in [1..length -> Pages]
  BY <1>1, <1>2 DEF Pages
<1>4. next \in Seq(Pages) /\ Len(next) = length /\ DOMAIN next = 1..length
  BY <1>3
<1>5. next \in Tracks
  BY <1>4 DEF Tracks
<1>6. \A page \in 1..length : page <= Len(file) => next[page] = file[page]
  BY <1>2
<1>7. QED
  BY <1>4, <1>5, <1>6 DEF next

\* A plain call of any kind leaves a track.
LEMMA PlainCallLeavesATrack ==
  ASSUME NEW file \in Tracks, NEW step \in PlainCalls
  PROVE  Made(file, step) \in Tracks /\ step.call \in {"sync", "cut", "put"}
<1>1. CASE step \in [call : {"sync"}]
  <2>1. step.call = "sync"
    BY <1>1
  <2>2. QED
    BY <2>1 DEF Made
<1>2. CASE step \in [call : {"cut"}, to : Nat \ {0}]
  <2>1. step.call = "cut" /\ step.to \in Nat \ {0}
    BY <1>2
  <2>2. Made(file, step) = Cut(file, step.to)
    BY <2>1 DEF Made
  <2>3. QED
    BY <2>1, <2>2, CutIsWhere
<1>3. CASE step \in [call : {"put"}, page : Nat \ {0}, cell : Pages]
  <2>1. step.call = "put" /\ step.page \in Nat \ {0} /\ step.cell \in Pages
    BY <1>3
  <2>2. Made(file, step) = Put(file, step.page, step.cell)
    BY <2>1 DEF Made
  <2>3. Put(file, step.page, step.cell) \in Tracks
    BY <2>1, PutIsWhere, Zenon
  <2>4. QED
    BY <2>1, <2>2, <2>3
<1>4. QED
  BY <1>1, <1>2, <1>3 DEF PlainCalls

-----------------------------------------------------------------------------
(* A job that brings a track to what it is to be.                          *)

\* The calls left bring a file to another, and put none but some pages: what does not stand
\* yet is still to be put, pages are put from the first on, a cut never adds to the file,
\* and the disk is waited for last.
Brings(file, todo, to, pages) ==
  /\ todo \in Seq(PlainCalls)
  /\ \A i \in DOMAIN todo :
       \/ todo[i] = SyncCall \/ todo[i] = CutTo(Len(to))
       \/ \E page \in pages \cap DOMAIN to : todo[i] = PutOf(to, page)
  /\ todo # <<>> => todo[Len(todo)] = SyncCall
  /\ \A page \in DOMAIN to :
       \/ page <= Len(file) /\ file[page] = to[page]
       \/ \E i \in DOMAIN todo : todo[i] = PutOf(to, page)
  /\ Len(file) <= Len(to) \/ \E i \in DOMAIN todo : todo[i] = CutTo(Len(to))
  /\ \A i, j \in DOMAIN todo :
       i < j /\ todo[i].call = "put" /\ todo[j].call = "put" => todo[i].page < todo[j].page
  /\ \A i, j \in DOMAIN todo :
       i < j /\ todo[i].call = "cut" /\ todo[j].call = "put" => Len(to) <= Len(file)

\* What a call of such a job makes of a file: no page is new but one it is to have.
Closer(file, to, pages, next) ==
  /\ next \in Tracks
  /\ Len(next) >= Least(Len(file), Len(to)) /\ Len(next) <= Greatest(Len(file), Len(to))
  /\ \A page \in DOMAIN next :
       \/ page <= Len(file) /\ next[page] = file[page]
       \/ page \in pages \cap DOMAIN to /\ next[page] = to[page]

LEMMA CallKinds ==
  ASSUME NEW to \in Tracks, NEW page \in DOMAIN to
  PROVE  /\ SyncCall \in PlainCalls /\ SyncCall.call = "sync"
         /\ CutTo(Len(to)) \in PlainCalls /\ CutTo(Len(to)).call = "cut" /\ CutTo(Len(to)).to = Len(to)
         /\ PutOf(to, page) \in PlainCalls /\ PutOf(to, page).call = "put"
         /\ PutOf(to, page).page = page /\ PutOf(to, page).cell = to[page]
<1>1. Len(to) \in Nat \ {0} /\ page \in Nat \ {0} /\ to[page] \in Pages
  BY DEF Tracks
<1>2. QED
  BY <1>1 DEF SyncCall, CutTo, PutOf, PlainCalls

\* Nothing is left to do where everything is done.
LEMMA BroughtIsThere ==
  ASSUME NEW file \in Tracks, NEW to \in Tracks, NEW pages, Brings(file, <<>>, to, pages)
  PROVE  file = to
<1>1. \A page \in DOMAIN to : page <= Len(file) /\ file[page] = to[page]
  BY DEF Brings
<1>2. Len(file) <= Len(to)
  BY DEF Brings
<1>3. /\ Len(file) \in Nat /\ file \in [1..Len(file) -> Pages]
      /\ Len(to) \in Nat /\ Len(to) >= 1 /\ to \in [1..Len(to) -> Pages] /\ DOMAIN to = 1..Len(to)
  BY DEF Tracks
<1>4. Len(to) <= Len(file)
  BY <1>1, <1>3
<1>5. QED
  BY <1>1, <1>2, <1>3, <1>4

\* What is left of some calls once the first is made.
LEMMA RestOf ==
  ASSUME NEW S, NEW todo \in Seq(S), todo # <<>>
  PROVE  /\ Len(todo) \in Nat \ {0} /\ 1 \in DOMAIN todo /\ Head(todo) = todo[1]
         /\ Tail(todo) \in Seq(S) /\ Len(Tail(todo)) = Len(todo) - 1
         /\ Tail(todo) = <<>> => Len(todo) = 1
         /\ \A i \in DOMAIN Tail(todo) : i + 1 \in DOMAIN todo /\ Tail(todo)[i] = todo[i + 1]
         /\ \A i \in DOMAIN todo : i = 1 \/ (i - 1 \in DOMAIN Tail(todo) /\ Tail(todo)[i - 1] = todo[i])
<1> DEFINE rest == Tail(todo)
<1>1. /\ Len(todo) \in Nat \ {0} /\ 1 \in DOMAIN todo /\ Head(todo) = todo[1]
      /\ rest \in Seq(S) /\ Len(rest) = Len(todo) - 1
      /\ \A i \in DOMAIN rest : i + 1 \in DOMAIN todo /\ rest[i] = todo[i + 1]
      /\ \A i \in DOMAIN todo : i = 1 \/ (i - 1 \in DOMAIN rest /\ rest[i - 1] = todo[i])
  OBVIOUS
<1>2. rest = <<>> => Len(todo) = 1
  <2> HIDE DEF rest
  <2>1. rest = <<>> => Len(rest) = 0
    OBVIOUS
  <2>2. QED
    BY <1>1, <2>1
<1>3. QED
  BY <1>1, <1>2

LEMMA BringsOn ==
  ASSUME NEW file \in Tracks, NEW next \in Tracks, NEW to \in Tracks, NEW pages, NEW todo,
         Brings(file, todo, to, pages), todo # <<>>,
         \A page \in DOMAIN to :
           page <= Len(file) /\ file[page] = to[page] => page <= Len(next) /\ next[page] = to[page],
         \A page \in DOMAIN to :
           Head(todo) = PutOf(to, page) => page <= Len(next) /\ next[page] = to[page],
         Len(file) <= Len(to) => Len(next) <= Len(to),
         Head(todo) = CutTo(Len(to)) => Len(next) <= Len(to),
         Len(to) <= Len(file) => Len(to) <= Len(next)
  PROVE  Brings(next, Tail(todo), to, pages)
<1> DEFINE rest == Tail(todo)
<1>1. todo \in Seq(PlainCalls)
  BY DEF Brings
<1>2. /\ Len(todo) \in Nat \ {0} /\ 1 \in DOMAIN todo /\ Head(todo) = todo[1]
      /\ rest \in Seq(PlainCalls) /\ Len(rest) = Len(todo) - 1
      /\ \A i \in DOMAIN rest : i + 1 \in DOMAIN todo /\ rest[i] = todo[i + 1]
      /\ \A i \in DOMAIN todo : i = 1 \/ (i - 1 \in DOMAIN rest /\ rest[i - 1] = todo[i])
  BY <1>1, RestOf
<1> HIDE DEF rest
<1>3. \A x : (\E i \in DOMAIN todo : todo[i] = x) => x = Head(todo) \/ \E i \in DOMAIN rest : rest[i] = x
  BY <1>2
<1>4. DOMAIN todo = 1..Len(todo) /\ DOMAIN rest = 1..Len(rest)
  BY <1>1, <1>2
<1>5. \A i, j \in DOMAIN rest : i < j => i + 1 \in DOMAIN todo /\ j + 1 \in DOMAIN todo /\ i + 1 < j + 1
  BY <1>2, <1>4
<1>6. \A i \in DOMAIN rest :
        \/ rest[i] = SyncCall \/ rest[i] = CutTo(Len(to))
        \/ \E page \in pages \cap DOMAIN to : rest[i] = PutOf(to, page)
  BY <1>2 DEF Brings
<1>7. rest # <<>> => rest[Len(rest)] = SyncCall
  <2> SUFFICES ASSUME rest # <<>> PROVE rest[Len(rest)] = SyncCall
    OBVIOUS
  <2>1. Len(rest) \in DOMAIN rest
    BY <1>2, <1>4
  <2>2. rest[Len(rest)] = todo[Len(todo)]
    BY <1>2, <2>1
  <2>3. QED
    BY <2>2 DEF Brings
<1>8. \A page \in DOMAIN to :
        \/ page <= Len(next) /\ next[page] = to[page]
        \/ \E i \in DOMAIN rest : rest[i] = PutOf(to, page)
  <2> TAKE page \in DOMAIN to
  <2>1. \/ page <= Len(file) /\ file[page] = to[page]
        \/ \E i \in DOMAIN todo : todo[i] = PutOf(to, page)
    BY DEF Brings
  <2>2. QED
    BY <1>3, <2>1
<1>9. Len(next) <= Len(to) \/ \E i \in DOMAIN rest : rest[i] = CutTo(Len(to))
  <2>1. Len(file) <= Len(to) \/ \E i \in DOMAIN todo : todo[i] = CutTo(Len(to))
    BY DEF Brings
  <2>2. QED
    BY <1>3, <2>1
<1>10. \A i, j \in DOMAIN rest :
         i < j /\ rest[i].call = "put" /\ rest[j].call = "put" => rest[i].page < rest[j].page
  <2> TAKE i, j \in DOMAIN rest
  <2>1. rest[i] = todo[i + 1] /\ rest[j] = todo[j + 1]
    BY <1>2
  <2>2. QED
    BY <1>5, <2>1 DEF Brings
<1>11. \A i, j \in DOMAIN rest :
         i < j /\ rest[i].call = "cut" /\ rest[j].call = "put" => Len(to) <= Len(next)
  <2> TAKE i, j \in DOMAIN rest
  <2>1. rest[i] = todo[i + 1] /\ rest[j] = todo[j + 1]
    BY <1>2
  <2>2. QED
    BY <1>5, <2>1 DEF Brings
<1>12. QED
  BY <1>2, <1>6, <1>7, <1>8, <1>9, <1>10, <1>11 DEF Brings, rest

\* A put comes to a page of the file, or to the one after its last.
LEMMA PutComesNext ==
  ASSUME NEW file \in Tracks, NEW to \in Tracks, NEW pages, NEW todo,
         Brings(file, todo, to, pages), todo # <<>>, NEW page \in DOMAIN to,
         Head(todo) = PutOf(to, page)
  PROVE  page <= Len(file) + 1
<1>1. todo \in Seq(PlainCalls)
  BY DEF Brings
<1>2. /\ 1 \in DOMAIN todo /\ Head(todo) = todo[1] /\ DOMAIN todo = 1..Len(todo)
  BY <1>1, RestOf
<1>3. /\ DOMAIN to = 1..Len(to) /\ Len(to) \in Nat /\ Len(file) \in Nat /\ page \in Nat
  BY DEF Tracks
<1> SUFFICES ASSUME page > Len(file) + 1 PROVE FALSE
  BY <1>3
<1> DEFINE gap == Len(file) + 1
<1>4. gap \in DOMAIN to /\ ~(gap <= Len(file)) /\ gap < page
  BY <1>3
<1> HIDE DEF gap
<1>5. PICK i \in DOMAIN todo : todo[i] = PutOf(to, gap)
  BY <1>4 DEF Brings
<1>6. /\ PutOf(to, gap).call = "put" /\ PutOf(to, gap).page = gap
      /\ PutOf(to, page).call = "put" /\ PutOf(to, page).page = page
  BY <1>4, CallKinds
<1>7. i # 1
  BY <1>2, <1>3, <1>4, <1>5, <1>6
<1>8. 1 < i
  BY <1>2, <1>7
<1>9. page < gap
  BY <1>2, <1>5, <1>6, <1>8 DEF Brings
<1>10. QED
  BY <1>3, <1>4, <1>9

\* A cut comes when the file is as long as it is to be, or longer.
LEMMA CutNeverAdds ==
  ASSUME NEW file \in Tracks, NEW to \in Tracks, NEW pages, NEW todo,
         Brings(file, todo, to, pages), todo # <<>>, Head(todo) = CutTo(Len(to))
  PROVE  Len(to) <= Len(file)
<1>1. todo \in Seq(PlainCalls)
  BY DEF Brings
<1>2. /\ 1 \in DOMAIN todo /\ Head(todo) = todo[1] /\ DOMAIN todo = 1..Len(todo)
  BY <1>1, RestOf
<1>3. /\ DOMAIN to = 1..Len(to) /\ Len(to) \in DOMAIN to /\ Len(to) \in Nat /\ Len(file) \in Nat
  BY DEF Tracks
<1>4. /\ CutTo(Len(to)).call = "cut" /\ PutOf(to, Len(to)).call = "put"
  BY <1>3, CallKinds
<1>5. CASE Len(to) <= Len(file) /\ file[Len(to)] = to[Len(to)]
  BY <1>5
<1>6. CASE \E i \in DOMAIN todo : todo[i] = PutOf(to, Len(to))
  <2>1. PICK i \in DOMAIN todo : todo[i] = PutOf(to, Len(to))
    BY <1>6
  <2>2. i # 1
    BY <1>2, <1>4, <2>1
  <2>3. 1 < i
    BY <1>2, <2>2
  <2>4. QED
    BY <1>2, <1>4, <2>1, <2>3 DEF Brings
<1>7. QED
  BY <1>3, <1>5, <1>6 DEF Brings

\* What Put makes of a file, one page of it put.
PutThere(file, at, cell, next) ==
  /\ at \in DOMAIN next /\ next[at] = cell
  /\ Len(next) = Len(file) \/ Len(next) = at
  /\ Len(next) >= Len(file) /\ Len(next) >= at
  /\ \A page \in DOMAIN file : page # at => page \in DOMAIN next /\ next[page] = file[page]

\* A put that comes to a page of the file, or to the one after its last, brings it closer.
LEMMA PutBringsCloser ==
  ASSUME NEW file \in Tracks, NEW to \in Tracks, NEW next \in Tracks, NEW pages,
         NEW at \in Nat \ {0}, at \in pages, at \in DOMAIN to, at <= Len(file) + 1,
         PutThere(file, at, to[at], next)
  PROVE  /\ Closer(file, to, pages, next)
         /\ \A page \in DOMAIN to :
              page <= Len(file) /\ file[page] = to[page] => page <= Len(next) /\ next[page] = to[page]
         /\ Len(file) <= Len(to) => Len(next) <= Len(to)
         /\ Len(to) <= Len(file) => Len(to) <= Len(next)
<1>1. DOMAIN file = 1..Len(file) /\ DOMAIN to = 1..Len(to) /\ DOMAIN next = 1..Len(next)
  BY DEF Tracks
<1>2. Len(file) \in Nat /\ Len(to) \in Nat /\ Len(next) \in Nat
  BY DEF Tracks
<1>3. DOMAIN to = 1..Len(to) /\ Len(to) \in Nat
  BY DEF Tracks
<1>4. at <= Len(to)
  BY <1>3
<1>5. (Len(next) = Len(file) \/ Len(next) = at) /\ Len(next) >= Len(file)
  BY DEF PutThere
<1>6. /\ Len(file) <= Len(to) => Len(next) <= Len(to)
      /\ Len(to) <= Len(file) => Len(to) <= Len(next)
  BY <1>2, <1>4, <1>5
<1>7. Len(next) >= Least(Len(file), Len(to)) /\ Len(next) <= Greatest(Len(file), Len(to))
  BY <1>2, <1>4, <1>5 DEF Least, Greatest
<1>8. ASSUME NEW page \in DOMAIN to, page <= Len(file), file[page] = to[page]
      PROVE  page <= Len(next) /\ next[page] = to[page]
  <2>1. page \in Nat /\ page >= 1
    BY <1>3
  <2>2. page \in DOMAIN file
    BY <1>1, <1>8, <2>1
  <2>3. page <= Len(next)
    BY <1>2, <1>5, <1>8, <2>1
  <2>4. QED
    BY <1>8, <2>2, <2>3 DEF PutThere
<1>9. ASSUME NEW page \in DOMAIN next
      PROVE  \/ page <= Len(file) /\ next[page] = file[page]
             \/ page \in pages \cap DOMAIN to /\ next[page] = to[page]
  <2>1. CASE page = at
    BY <2>1 DEF PutThere
  <2>2. CASE page # at
    <3>1. page \in Nat /\ page >= 1 /\ page <= Len(next)
      BY <1>1, <1>2
    <3>2. page <= Len(file)
      BY <1>2, <1>5, <2>2, <3>1
    <3>3. page \in DOMAIN file
      BY <1>1, <3>1, <3>2
    <3>4. QED
      BY <2>2, <3>2, <3>3 DEF PutThere
  <2>3. QED
    BY <2>1, <2>2
<1>10. QED
  BY <1>6, <1>7, <1>8, <1>9 DEF Closer

\* Each call of such a job brings the file closer, and the job goes on.
LEMMA CallBringsCloser ==
  ASSUME NEW file \in Tracks, NEW to \in Tracks, NEW pages, NEW todo,
         Brings(file, todo, to, pages), todo # <<>>
  PROVE  LET next == Made(file, Head(todo))
         IN  /\ Head(todo) \in PlainCalls
             /\ Closer(file, to, pages, next)
             /\ Brings(next, Tail(todo), to, pages)
             /\ Tail(todo) = <<>> => Head(todo) = SyncCall
<1> DEFINE step == Head(todo)
           next == Made(file, step)
<1>1. todo \in Seq(PlainCalls)
  BY DEF Brings
<1>2. /\ Len(todo) \in Nat \ {0} /\ 1 \in DOMAIN todo /\ step = todo[1]
      /\ Tail(todo) \in Seq(PlainCalls) /\ Len(Tail(todo)) = Len(todo) - 1
  BY <1>1, RestOf
<1>3. step \in PlainCalls
  BY <1>1, <1>2
<1>4. Tail(todo) = <<>> => step = SyncCall
  <2> SUFFICES ASSUME Tail(todo) = <<>> PROVE step = SyncCall
    OBVIOUS
  <2>1. Len(todo) = 1
    BY <1>1, RestOf
  <2>2. QED
    BY <1>2, <2>1 DEF Brings
<1>5. /\ DOMAIN file = 1..Len(file) /\ Len(file) \in Nat \ {0}
      /\ DOMAIN to = 1..Len(to) /\ Len(to) \in Nat \ {0} /\ 1 \in DOMAIN to
  BY DEF Tracks
<1>6. CASE step = SyncCall
  <2>1. next = file
    BY <1>5, <1>6, CallKinds DEF Made
  <2>2. \A page \in DOMAIN to : step # PutOf(to, page)
    BY <1>6, CallKinds
  <2>3. step # CutTo(Len(to))
    BY <1>5, <1>6, CallKinds
  <2> HIDE DEF next, step
  <2>4. Brings(next, Tail(todo), to, pages)
    BY <1>5, <2>1, <2>2, <2>3, BringsOn DEF step
  <2>5. Closer(file, to, pages, next)
    BY <1>5, <2>1 DEF Closer, Least, Greatest
  <2>6. QED
    BY <1>3, <1>4, <2>4, <2>5 DEF next, step
<1>7. CASE step = CutTo(Len(to))
  <2>1. step.call = "cut" /\ step.to = Len(to)
    BY <1>5, <1>7, CallKinds
  <2>2. next = Cut(file, Len(to))
    BY <2>1 DEF Made
  <2>3. Len(to) <= Len(file)
    BY <1>7, CutNeverAdds
  <2> HIDE DEF next
  <2>4. /\ next \in Tracks /\ Len(next) = Len(to) /\ DOMAIN next = 1..Len(next)
        /\ \A page \in DOMAIN next : page <= Len(file) => next[page] = file[page]
    <3>1. DOMAIN next = 1..Len(next) \/ next \notin Tracks
      BY DEF Tracks
    <3>2. QED
      BY <1>5, <2>2, <3>1, CutIsWhere
  <2>5. \A page \in DOMAIN to : step # PutOf(to, page)
    BY <2>1, CallKinds
  <2> HIDE DEF step
  <2>6. Brings(next, Tail(todo), to, pages)
    <3>1. \A page \in DOMAIN to :
           page <= Len(file) /\ file[page] = to[page] => page <= Len(next) /\ next[page] = to[page]
      BY <1>5, <2>4
    <3>2. QED
      BY <1>5, <2>4, <2>5, <3>1, BringsOn DEF step
  <2>7. Closer(file, to, pages, next)
    BY <1>5, <2>3, <2>4 DEF Closer, Least, Greatest
  <2>8. QED
    BY <1>3, <1>4, <2>6, <2>7 DEF next, step
<1>8. ASSUME NEW at \in Nat \ {0}, at \in pages, at \in DOMAIN to, step = PutOf(to, at)
      PROVE  Closer(file, to, pages, next) /\ Brings(next, Tail(todo), to, pages)
  <2> DEFINE cell == to[at]
  <2>1. step.call = "put" /\ step.page = at /\ step.cell = cell
    BY <1>8, CallKinds
  <2>2. cell \in Pages
    BY <1>5, <1>8 DEF Tracks
  <2>3. next = Put(file, at, cell)
    BY <2>1 DEF Made
  <2>4. at <= Len(file) + 1
    BY <1>8, PutComesNext
  <2> HIDE DEF next, step, cell
  <2>5. /\ \A page \in DOMAIN to : step = PutOf(to, page) => page = at
        /\ step # CutTo(Len(to))
    <3>1. \A page \in DOMAIN to : PutOf(to, page).page = page
      BY CallKinds
    <3>2. CutTo(Len(to)).call = "cut"
      BY <1>8, CallKinds
    <3>3. QED
      BY <2>1, <3>1, <3>2
  <2>6. next \in Tracks
    BY <2>2, <2>3, PutIsWhere
  <2>7. at \in DOMAIN next /\ next[at] = cell
    BY <2>2, <2>3, PutIsWhere
  <2>8. (Len(next) = Len(file) \/ Len(next) = at) /\ Len(next) >= Len(file) /\ Len(next) >= at
    BY <2>2, <2>3, PutIsWhere
  <2>9. \A page \in DOMAIN file : page # at => page \in DOMAIN next /\ next[page] = file[page]
    BY <2>2, <2>3, PutIsWhere
  <2>10. PutThere(file, at, to[at], next) /\ next[at] = to[at]
    BY <2>7, <2>8, <2>9 DEF cell, PutThere
  <2>11. /\ Closer(file, to, pages, next)
         /\ \A page \in DOMAIN to :
              page <= Len(file) /\ file[page] = to[page] => page <= Len(next) /\ next[page] = to[page]
         /\ Len(file) <= Len(to) => Len(next) <= Len(to)
         /\ Len(to) <= Len(file) => Len(to) <= Len(next)
    BY <1>8, <2>4, <2>6, <2>10, PutBringsCloser
  <2>12. \A page \in DOMAIN to :
          step = PutOf(to, page) => page <= Len(next) /\ next[page] = to[page]
    <3>1. at <= Len(next)
      BY <2>8
    <3>2. QED
      BY <2>5, <2>10, <3>1
  <2>13. Brings(next, Tail(todo), to, pages)
    BY <2>5, <2>6, <2>11, <2>12, BringsOn DEF step
  <2>14. QED
    BY <2>11, <2>13
<1>9. QED
  <2>1. \/ step = SyncCall \/ step = CutTo(Len(to))
        \/ \E page \in Nat \ {0} : page \in pages /\ page \in DOMAIN to /\ step = PutOf(to, page)
    BY <1>2, <1>5 DEF Brings
  <2>2. Closer(file, to, pages, next) /\ Brings(next, Tail(todo), to, pages)
    BY <1>6, <1>7, <1>8, <2>1
  <2>3. QED
    BY <1>3, <1>4, <2>2

-----------------------------------------------------------------------------
(* How a job is put together.                                              *)

\* Calls before some puts and after them.
LEMMA CutPutsSync ==
  ASSUME NEW S, NEW puts \in Seq(S), NEW a \in S, NEW b \in S
  PROVE  LET todo == <<a>> \o puts \o <<b>>
         IN  /\ todo \in Seq(S) /\ Len(todo) = Len(puts) + 2
             /\ todo[1] = a /\ todo[Len(puts) + 2] = b
             /\ \A i \in 1..Len(puts) : todo[i + 1] = puts[i]
  OBVIOUS

LEMMA PutsCutSync ==
  ASSUME NEW S, NEW puts \in Seq(S), NEW a \in S, NEW b \in S
  PROVE  LET todo == puts \o <<a>> \o <<b>>
         IN  /\ todo \in Seq(S) /\ Len(todo) = Len(puts) + 2
             /\ todo[Len(puts) + 1] = a /\ todo[Len(puts) + 2] = b
             /\ \A i \in 1..Len(puts) : todo[i] = puts[i]
  OBVIOUS

LEMMA PutsSync ==
  ASSUME NEW S, NEW puts \in Seq(S), NEW b \in S
  PROVE  LET todo == puts \o <<b>>
         IN  /\ todo \in Seq(S) /\ Len(todo) = Len(puts) + 1 /\ todo[Len(puts) + 1] = b
             /\ \A i \in 1..Len(puts) : todo[i] = puts[i]
  OBVIOUS

LEMMA FirstOf ==
  ASSUME NEW S, NEW todo \in Seq(S), NEW a \in S
  PROVE  /\ todo \o <<>> = todo
         /\ Head(<<a>> \o todo) = a /\ Tail(<<a>> \o todo) = todo /\ <<a>> \o todo # <<>>
         /\ <<a>> \o todo \in Seq(S)
  OBVIOUS

LEMMA LastOf ==
  ASSUME NEW a
  PROVE  Head(<<a>>) = a /\ Tail(<<a>>) = <<>> /\ <<a>> # <<>>
  OBVIOUS

LEMMA SameSequence ==
  ASSUME NEW S, NEW s \in Seq(S), NEW t \in Seq(S), Len(s) = Len(t), \A i \in 1..Len(s) : s[i] = t[i]
  PROVE  s = t
  OBVIOUS

LEMMA OpenFirst ==
  ASSUME NEW S, NEW puts \in Seq(S), NEW a \in S, NEW b \in S, NEW c \in S
  PROVE  <<a>> \o <<b>> \o puts \o <<c>> = <<a>> \o (<<b>> \o puts \o <<c>>)
  OBVIOUS

\* A sequence and one element more.
EndedWith(S, s, d, t) ==
  /\ t \in Seq(S) /\ Len(s) \in Nat /\ Len(t) = Len(s) + 1 /\ t[Len(s) + 1] = d
  /\ \A i \in 1..Len(s) : t[i] = s[i]

LEMMA EndsIn ==
  ASSUME NEW S, NEW s \in Seq(S), NEW d \in S
  PROVE  EndedWith(S, s, d, s \o <<d>>)
  BY DEF EndedWith

LEMMA FourOf ==
  ASSUME NEW S, NEW a \in S, NEW b \in S, NEW c \in S, NEW d \in S
  PROVE  <<a>> \o <<b>> \o <<c>> \o <<d>> = <<a, b, c, d>>
<1> DEFINE one == <<a>>
           two == one \o <<b>>
           three == two \o <<c>>
           four == three \o <<d>>
<1>1. one \in Seq(S) /\ Len(one) = 1 /\ one[1] = a
  OBVIOUS
<1> HIDE DEF one
<1>2. EndedWith(S, one, b, two)
  BY <1>1, EndsIn
<1> HIDE DEF two
<1>3. two \in Seq(S) /\ Len(two) = 2 /\ two[1] = a /\ two[2] = b
  BY <1>1, <1>2 DEF EndedWith
<1>4. EndedWith(S, two, c, three)
  BY <1>3, EndsIn
<1> HIDE DEF three
<1>5. three \in Seq(S) /\ Len(three) = 3 /\ three[1] = a /\ three[2] = b /\ three[3] = c
  BY <1>3, <1>4 DEF EndedWith
<1>6. EndedWith(S, three, d, four)
  BY <1>5, EndsIn
<1> HIDE DEF four
<1>7. four \in Seq(S) /\ Len(four) = 4 /\ four[1] = a /\ four[2] = b /\ four[3] = c /\ four[4] = d
  BY <1>5, <1>6 DEF EndedWith
<1>8. /\ <<a, b, c, d>> \in Seq(S) /\ Len(<<a, b, c, d>>) = 4
      /\ <<a, b, c, d>>[1] = a /\ <<a, b, c, d>>[2] = b
      /\ <<a, b, c, d>>[3] = c /\ <<a, b, c, d>>[4] = d
  OBVIOUS
<1>9. four = <<a, b, c, d>>
  BY <1>7, <1>8, SameSequence
<1>10. QED
  BY <1>9 DEF four, three, two, one

LEMMA FourInTurn ==
  ASSUME NEW a, NEW b, NEW c, NEW d
  PROVE  <<a>> \o <<b>> \o <<c>> \o <<d>> = <<a, b, c, d>>
<1> DEFINE S == {a, b, c, d}
<1>1. a \in S /\ b \in S /\ c \in S /\ d \in S
  OBVIOUS
<1> HIDE DEF S
<1>2. QED
  BY <1>1, FourOf

LEMMA FourOneByOne ==
  ASSUME NEW a, NEW b, NEW c, NEW d
  PROVE  /\ Head(<<a, b, c, d>>) = a /\ Tail(<<a, b, c, d>>) = <<b, c, d>>
         /\ Head(<<b, c, d>>) = b /\ Tail(<<b, c, d>>) = <<c, d>>
         /\ Head(<<c, d>>) = c /\ Tail(<<c, d>>) = <<d>>
         /\ Head(<<d>>) = d /\ Tail(<<d>>) = <<>>
  OBVIOUS

\* A job of some calls, the puts that are lacking, and calls after them brings a file there.
LEMMA PutTogether ==
  ASSUME NEW file \in Tracks, NEW to \in Tracks, NEW pages \in SUBSET DOMAIN to, NEW within,
         pages \subseteq within, NEW todo \in Seq(PlainCalls), NEW first \in Nat,
         first + Cardinality(pages) < Len(todo),
         \A i \in 1..Cardinality(pages) : todo[first + i] = Puts(to, pages)[i],
         \A i \in 1..Len(todo) : i <= first \/ i > first + Cardinality(pages) =>
           todo[i] = SyncCall \/ todo[i] = CutTo(Len(to)),
         todo[Len(todo)] = SyncCall,
         \A page \in DOMAIN to : page \in pages \/ (page <= Len(file) /\ file[page] = to[page]),
         Len(file) <= Len(to) \/ \E i \in 1..Len(todo) : todo[i] = CutTo(Len(to)),
         (\A i \in 1..Len(todo) : i <= first => todo[i] = SyncCall) \/ Len(to) <= Len(file)
  PROVE  Brings(file, todo, to, within)
<1> DEFINE n == Cardinality(pages)
           puts == Puts(to, pages)
<1>1. /\ n \in Nat
      /\ \A i \in 1..n : \E page \in pages : puts[i] = PutOf(to, page)
      /\ \A page \in pages : \E i \in 1..n : puts[i] = PutOf(to, page)
      /\ \A i, j \in 1..n : i < j => puts[i].page < puts[j].page
  BY PutsInTurn
<1>2. DOMAIN todo = 1..Len(todo) /\ Len(todo) \in Nat
  OBVIOUS
<1> HIDE DEF n, puts
<1>3. first + n < Len(todo) /\ \A i \in 1..n : first + i \in 1..Len(todo) /\ todo[first + i] = puts[i]
  BY <1>1, <1>2 DEF n, puts
<1>4. \A i \in 1..Len(todo) : i <= first \/ i > first + n => todo[i] = SyncCall \/ todo[i] = CutTo(Len(to))
  BY DEF n
<1>5. \A i \in 1..Len(todo) : i <= first \/ i > first + n \/ \E k \in 1..n : i = first + k
  <2> TAKE i \in 1..Len(todo)
  <2>1. SUFFICES ASSUME i > first, i <= first + n PROVE \E k \in 1..n : i = first + k
    BY <1>1, <1>2
  <2>2. i - first \in 1..n /\ i = first + (i - first)
    BY <1>1, <1>2, <2>1
  <2>3. QED
    BY <2>2
<1>6. 1 \in DOMAIN to
  BY DEF Tracks
<1>7. /\ SyncCall.call = "sync" /\ CutTo(Len(to)).call = "cut"
      /\ \A page \in DOMAIN to : PutOf(to, page).call = "put"
  BY <1>6, CallKinds
<1>8. \A i \in 1..Len(todo) :
        \/ todo[i] = SyncCall \/ todo[i] = CutTo(Len(to))
        \/ \E page \in within \cap DOMAIN to : todo[i] = PutOf(to, page)
  <2> TAKE i \in 1..Len(todo)
  <2>1. CASE i <= first \/ i > first + n
    BY <1>4, <2>1
  <2>2. ASSUME NEW k \in 1..n, i = first + k
        PROVE  \E page \in within \cap DOMAIN to : todo[i] = PutOf(to, page)
    <3>1. todo[i] = puts[k]
      BY <1>3, <2>2
    <3>2. PICK page \in pages : puts[k] = PutOf(to, page)
      BY <1>1
    <3>3. page \in within \cap DOMAIN to
      OBVIOUS
    <3>4. QED
      BY <3>1, <3>2, <3>3
  <2>3. QED
    BY <1>5, <2>1, <2>2
<1>9. \A page \in DOMAIN to :
        \/ page <= Len(file) /\ file[page] = to[page]
        \/ \E i \in 1..Len(todo) : todo[i] = PutOf(to, page)
  BY <1>1, <1>3
<1>10. \A i \in 1..Len(todo) : todo[i].call = "put" => \E k \in 1..n : i = first + k /\ todo[i] = puts[k]
  BY <1>3, <1>4, <1>5, <1>7
<1>11. \A i, j \in 1..Len(todo) :
         i < j /\ todo[i].call = "put" /\ todo[j].call = "put" => todo[i].page < todo[j].page
  <2> SUFFICES ASSUME NEW i \in 1..Len(todo), NEW j \in 1..Len(todo), i < j,
                      todo[i].call = "put", todo[j].call = "put"
               PROVE  todo[i].page < todo[j].page
    OBVIOUS
  <2>1. PICK k \in 1..n : i = first + k /\ todo[i] = puts[k]
    BY <1>10
  <2>2. PICK l \in 1..n : j = first + l /\ todo[j] = puts[l]
    BY <1>10
  <2>3. k < l
    BY <1>1, <2>1, <2>2
  <2>4. QED
    BY <1>1, <2>1, <2>2, <2>3
<1>12. \A i, j \in 1..Len(todo) :
         i < j /\ todo[i].call = "cut" /\ todo[j].call = "put" => Len(to) <= Len(file)
  <2> SUFFICES ASSUME NEW i \in 1..Len(todo), NEW j \in 1..Len(todo), i < j,
                      todo[i].call = "cut", todo[j].call = "put"
               PROVE  Len(to) <= Len(file)
    OBVIOUS
  <2>1. PICK l \in 1..n : j = first + l /\ todo[j] = puts[l]
    BY <1>10
  <2>2. ~(\E k \in 1..n : i = first + k)
    <3> SUFFICES ASSUME NEW k \in 1..n, i = first + k PROVE FALSE
      OBVIOUS
    <3>1. PICK page \in pages : puts[k] = PutOf(to, page)
      BY <1>1
    <3>2. QED
      BY <1>3, <1>7, <3>1
  <2>3. i <= first
    BY <1>1, <1>5, <2>1, <2>2
  <2>4. todo[i] # SyncCall
    BY <1>7
  <2>5. QED
    BY <2>3, <2>4
<1>13. todo[Len(todo)] = SyncCall
  OBVIOUS
<1>14. Len(file) <= Len(to) \/ \E i \in 1..Len(todo) : todo[i] = CutTo(Len(to))
  OBVIOUS
<1>15. QED
  BY <1>2, <1>8, <1>9, <1>11, <1>12, <1>13, <1>14 DEF Brings

-----------------------------------------------------------------------------
(* What a write keeps of itself.                                           *)

\* What a write may keep a record of.
IsKept(record) ==
  /\ record \in [way : {"pages", "head", "whole"}, before : Tracks, after : Tracks, shift : {0, 1}]
  /\ \A page \in DOMAIN record.after : record.after[page] \in Cells
  /\ record.way # "head" => record.shift = 0
  /\ record.way = "pages" => Len(record.after) >= Len(record.before)
  /\ record.way = "head" =>
       /\ record.shift = 1 /\ Len(record.after) = Len(record.before) + 1
       /\ \A page \in DOMAIN record.after : page >= 3 => record.after[page] = record.before[page - 1]

LEMMA TrackShape ==
  ASSUME NEW file \in Tracks
  PROVE  /\ DOMAIN file = 1..Len(file) /\ Len(file) \in Nat /\ Len(file) >= 1
         /\ 1 \in DOMAIN file /\ \A page \in DOMAIN file : page \in Nat \ {0} /\ file[page] \in Pages
  BY DEF Tracks

LEMMA MarksAreNoCells ==
  /\ "none" \notin Pages
  /\ \A cell \in Cells : cell \in Pages /\ cell # "mixed" /\ cell # "other" /\ cell # "none"
  BY JournalAssumption DEF Pages

LEMMA CellIs ==
  ASSUME NEW file \in Tracks, NEW page \in Nat \ {0}
  PROVE  /\ page \in DOMAIN file => Cell(file, page) = file[page] /\ file[page] \in Pages
         /\ page \notin DOMAIN file => Cell(file, page) = "none"
         /\ Cell(file, page) # "none" => page \in DOMAIN file
<1>1. DOMAIN file = 1..Len(file) /\ Len(file) \in Nat
  BY TrackShape
<1>2. page \in DOMAIN file <=> page <= Len(file)
  BY <1>1
<1>3. page \in DOMAIN file => file[page] \in Pages
  BY TrackShape
<1>4. QED
  BY <1>2, <1>3 DEF Cell

\* Two tracks that hold the same cells, past their ends included, are one.
LEMMA SameCells ==
  ASSUME NEW file \in Tracks, NEW other \in Tracks, Len(file) = Len(other),
         \A page \in DOMAIN file : file[page] = Cell(other, page)
  PROVE  file = other
<1>1. DOMAIN file = DOMAIN other
  BY TrackShape
<1>2. \A page \in DOMAIN file : file[page] = other[page]
  BY <1>1, TrackShape, CellIs
<1>3. file \in Seq(Pages) /\ other \in Seq(Pages)
  BY DEF Tracks
<1>4. QED
  BY <1>1, <1>2, <1>3

LEMMA OpenedIs ==
  ASSUME NEW file \in Tracks
  PROVE  /\ Opened(file, 1) \in Tracks /\ Len(Opened(file, 1)) = Len(file) + 1
         /\ Opened(file, 1)[1] = "zeros"
         /\ \A page \in DOMAIN Opened(file, 1) : page >= 2 => Opened(file, 1)[page] = file[page - 1]
<1> DEFINE opened == <<"zeros">> \o file
<1>1. Opened(file, 1) = opened
  <2>1. [page \in 1..1 |-> "zeros"] = <<"zeros">>
    OBVIOUS
  <2>2. QED
    BY <2>1 DEF Opened
<1>2. "zeros" \in Pages /\ file \in Seq(Pages) /\ Len(file) \in Nat
  BY DEF Tracks, Pages
<1>3. /\ opened \in Seq(Pages) /\ Len(opened) = Len(file) + 1 /\ opened[1] = "zeros"
      /\ \A page \in 2..(Len(file) + 1) : opened[page] = file[page - 1]
  BY <1>2
<1> HIDE DEF opened
<1>4. opened \in Tracks
  BY <1>2, <1>3 DEF Tracks
<1>5. DOMAIN opened = 1..(Len(file) + 1)
  BY <1>3
<1>6. \A page \in DOMAIN opened : page >= 2 => opened[page] = file[page - 1]
  BY <1>2, <1>3, <1>5
<1>7. QED
  BY <1>1, <1>3, <1>4, <1>6

LEMMA ClosedIs ==
  ASSUME NEW file \in Tracks, NEW other \in Tracks, Len(other) = Len(file) + 1,
         \A page \in DOMAIN other : page >= 2 => other[page] = file[page - 1]
  PROVE  Closed(other, 1) = file
<1> DEFINE closed == SubSeq(other, 2, Len(other))
<1>1. file \in Seq(Pages) /\ other \in Seq(Pages) /\ Len(file) \in Nat /\ DOMAIN other = 1..(Len(file) + 1)
  BY DEF Tracks
<1>2. Closed(other, 1) = closed
  BY DEF Closed
<1>3. closed \in Seq(Pages) /\ Len(closed) = Len(file) /\ \A i \in 1..Len(file) : closed[i] = other[i + 1]
  BY <1>1
<1>4. \A i \in 1..Len(file) : other[i + 1] = file[i]
  BY <1>1
<1> HIDE DEF closed
<1>5. closed = file
  BY <1>1, <1>3, <1>4
<1>6. QED
  BY <1>2, <1>5

LEMMA KeptShape ==
  ASSUME NEW record, IsKept(record)
  PROVE  /\ record.before \in Tracks /\ record.after \in Tracks
         /\ record.way \in {"pages", "head", "whole"} /\ Found(record) \in Tracks
         /\ record.way # "head" => Found(record) = record.before
         /\ record.way = "head" =>
              /\ Found(record) = Opened(record.before, 1) /\ HeadOf(record) = {1, 2}
              /\ Len(Found(record)) = Len(record.after) /\ {1, 2} \subseteq DOMAIN record.after
              /\ Len(record.after) = Len(record.before) + 1
              /\ \A page \in DOMAIN record.after :
                   page >= 3 => record.after[page] = record.before[page - 1]
<1>1. /\ record.before \in Tracks /\ record.after \in Tracks
      /\ record.way \in {"pages", "head", "whole"}
  BY DEF IsKept
<1>2. ASSUME record.way = "head"
      PROVE  /\ Found(record) = Opened(record.before, 1) /\ HeadOf(record) = {1, 2}
             /\ Len(Found(record)) = Len(record.after) /\ {1, 2} \subseteq DOMAIN record.after
             /\ Len(record.after) = Len(record.before) + 1
             /\ \A page \in DOMAIN record.after :
                  page >= 3 => record.after[page] = record.before[page - 1]
  <2>1. /\ record.shift = 1 /\ Len(record.after) = Len(record.before) + 1
        /\ \A page \in DOMAIN record.after :
                  page >= 3 => record.after[page] = record.before[page - 1]
    BY <1>2 DEF IsKept
  <2>2. Found(record) = Opened(record.before, 1)
    BY <1>2, <2>1 DEF Found
  <2>3. HeadOf(record) = {1, 2}
    BY <2>1 DEF HeadOf
  <2>4. Len(Found(record)) = Len(record.after)
    BY <1>1, <2>1, <2>2, OpenedIs
  <2>5. {1, 2} \subseteq DOMAIN record.after
    BY <1>1, <2>1, TrackShape
  <2>6. QED
    BY <2>1, <2>2, <2>3, <2>4, <2>5
<1>3. record.way # "head" => Found(record) = record.before
  BY DEF Found
<1>4. Found(record) \in Tracks
  BY <1>1, <1>2, <1>3, OpenedIs
<1>5. QED
  BY <1>1, <1>2, <1>3, <1>4

\* A track between what a write found and what it meant: every page is of one or the other,
\* or is half written and one it would put.
Mix(file, found, after, pages) ==
  /\ Len(file) >= Least(Len(found), Len(after)) /\ Len(file) <= Greatest(Len(found), Len(after))
  /\ \A page \in DOMAIN file :
       \/ file[page] \in {Cell(found, page), Cell(after, page)}
       \/ file[page] = "mixed" /\ page \in pages

Mixable(record) ==
  CASE record.way = "pages" -> Changed(record)
    [] record.way = "head"  -> HeadOf(record)
    [] record.way = "whole" -> {}

MayPut(record) ==
  CASE record.way = "pages" -> Changed(record)
    [] record.way = "head"  -> HeadOf(record)
    [] record.way = "whole" -> DOMAIN record.after

Between(record, file) == Mix(file, Found(record), record.after, Mixable(record))

LEMMA Bounds ==
  ASSUME NEW a \in Nat, NEW b \in Nat
  PROVE  /\ Least(a, b) \in {a, b} /\ Least(a, b) <= a /\ Least(a, b) <= b
         /\ Greatest(a, b) \in {a, b} /\ a <= Greatest(a, b) /\ b <= Greatest(a, b)
  BY DEF Least, Greatest

\* What a write found, and what it meant, are between the two.
LEMMA EndsAreBetween ==
  ASSUME NEW record, IsKept(record)
  PROVE  Between(record, Found(record)) /\ Between(record, record.after)
<1> DEFINE X == Found(record)
           A == record.after
<1>1. X \in Tracks /\ A \in Tracks
  BY KeptShape
<1> HIDE DEF X, A
<1>2. Len(X) \in Nat /\ Len(A) \in Nat
  BY <1>1, TrackShape
<1>3. \A page \in DOMAIN X : X[page] = Cell(X, page)
  BY <1>1, TrackShape, CellIs
<1>4. \A page \in DOMAIN A : A[page] = Cell(A, page)
  BY <1>1, TrackShape, CellIs
<1>5. Mix(X, X, A, Mixable(record)) /\ Mix(A, X, A, Mixable(record))
  BY <1>2, <1>3, <1>4, Bounds DEF Mix
<1>6. QED
  BY <1>5 DEF Between, X, A

\* A page no write changed stands the same before it, after it, and in between.
LEMMA UnchangedStands ==
  ASSUME NEW record, IsKept(record), record.way = "pages", NEW file \in Tracks, Between(record, file)
  PROVE  /\ MayPut(record) = Changed(record)
         /\ Len(record.before) <= Len(file) /\ Len(file) <= Len(record.after)
         /\ \A page \in DOMAIN record.before : page \in Changed(record)
              \/ (page <= Len(file) /\ file[page] = record.before[page])
<1> DEFINE B == record.before
           A == record.after
<1>1. B \in Tracks /\ A \in Tracks /\ Len(A) >= Len(B) /\ Found(record) = B
  BY KeptShape DEF IsKept
<1>2. MayPut(record) = Changed(record) /\ Mixable(record) = Changed(record)
  BY DEF MayPut, Mixable
<1>3. Mix(file, B, A, Changed(record))
  BY <1>1, <1>2 DEF Between
<1>4. Changed(record) = {page \in 1..Greatest(Len(B), Len(A)) : Cell(B, page) # Cell(A, page)}
  BY DEF Changed, PagesOf
<1> HIDE DEF B, A
<1>5. Len(B) \in Nat /\ Len(A) \in Nat /\ Len(file) \in Nat
  BY <1>1, TrackShape
<1>6. Len(B) <= Len(file) /\ Len(file) <= Len(A)
  BY <1>1, <1>3, <1>5 DEF Mix, Least, Greatest
<1>7. ASSUME NEW page \in DOMAIN B, page \notin Changed(record)
      PROVE  page <= Len(file) /\ file[page] = B[page]
  <2>1. page \in Nat \ {0} /\ page <= Len(B)
    BY <1>1, TrackShape
  <2>2. page <= Len(file)
    BY <1>5, <1>6, <2>1
  <2>3. page \in DOMAIN file
    BY <1>5, <2>1, <2>2, TrackShape
  <2>4. page \in 1..Greatest(Len(B), Len(A))
    BY <1>5, <2>1 DEF Greatest
  <2>5. Cell(B, page) = Cell(A, page)
    BY <1>4, <1>7, <2>4
  <2>6. file[page] = Cell(B, page)
    BY <1>3, <1>7, <2>3, <2>5 DEF Mix
  <2>7. Cell(B, page) = B[page]
    BY <1>1, <2>1, CellIs
  <2>8. QED
    BY <2>2, <2>6, <2>7
<1>8. QED
  BY <1>2, <1>6, <1>7 DEF B, A

\* Overlay::laid brings what stood to what was meant.
LEMMA LaidBrings ==
  ASSUME NEW record, IsKept(record), record.way = "pages"
  PROVE  Brings(record.before, Laid(record), record.after, MayPut(record))
<1> DEFINE B == record.before
           A == record.after
           pages == Changed(record) \cap DOMAIN A
           puts == Puts(A, pages)
           n == Cardinality(pages)
           todo == puts \o Sync
<1>1. B \in Tracks /\ A \in Tracks /\ Len(A) >= Len(B)
  BY KeptShape DEF IsKept
<1>2. Len(A) \in Nat /\ Len(B) \in Nat /\ DOMAIN A = 1..Len(A)
  BY <1>1, TrackShape
<1>3. n \in Nat /\ puts \in Seq(PlainCalls) /\ Len(puts) = n
  BY <1>1, PutsInTurn
<1>4. Laid(record) = todo
  <2>1. ~(Len(A) < Len(B))
    BY <1>1, <1>2
  <2>2. puts \o <<>> = puts
    BY <1>3
  <2>3. QED
    BY <2>1, <2>2 DEF Laid
<1>5. SyncCall \in PlainCalls /\ Sync = <<SyncCall>>
  BY DEF PlainCalls, SyncCall, Sync
<1> HIDE DEF puts, n, pages
<1>6. /\ todo \in Seq(PlainCalls) /\ Len(todo) = n + 1 /\ todo[n + 1] = SyncCall
      /\ \A i \in 1..n : todo[i] = puts[i]
  BY <1>3, <1>5, PutsSync
<1>7. \A page \in DOMAIN A : page \in pages \/ (page <= Len(B) /\ B[page] = A[page])
  <2> SUFFICES ASSUME NEW page \in DOMAIN A, page \notin Changed(record)
               PROVE  page <= Len(B) /\ B[page] = A[page]
    BY DEF pages
  <2>1. page \in Nat \ {0} /\ page <= Len(A)
    BY <1>2
  <2>2. page \in 1..Greatest(Len(B), Len(A))
    BY <1>2, <2>1 DEF Greatest
  <2>3. Cell(B, page) = Cell(A, page)
    BY <2>2 DEF Changed, PagesOf
  <2>4. Cell(A, page) = A[page] /\ A[page] \in Pages
    BY <1>1, <2>1, CellIs
  <2>5. page \in DOMAIN B /\ Cell(B, page) = B[page]
    BY <1>1, <2>1, <2>3, <2>4, CellIs, MarksAreNoCells
  <2>6. QED
    BY <1>1, <2>3, <2>4, <2>5, TrackShape
<1>8. pages \subseteq MayPut(record) /\ pages \subseteq DOMAIN A
  BY DEF MayPut, pages
<1> HIDE DEF B, A, todo
<1>9. 0 \in Nat /\ 0 + n < Len(todo) /\ todo[Len(todo)] = SyncCall /\ Len(B) <= Len(A)
  BY <1>1, <1>2, <1>3, <1>6
<1>10. \A i \in 1..n : todo[0 + i] = puts[i]
  BY <1>3, <1>6
<1>11. \A i \in 1..Len(todo) : i <= 0 \/ i > 0 + n => todo[i] = SyncCall \/ todo[i] = CutTo(Len(A))
  BY <1>3, <1>6
<1>12. \A i \in 1..Len(todo) : i <= 0 => todo[i] = SyncCall
  BY <1>3, <1>6
<1>13. Brings(B, todo, A, MayPut(record))
  BY <1>1, <1>6, <1>7, <1>8, <1>9, <1>10, <1>11, <1>12, PutTogether DEF n, puts
<1>14. QED
  BY <1>4, <1>13 DEF A, B

\* restored brings whatever stands between to what stood before the write.
LEMMA RestoredBrings ==
  ASSUME NEW record, IsKept(record), record.way = "pages", NEW file \in Tracks, Between(record, file)
  PROVE  Brings(file, Restored(record), record.before, MayPut(record)) /\ Restored(record) # <<>>
<1> DEFINE B == record.before
           pages == Changed(record) \cap DOMAIN B
           puts == Puts(B, pages)
           n == Cardinality(pages)
           todo == <<CutTo(Len(B))>> \o puts \o <<SyncCall>>
<1>1. B \in Tracks
  BY KeptShape
<1>2. /\ Len(B) <= Len(file) /\ pages \subseteq MayPut(record) /\ pages \subseteq DOMAIN B
      /\ \A page \in DOMAIN B : page \in pages \/ (page <= Len(file) /\ file[page] = B[page])
  BY UnchangedStands
<1>3. n \in Nat /\ puts \in Seq(PlainCalls) /\ Len(puts) = n
  BY <1>1, PutsInTurn
<1>4. Restored(record) = todo
  BY DEF Restored, SetLen, Sync, CutTo, SyncCall
<1>5. CutTo(Len(B)) \in PlainCalls /\ SyncCall \in PlainCalls
  BY <1>1, TrackShape, CallKinds
<1> HIDE DEF puts, n, pages
<1>6. /\ todo \in Seq(PlainCalls) /\ Len(todo) = n + 2 /\ todo[1] = CutTo(Len(B)) /\ todo[n + 2] = SyncCall
      /\ \A i \in 1..n : todo[i + 1] = puts[i]
  BY <1>3, <1>5, CutPutsSync
<1> HIDE DEF B, todo
<1>7. 1 \in Nat /\ 1 + n < Len(todo) /\ todo[Len(todo)] = SyncCall
  BY <1>3, <1>6
<1>8. \A i \in 1..n : todo[1 + i] = puts[i]
  BY <1>3, <1>6
<1>9. \A i \in 1..Len(todo) : i <= 1 \/ i > 1 + n => todo[i] = SyncCall \/ todo[i] = CutTo(Len(B))
  BY <1>3, <1>6
<1>10. \E i \in 1..Len(todo) : todo[i] = CutTo(Len(B))
  BY <1>3, <1>6
<1>11. Brings(file, todo, B, MayPut(record))
  BY <1>1, <1>2, <1>6, <1>7, <1>8, <1>9, <1>10, PutTogether DEF n, puts
<1>12. todo # <<>>
  BY <1>3, <1>6
<1>13. QED
  BY <1>4, <1>11, <1>12 DEF B

\* laid_over brings any track to the copy.
LEMMA LaidOverBrings ==
  ASSUME NEW record, IsKept(record), record.way = "whole", NEW file \in Tracks
  PROVE  Brings(file, LaidOver(record, file), record.after, MayPut(record))
<1> DEFINE A == record.after
           pages == {page \in DOMAIN A : Cell(file, page) # A[page]}
           puts == Puts(A, pages)
           n == Cardinality(pages)
           todo == puts \o <<CutTo(Len(A))>> \o <<SyncCall>>
<1>1. A \in Tracks
  BY KeptShape
<1>2. /\ pages \subseteq MayPut(record) /\ pages \subseteq DOMAIN A
      /\ \A page \in DOMAIN A : page \in pages \/ (page <= Len(file) /\ file[page] = A[page])
  <2>1. MayPut(record) = DOMAIN A
    BY DEF MayPut
  <2>2. ASSUME NEW page \in DOMAIN A, Cell(file, page) = A[page]
        PROVE  page <= Len(file) /\ file[page] = A[page]
    <3>1. page \in Nat \ {0} /\ A[page] \in Pages
      BY <1>1, TrackShape
    <3>2. page \in DOMAIN file
      BY <2>2, <3>1, CellIs, MarksAreNoCells
    <3>3. QED
      BY <2>2, <3>1, <3>2, CellIs, TrackShape
  <2>3. QED
    BY <2>1, <2>2
<1>3. n \in Nat /\ puts \in Seq(PlainCalls) /\ Len(puts) = n
  BY <1>1, PutsInTurn
<1>4. LaidOver(record, file) = todo
  BY DEF LaidOver, SetLen, Sync, CutTo, SyncCall
<1>5. CutTo(Len(A)) \in PlainCalls /\ SyncCall \in PlainCalls
  BY <1>1, TrackShape, CallKinds
<1> HIDE DEF puts, n, pages
<1>6. /\ todo \in Seq(PlainCalls) /\ Len(todo) = n + 2 /\ todo[n + 1] = CutTo(Len(A)) /\ todo[n + 2] = SyncCall
      /\ \A i \in 1..n : todo[i] = puts[i]
  BY <1>3, <1>5, PutsCutSync
<1> HIDE DEF A, todo
<1>7. 0 \in Nat /\ 0 + n < Len(todo) /\ todo[Len(todo)] = SyncCall
  BY <1>3, <1>6
<1>8. \A i \in 1..n : todo[0 + i] = puts[i]
  BY <1>3, <1>6
<1>9. \A i \in 1..Len(todo) : i <= 0 \/ i > 0 + n => todo[i] = SyncCall \/ todo[i] = CutTo(Len(A))
  BY <1>3, <1>6
<1>10. \E i \in 1..Len(todo) : todo[i] = CutTo(Len(A))
  BY <1>3, <1>6
<1>11. \A i \in 1..Len(todo) : i <= 0 => todo[i] = SyncCall
  BY <1>3, <1>6
<1>12. Brings(file, todo, A, MayPut(record))
  BY <1>1, <1>2, <1>6, <1>7, <1>8, <1>9, <1>10, <1>11, PutTogether DEF n, puts
<1>13. QED
  BY <1>4, <1>12 DEF A

\* Between what a longer head found and what it meant, only the head differs.
LEMMA HeadStands ==
  ASSUME NEW record, IsKept(record), record.way = "head", NEW file \in Tracks, Between(record, file)
  PROVE  /\ MayPut(record) = {1, 2} /\ {1, 2} \subseteq DOMAIN record.after
         /\ Len(file) = Len(record.after)
         /\ \A page \in DOMAIN record.after :
              page \in {1, 2} \/ (page <= Len(file) /\ file[page] = record.after[page])
<1> DEFINE X == Found(record)
           A == record.after
<1>1. /\ X \in Tracks /\ A \in Tracks /\ X = Opened(record.before, 1) /\ HeadOf(record) = {1, 2}
      /\ Len(X) = Len(A) /\ {1, 2} \subseteq DOMAIN A /\ record.before \in Tracks
      /\ Len(A) = Len(record.before) + 1
      /\ \A page \in DOMAIN A : page >= 3 => A[page] = record.before[page - 1]
  BY KeptShape
<1>2. MayPut(record) = {1, 2} /\ Mixable(record) = {1, 2}
  BY <1>1 DEF MayPut, Mixable
<1>3. Mix(file, X, A, {1, 2})
  BY <1>2 DEF Between
<1>4. Len(Opened(record.before, 1)) = Len(record.before) + 1
      /\ \A page \in DOMAIN Opened(record.before, 1) :
                page >= 2 => Opened(record.before, 1)[page] = record.before[page - 1]
  BY <1>1, OpenedIs
<1> HIDE DEF X, A
<1>5. \A page \in DOMAIN X : page >= 2 => X[page] = record.before[page - 1]
  BY <1>1, <1>4
<1>6. Len(file) \in Nat /\ Len(A) \in Nat
  BY <1>1, TrackShape
<1>7. Len(file) = Len(A)
  BY <1>1, <1>3, <1>6 DEF Mix, Least, Greatest
<1>8. ASSUME NEW page \in DOMAIN A, page \notin {1, 2}
      PROVE  page <= Len(file) /\ file[page] = A[page]
  <2>1. page \in Nat \ {0} /\ page <= Len(A)
    BY <1>1, TrackShape
  <2>2. page >= 3
    BY <1>8, <2>1
  <2>3. page \in DOMAIN X /\ page \in DOMAIN file
    BY <1>1, <1>6, <1>7, <2>1, TrackShape
  <2>4. X[page] = A[page]
    BY <1>1, <1>5, <2>1, <2>2, <2>3
  <2>5. Cell(X, page) = X[page] /\ Cell(A, page) = A[page]
    BY <1>1, <2>1, <2>3, CellIs
  <2>6. file[page] \in {Cell(X, page), Cell(A, page)}
    BY <1>3, <1>8, <2>3 DEF Mix
  <2>7. QED
    BY <1>7, <2>1, <2>4, <2>5, <2>6
<1>9. QED
  BY <1>1, <1>2, <1>7, <1>8 DEF A

\* carried_on lays the whole head again.
LEMMA HeadBrings ==
  ASSUME NEW record, IsKept(record), record.way = "head", NEW file \in Tracks, Between(record, file)
  PROVE  Brings(file, Puts(record.after, HeadOf(record)) \o Sync, record.after, MayPut(record))
<1> DEFINE A == record.after
           pages == HeadOf(record)
           puts == Puts(A, pages)
           n == Cardinality(pages)
           todo == puts \o <<SyncCall>>
<1>1. A \in Tracks /\ pages = {1, 2}
  BY KeptShape
<1>2. /\ pages = MayPut(record) /\ pages \subseteq DOMAIN A /\ Len(file) = Len(A)
      /\ \A page \in DOMAIN A : page \in pages \/ (page <= Len(file) /\ file[page] = A[page])
  BY <1>1, HeadStands
<1>3. n \in Nat /\ puts \in Seq(PlainCalls) /\ Len(puts) = n
  BY <1>1, <1>2, PutsInTurn
<1>4. SyncCall \in PlainCalls /\ Sync = <<SyncCall>> /\ Len(A) \in Nat
  BY <1>1, TrackShape DEF PlainCalls, SyncCall, Sync
<1> HIDE DEF puts, n, pages
<1>5. /\ todo \in Seq(PlainCalls) /\ Len(todo) = n + 1 /\ todo[n + 1] = SyncCall
      /\ \A i \in 1..n : todo[i] = puts[i]
  BY <1>3, <1>4, PutsSync
<1> HIDE DEF A, todo
<1>6. 0 \in Nat /\ 0 + n < Len(todo) /\ todo[Len(todo)] = SyncCall /\ Len(file) <= Len(A)
  BY <1>2, <1>3, <1>4, <1>5
<1>7. \A i \in 1..n : todo[0 + i] = puts[i]
  BY <1>3, <1>5
<1>8. \A i \in 1..Len(todo) : i <= 0 \/ i > 0 + n => todo[i] = SyncCall \/ todo[i] = CutTo(Len(A))
  BY <1>3, <1>5
<1>9. \A i \in 1..Len(todo) : i <= 0 => todo[i] = SyncCall
  BY <1>3, <1>5
<1>10. Brings(file, todo, A, MayPut(record))
  BY <1>1, <1>2, <1>5, <1>6, <1>7, <1>8, <1>9, PutTogether DEF n, puts
<1>11. QED
  BY <1>4, <1>10 DEF A, todo, puts, pages

OpenCall == [call |-> "open", by |-> 1]
CloseCall == [call |-> "close", by |-> 1]

\* Once the room is opened and synced, the rest of a longer head's landing brings it about.
LEMMA LengthenedBrings ==
  ASSUME NEW record, IsKept(record), record.way = "head"
  PROVE  \E rest \in Seq(PlainCalls) :
           /\ Lengthened(record) = <<OpenCall>> \o rest /\ rest # <<>>
           /\ Brings(Found(record), rest, record.after, MayPut(record))
<1> DEFINE A == record.after
           X == Found(record)
           pages == HeadOf(record)
           puts == Puts(A, pages)
           n == Cardinality(pages)
           todo == <<SyncCall>> \o puts \o <<SyncCall>>
<1>1. A \in Tracks /\ X \in Tracks /\ pages = {1, 2} /\ record.shift = 1
  BY KeptShape DEF IsKept
<1>2. /\ pages = MayPut(record) /\ pages \subseteq DOMAIN A /\ Len(X) = Len(A)
      /\ \A page \in DOMAIN A : page \in pages \/ (page <= Len(X) /\ X[page] = A[page])
  BY <1>1, HeadStands, EndsAreBetween
<1>3. n \in Nat /\ puts \in Seq(PlainCalls) /\ Len(puts) = n
  BY <1>1, <1>2, PutsInTurn
<1>4. SyncCall \in PlainCalls /\ Sync = <<SyncCall>> /\ Insert(1) = <<OpenCall>> /\ Len(A) \in Nat
  BY <1>1, TrackShape DEF PlainCalls, SyncCall, Sync, Insert, OpenCall
<1>5. Lengthened(record) = <<OpenCall>> \o <<SyncCall>> \o puts \o <<SyncCall>>
  BY <1>1, <1>4 DEF Lengthened
<1> HIDE DEF puts, n, pages
<1>6. <<OpenCall>> \o <<SyncCall>> \o puts \o <<SyncCall>> = <<OpenCall>> \o todo
  <2>1. puts \in Seq(PlainCalls \cup {OpenCall}) /\ OpenCall \in PlainCalls \cup {OpenCall}
        /\ SyncCall \in PlainCalls \cup {OpenCall}
    BY <1>3, <1>4
  <2>2. QED
    BY <2>1, OpenFirst
<1>7. /\ todo \in Seq(PlainCalls) /\ Len(todo) = n + 2 /\ todo[1] = SyncCall /\ todo[n + 2] = SyncCall
      /\ \A i \in 1..n : todo[i + 1] = puts[i]
  BY <1>3, <1>4, CutPutsSync
<1> HIDE DEF A, X, todo
<1>8. 1 \in Nat /\ 1 + n < Len(todo) /\ todo[Len(todo)] = SyncCall /\ Len(X) <= Len(A)
  BY <1>2, <1>3, <1>4, <1>7
<1>9. \A i \in 1..n : todo[1 + i] = puts[i]
  BY <1>3, <1>7
<1>10. \A i \in 1..Len(todo) : i <= 1 \/ i > 1 + n => todo[i] = SyncCall \/ todo[i] = CutTo(Len(A))
  BY <1>3, <1>7
<1>11. \A i \in 1..Len(todo) : i <= 1 => todo[i] = SyncCall
  BY <1>3, <1>7
<1>12. Brings(X, todo, A, MayPut(record))
  BY <1>1, <1>2, <1>7, <1>8, <1>9, <1>10, <1>11, PutTogether DEF n, puts
<1>13. Lengthened(record) = <<OpenCall>> \o todo
  BY <1>5, <1>6
<1>14. todo # <<>>
  BY <1>3, <1>7
<1>15. QED
  BY <1>7, <1>12, <1>13, <1>14 DEF A, X

\* The old head, where it comes to stand behind the room.
BackCall(record) == [call |-> "put", page |-> 2, cell |-> record.before[1]]

LEMMA TakenBackIs ==
  ASSUME NEW record, IsKept(record), record.way = "head"
  PROVE  TakenBack(record) = <<BackCall(record), SyncCall, CloseCall, SyncCall>>
<1> DEFINE opened == Opened(record.before, 1)
<1>1. /\ opened \in Tracks /\ record.before \in Tracks /\ record.shift = 1
      /\ Len(opened) = Len(record.before) + 1
      /\ \A page \in DOMAIN opened : page >= 2 => opened[page] = record.before[page - 1]
  BY KeptShape, OpenedIs DEF IsKept
<1> HIDE DEF opened
<1>2. 2 \in DOMAIN opened
  BY <1>1, TrackShape
<1>3. opened[2] = record.before[1]
  BY <1>1, <1>2
<1>4. Cardinality({2}) = 1
  BY FS_Singleton
<1>5. InTurn({2}) \in [1..1 -> {2}]
  <2>1. {2} \in SUBSET Nat /\ IsFiniteSet({2})
    BY FS_Singleton
  <2>2. QED
    BY <1>4, <2>1, InTurnIsInTurn
<1>6. Puts(opened, {2}) = [i \in 1..1 |-> BackCall(record)]
  <2>1. \A i \in 1..1 : InTurn({2})[i] = 2
    BY <1>5
  <2>2. QED
    BY <1>3, <1>4, <2>1 DEF Puts, BackCall
<1>7. [i \in 1..1 |-> BackCall(record)] = <<BackCall(record)>>
  OBVIOUS
<1>8. Puts(Opened(record.before, record.shift), {record.shift + 1}) = <<BackCall(record)>>
  <2>1. record.shift + 1 = 2 /\ Opened(record.before, record.shift) = opened
    BY <1>1 DEF opened
  <2>2. QED
    BY <1>6, <1>7, <2>1
<1>9. Collapse(record.shift) = <<CloseCall>> /\ Sync = <<SyncCall>>
  BY <1>1 DEF Collapse, CloseCall, Sync, SyncCall
<1>10. TakenBack(record) = <<BackCall(record)>> \o <<SyncCall>> \o <<CloseCall>> \o <<SyncCall>>
  BY <1>8, <1>9 DEF TakenBack
<1>11. QED
  BY <1>10, FourInTurn

-----------------------------------------------------------------------------
(* What keeps a track between the two.                                     *)

LEMMA CloserKeepsMix ==
  ASSUME NEW found \in Tracks, NEW after \in Tracks, NEW pages, NEW file \in Tracks, NEW to \in {found, after},
         NEW some, NEW next, Mix(file, found, after, pages), Closer(file, to, some, next)
  PROVE  Mix(next, found, after, pages)
<1>1. /\ Len(found) \in Nat /\ Len(after) \in Nat /\ Len(file) \in Nat /\ to \in Tracks
      /\ Len(to) \in {Len(found), Len(after)} /\ next \in Tracks
  BY TrackShape DEF Closer
<1>2. Len(next) \in Nat /\ Len(to) \in Nat
  BY <1>1, TrackShape
<1>3. /\ Len(next) >= Least(Len(found), Len(after)) /\ Len(next) <= Greatest(Len(found), Len(after))
  BY <1>1, <1>2 DEF Mix, Closer, Least, Greatest
<1>4. ASSUME NEW page \in DOMAIN next
      PROVE  \/ next[page] \in {Cell(found, page), Cell(after, page)}
             \/ next[page] = "mixed" /\ page \in pages
  <2>1. page \in Nat \ {0}
    BY <1>1, TrackShape
  <2>2. CASE page <= Len(file) /\ next[page] = file[page]
    <3>1. page \in DOMAIN file
      BY <2>1, <2>2, <1>1, TrackShape
    <3>2. QED
      BY <2>2, <3>1 DEF Mix
  <2>3. CASE page \in DOMAIN to /\ next[page] = to[page]
    <3>1. Cell(to, page) = to[page]
      BY <1>1, <2>1, <2>3, CellIs
    <3>2. QED
      BY <2>3, <3>1
  <2>4. QED
    BY <2>2, <2>3 DEF Closer
<1>5. QED
  BY <1>3, <1>4 DEF Mix

\* A call that fails leaves half a page, of those the write puts.
LEMMA HalfAPageKeepsMix ==
  ASSUME NEW found \in Tracks, NEW after \in Tracks, NEW pages, NEW file \in Tracks,
         Mix(file, found, after, pages), NEW page \in Nat \ {0}, page \in pages, page <= Len(file) + 1,
         page <= Greatest(Len(found), Len(after)), NEW cell \in Pages,
         cell = "mixed" \/ cell = Cell(found, page)
  PROVE  Mix(Put(file, page, cell), found, after, pages)
<1> DEFINE next == Put(file, page, cell)
<1>1. Len(found) \in Nat /\ Len(after) \in Nat /\ Len(file) \in Nat
  BY TrackShape
<1>2. /\ next \in Tracks /\ page \in DOMAIN next /\ next[page] = cell
      /\ Len(next) \in {Len(file), page} /\ Len(next) >= Len(file) /\ Len(next) >= page
      /\ \A other \in DOMAIN file : other # page => other \in DOMAIN next /\ next[other] = file[other]
  BY PutIsWhere, Zenon
<1> HIDE DEF next
<1>3. Len(next) \in Nat
  BY <1>2, TrackShape
<1>4. Len(next) \in {Len(file), page} /\ Len(next) >= Len(file)
  BY <1>2
<1>5. Len(next) >= Least(Len(found), Len(after)) /\ Len(next) <= Greatest(Len(found), Len(after))
  <2>1. Len(file) >= Least(Len(found), Len(after)) /\ Len(file) <= Greatest(Len(found), Len(after))
    BY DEF Mix
  <2>2. Least(Len(found), Len(after)) \in Nat /\ Greatest(Len(found), Len(after)) \in Nat
    BY <1>1 DEF Least, Greatest
  <2> DEFINE least == Least(Len(found), Len(after))
             greatest == Greatest(Len(found), Len(after))
  <2>3. page <= greatest
    OBVIOUS
  <2> HIDE DEF least, greatest
  <2>4. Len(file) >= least /\ Len(file) <= greatest /\ least \in Nat /\ greatest \in Nat
    BY <2>1, <2>2 DEF least, greatest
  <2>5. Len(next) >= least /\ Len(next) <= greatest
    BY <1>4, <1>1, <1>3, <2>3, <2>4
  <2>6. QED
    BY <2>5 DEF least, greatest
<1>6. ASSUME NEW other \in DOMAIN next, other # page
      PROVE  \/ next[other] \in {Cell(found, other), Cell(after, other)}
             \/ next[other] = "mixed" /\ other \in pages
  <2>1. other \in Nat \ {0} /\ other <= Len(next)
    BY <1>2, <1>3, TrackShape
  <2>2. other <= Len(file)
    BY <1>4, <1>1, <1>3, <1>6, <2>1
  <2>3. other \in DOMAIN file
    BY <1>1, <2>1, <2>2, TrackShape
  <2>4. next[other] = file[other]
    BY <1>2, <1>6, <2>3
  <2>5. QED
    BY <2>3, <2>4 DEF Mix
<1>7. QED
  BY <1>2, <1>5, <1>6 DEF Mix, next

\* Where no page is half written, a track between the two holds what the write meant.
LEMMA OutsideStands ==
  ASSUME NEW record, IsKept(record), record.way # "whole", NEW file \in Tracks, Between(record, file),
         NEW page \in DOMAIN file, page \notin Mixable(record)
  PROVE  file[page] = Cell(record.after, page)
<1> DEFINE X == Found(record)
           A == record.after
<1>1. X \in Tracks /\ A \in Tracks /\ record.way \in {"pages", "head", "whole"}
  BY KeptShape
<1>2. page \in Nat \ {0} /\ page <= Len(file) /\ Len(file) \in Nat /\ Len(X) \in Nat /\ Len(A) \in Nat
  BY <1>1, TrackShape
<1>3. file[page] \in {Cell(X, page), Cell(A, page)}
  BY DEF Between, Mix
<1>4. CASE record.way = "pages"
  <2>1. X = record.before /\ Mixable(record) = Changed(record)
    BY <1>4, KeptShape DEF Mixable
  <2>2. page <= Greatest(Len(X), Len(A))
    BY <1>2 DEF Between, Mix, Least, Greatest
  <2>3. page \in PagesOf(record)
    BY <1>2, <2>1, <2>2 DEF PagesOf, Greatest
  <2>4. Cell(X, page) = Cell(A, page)
    BY <2>1, <2>3 DEF Changed
  <2>5. QED
    BY <1>3, <2>4
<1>5. CASE record.way = "head"
  <2>1. HeadOf(record) = {1, 2} /\ Mixable(record) = HeadOf(record)
    BY <1>5, KeptShape DEF Mixable
  <2>2. /\ Len(file) = Len(A)
        /\ \A other \in DOMAIN A : other \in {1, 2} \/ (other <= Len(file) /\ file[other] = A[other])
    BY <1>5, HeadStands
  <2>3. page \in DOMAIN A
    BY <1>1, <1>2, <2>2, TrackShape
  <2>4. file[page] = A[page] /\ Cell(A, page) = A[page]
    BY <1>1, <1>2, <2>1, <2>2, <2>3, CellIs
  <2>5. QED
    BY <2>4
<1>6. QED
  BY <1>1, <1>4, <1>5

-----------------------------------------------------------------------------
(* What a mend makes of a track.                                           *)

Target(record) == IF record.way = "pages" THEN record.before ELSE record.after
Recoverable(record, file) == Between(record, file) \/ (record.way = "head" /\ file = record.before)

\* What a mend leaves as it is: what stood before, but of a copy, or what was meant.
Settled(record, file) ==
  file \in {record.before, record.after} /\ (record.way = "whole" => file = record.after)

LEMMA RolledBackBrings ==
  ASSUME NEW record, IsKept(record), record.way = "pages", NEW file \in Tracks, Between(record, file)
  PROVE  \/ RolledBack(file, record) = <<>> /\ Settled(record, file)
         \/ RolledBack(file, record) = Restored(record)
<1> DEFINE B == record.before
           A == record.after
<1>1. B \in Tracks /\ A \in Tracks /\ Found(record) = B /\ Mixable(record) = Changed(record)
  BY KeptShape DEF Mixable
<1>2. Mix(file, B, A, Changed(record))
  BY <1>1 DEF Between
<1>3. WithinLengths(file, record)
  BY <1>2 DEF Mix, WithinLengths
<1>4. Ours(file, record)
  BY <1>2 DEF Mix, Ours
<1>5. ASSUME Len(file) = Len(B), Standing(file, B, Changed(record))
      PROVE  file = B
  <2>1. DOMAIN file = DOMAIN B
    BY <1>1, <1>5, TrackShape
  <2>2. ASSUME NEW page \in DOMAIN file
        PROVE  file[page] = Cell(B, page)
    <3>1. page \in Nat \ {0}
      BY TrackShape
    <3>2. Cell(file, page) = file[page] /\ Cell(B, page) = B[page]
      BY <1>1, <2>1, <3>1, CellIs
    <3>3. page \in Changed(record) \/ file[page] = B[page]
      BY <2>1, UnchangedStands
    <3>4. page \in Changed(record) => Cell(file, page) = Cell(B, page)
      BY <1>5 DEF Standing
    <3>5. QED
      BY <3>2, <3>3, <3>4
  <2>3. QED
    BY <1>1, <1>5, <2>2, SameCells
<1>6. ASSUME Len(file) = Len(A), Standing(file, A, Changed(record))
      PROVE  file = A
  <2>1. ASSUME NEW page \in DOMAIN file
        PROVE  file[page] = Cell(A, page)
    <3>1. page \in Nat \ {0}
      BY TrackShape
    <3>2. Cell(file, page) = file[page]
      BY <3>1, CellIs
    <3>3. page \notin Changed(record) => file[page] = Cell(A, page)
      BY <1>1, OutsideStands
    <3>4. page \in Changed(record) => Cell(file, page) = Cell(A, page)
      BY <1>6 DEF Standing
    <3>5. QED
      BY <3>2, <3>3, <3>4
  <2>2. QED
    BY <1>1, <1>6, <2>1, SameCells
<1>7. QED
  BY <1>3, <1>4, <1>5, <1>6 DEF RolledBack, Settled

LEMMA CarriedOnBrings ==
  ASSUME NEW record, IsKept(record), record.way = "head", NEW file \in Tracks, Recoverable(record, file)
  PROVE  \/ CarriedOn(file, record) = <<>> /\ Settled(record, file)
         \/ /\ CarriedOn(file, record) = Puts(record.after, HeadOf(record)) \o Sync
            /\ Between(record, file)
<1> DEFINE B == record.before
           A == record.after
           X == Found(record)
<1>1. /\ B \in Tracks /\ A \in Tracks /\ X \in Tracks /\ HeadOf(record) = {1, 2} /\ Len(A) = Len(B) + 1
      /\ {1, 2} \subseteq DOMAIN A /\ Len(X) = Len(A) /\ X = Opened(B, record.shift)
      /\ Mixable(record) = {1, 2}
  BY KeptShape DEF Mixable, Found
<1>2. Len(A) \in Nat /\ Len(B) \in Nat
  BY <1>1, TrackShape
<1>3. CASE file = B
  <2>1. Len(file) # Len(A)
    BY <1>1, <1>2, <1>3
  <2>2. CarriedOn(file, record) = <<>>
    BY <2>1 DEF CarriedOn
  <2>3. QED
    BY <1>3, <2>2 DEF Settled
<1>4. CASE Between(record, file)
  <2>1. /\ Len(file) = Len(A)
        /\ \A page \in DOMAIN A : page \in {1, 2} \/ file[page] = A[page]
    BY <1>4, HeadStands
  <2>2. DOMAIN file = DOMAIN A /\ DOMAIN X = DOMAIN A
    BY <1>1, <2>1, TrackShape
  <2>3. \A page \in {1, 2} : file[page] \in {X[page], A[page], "mixed"}
    <3> TAKE page \in {1, 2}
    <3>1. page \in DOMAIN A /\ page \in Nat \ {0}
      BY <1>1
    <3>2. Cell(X, page) = X[page] /\ Cell(A, page) = A[page]
      BY <1>1, <2>2, <3>1, CellIs
    <3>3. QED
      BY <1>4, <2>2, <3>1, <3>2 DEF Between, Mix
  <2>4. ASSUME Standing(file, A, {1, 2})
        PROVE  file = A
    <3>1. ASSUME NEW page \in DOMAIN file
          PROVE  file[page] = Cell(A, page)
      <4>1. page \in Nat \ {0}
        BY TrackShape
      <4>2. Cell(file, page) = file[page] /\ Cell(A, page) = A[page]
        BY <1>1, <2>2, <4>1, CellIs
      <4>3. QED
        BY <2>1, <2>2, <2>4, <4>2 DEF Standing
    <3>2. QED
      BY <1>1, <2>1, <3>1, SameCells
  <2>5. CarriedOn(file, record) =
          IF Standing(file, A, {1, 2}) THEN <<>> ELSE Puts(A, HeadOf(record)) \o Sync
    BY <1>1, <2>1, <2>3 DEF CarriedOn
  <2>6. QED
    BY <1>4, <2>4, <2>5 DEF Settled
<1>5. QED
  BY <1>3, <1>4 DEF Recoverable

LEMMA FinishedBrings ==
  ASSUME NEW record, IsKept(record), record.way = "whole", NEW file \in Tracks, Between(record, file)
  PROVE  \/ FinishedWritingBack(file, record) = <<>> /\ Settled(record, file)
         \/ FinishedWritingBack(file, record) = LaidOver(record, file)
<1>1. Found(record) = record.before /\ Mixable(record) = {}
  BY KeptShape DEF Mixable
<1>2. Mix(file, record.before, record.after, {})
  BY <1>1 DEF Between
<1>3. WithinLengths(file, record)
  BY <1>2 DEF Mix, WithinLengths
<1>4. \A page \in DOMAIN file : file[page] \in {Cell(record.after, page), Cell(record.before, page)}
  BY <1>2 DEF Mix
<1>5. QED
  BY <1>3, <1>4 DEF FinishedWritingBack, Settled

\* Of what a record can make good, a mend leaves nothing to do or brings the track there.
LEMMA MendingBrings ==
  ASSUME NEW record, IsKept(record), NEW file \in Tracks, Recoverable(record, file)
  PROVE  \/ Mending(file, record) = <<>> /\ Settled(record, file)
         \/ /\ Between(record, file)
            /\ Brings(file, Mending(file, record), Target(record), MayPut(record))
<1>1. record.way \in {"pages", "head", "whole"}
  BY KeptShape
<1>2. CASE record.way = "pages"
  <2>1. Between(record, file) /\ Mending(file, record) = RolledBack(file, record)
        /\ Target(record) = record.before
    BY <1>2 DEF Recoverable, Mending, Target
  <2>2. QED
    BY <1>2, <2>1, RolledBackBrings, RestoredBrings
<1>3. CASE record.way = "head"
  <2>1. Mending(file, record) = CarriedOn(file, record) /\ Target(record) = record.after
    BY <1>3 DEF Mending, Target
  <2>2. QED
    BY <1>3, <2>1, CarriedOnBrings, HeadBrings
<1>4. CASE record.way = "whole"
  <2>1. Between(record, file) /\ Mending(file, record) = FinishedWritingBack(file, record)
        /\ Target(record) = record.after
    BY <1>4 DEF Recoverable, Mending, Target
  <2>2. QED
    BY <1>4, <2>1, FinishedBrings, LaidOverBrings
<1>5. QED
  BY <1>1, <1>2, <1>3, <1>4

\* What was meant and stands is left as it is.
LEMMA NothingToMend ==
  ASSUME NEW record, IsKept(record)
  PROVE  Mending(record.after, record) = <<>>
<1>1. record.way \in {"pages", "head", "whole"}
  BY KeptShape
<1>2. \A pages : Standing(record.after, record.after, pages)
  BY DEF Standing
<1>3. RolledBack(record.after, record) = <<>>
  BY <1>2 DEF RolledBack
<1>4. CarriedOn(record.after, record) = <<>>
  BY <1>2 DEF CarriedOn
<1>5. FinishedWritingBack(record.after, record) = <<>>
  BY DEF FinishedWritingBack
<1>6. QED
  BY <1>1, <1>3, <1>4, <1>5 DEF Mending

\* Whatever stands, a mend makes plain calls.
LEMMA MendingIsPlain ==
  ASSUME NEW record, IsKept(record), NEW file \in Tracks
  PROVE  Mending(file, record) \in Seq(PlainCalls)
<1>1. record.way \in {"pages", "head", "whole"} /\ record.before \in Tracks /\ record.after \in Tracks
  BY KeptShape
<1>2. <<>> \in Seq(PlainCalls)
  OBVIOUS
<1>3. CASE record.way = "pages"
  <2>1. Restored(record) \in Seq(PlainCalls)
    BY <1>1, <1>3, EndsAreBetween, RestoredBrings DEF Brings
  <2>2. QED
    BY <1>2, <1>3, <2>1 DEF Mending, RolledBack
<1>4. CASE record.way = "head"
  <2>1. Puts(record.after, HeadOf(record)) \o Sync \in Seq(PlainCalls)
    BY <1>1, <1>4, EndsAreBetween, HeadBrings DEF Brings
  <2>2. QED
    BY <1>2, <1>4, <2>1 DEF Mending, CarriedOn
<1>5. CASE record.way = "whole"
  <2>1. LaidOver(record, file) \in Seq(PlainCalls)
    BY <1>5, LaidOverBrings DEF Brings
  <2>2. QED
    BY <1>2, <1>5, <2>1 DEF Mending, FinishedWritingBack
<1>6. QED
  BY <1>1, <1>3, <1>4, <1>5

\* Once it is mended, the track is what stood before the write or what it meant.
LEMMA MendedIsSettled ==
  ASSUME NEW record, IsKept(record), NEW file \in Tracks, Recoverable(record, file)
  PROVE  (IF Mending(file, record) = <<>> THEN file ELSE Target(record)) \in {record.before, record.after}
<1>1. Target(record) \in {record.before, record.after} /\ Target(record) \in Tracks
  BY KeptShape DEF Target
<1>2. ASSUME Mending(file, record) = <<>>
      PROVE  file \in {record.before, record.after}
  <2>1. CASE Settled(record, file)
    BY <2>1 DEF Settled
  <2>2. CASE Brings(file, <<>>, Target(record), MayPut(record))
    BY <1>1, <2>2, BroughtIsThere
  <2>3. QED
    BY <1>2, <2>1, <2>2, MendingBrings
<1>3. QED
  BY <1>1, <1>2

-----------------------------------------------------------------------------
(* What is left of a track once the power was cut.                         *)

LEMMA SurvivingIs ==
  ASSUME NEW part \in SUBSET Tracks, NEW page, NEW cell \in Surviving(part, page)
  PROVE  \/ \E file \in part : page <= Len(file) /\ cell = file[page]
         \/ /\ cell = "mixed" /\ \E record \in left : record.way \in TornWays
            /\ \E one, other \in part :
                 page <= Len(one) /\ page <= Len(other) /\ one[page] # other[page]
<1> DEFINE held == {file[page] : file \in {some \in part : page <= Len(some)}}
<1>1. CASE cell \in held
  BY <1>1
<1>2. CASE cell \notin held
  <2>1. cell = "mixed" /\ Cardinality(held) > 1 /\ \E record \in left : record.way \in TornWays
    BY <1>2 DEF Surviving
  <2>2. \E one, other \in held : one # other
    <3> SUFFICES ASSUME \A one, other \in held : one = other PROVE FALSE
      OBVIOUS
    <3> HIDE DEF held
    <3>1. held # {}
      BY <2>1, FS_EmptySet
    <3>2. PICK one \in held : TRUE
      BY <3>1
    <3>3. held = {one}
      BY <3>2
    <3>4. Cardinality(held) = 1
      BY <3>3, FS_Singleton
    <3>5. QED
      BY <2>1, <3>4
  <2>3. QED
    BY <2>1, <2>2
<1>3. QED
  BY <1>1, <1>2

LEMMA SurvivorIs ==
  ASSUME NEW part \in SUBSET Tracks, NEW file \in Survivors(part)
  PROVE  /\ file \in Tracks /\ \E some \in part : Len(file) = Len(some)
         /\ \A page \in DOMAIN file : file[page] \in Surviving(part, page)
<1>1. PICK some \in part :
        /\ file \in [1..Len(some) -> UNION {Surviving(part, page) : page \in 1..Len(some)}]
        /\ \A page \in 1..Len(some) : file[page] \in Surviving(part, page)
  BY DEF Survivors
<1>2. Len(some) \in Nat /\ Len(some) >= 1 /\ "mixed" \in Pages
  BY TrackShape DEF Pages
<1> DEFINE length == Len(some)
<1>3. length \in Nat /\ length >= 1 /\ DOMAIN file = 1..length
  BY <1>1, <1>2
<1>4. \A page \in 1..length : file[page] \in Pages
  <2> TAKE page \in 1..length
  <2>1. file[page] \in Surviving(part, page)
    BY <1>1
  <2>2. CASE file[page] = "mixed"
    BY <1>2, <2>2
  <2>3. ASSUME NEW other \in part, page <= Len(other), file[page] = other[page]
        PROVE  file[page] \in Pages
    <3>1. page \in DOMAIN other
      BY <2>3, TrackShape
    <3>2. QED
      BY <2>3, <3>1, TrackShape
  <2>4. QED
    BY <2>1, <2>2, <2>3, SurvivingIs
<1>5. file \in [1..length -> Pages]
  BY <1>1, <1>4
<1> HIDE DEF length
<1>6. file \in Seq(Pages) /\ Len(file) = length
  BY <1>3, <1>5
<1>7. QED
  BY <1>1, <1>3, <1>6 DEF Tracks, length

\* What the disk held of a track between the two is between the two.
LEMMA SurvivorIsBetween ==
  ASSUME NEW record, IsKept(record), left \subseteq {record}, "whole" \notin TornWays,
         NEW part \in SUBSET Tracks, \A some \in part : Between(record, some), NEW file \in Survivors(part)
  PROVE  Between(record, file)
<1> DEFINE X == Found(record)
           A == record.after
<1>1. X \in Tracks /\ A \in Tracks
  BY KeptShape
<1>2. /\ file \in Tracks /\ \E some \in part : Len(file) = Len(some)
      /\ \A page \in DOMAIN file : file[page] \in Surviving(part, page)
  BY SurvivorIs
<1>3. Len(file) >= Least(Len(X), Len(A)) /\ Len(file) <= Greatest(Len(X), Len(A))
  BY <1>2 DEF Between, Mix
<1>4. ASSUME NEW page \in DOMAIN file
      PROVE  \/ file[page] \in {Cell(X, page), Cell(A, page)}
             \/ file[page] = "mixed" /\ page \in Mixable(record)
  <2>1. page \in Nat \ {0}
    BY <1>2, TrackShape
  <2>2. ASSUME NEW some \in part, page <= Len(some)
        PROVE  page \in DOMAIN some
    BY <2>1, <2>2, TrackShape
  <2>3. ASSUME NEW some \in part, page <= Len(some), file[page] = some[page]
        PROVE  \/ file[page] \in {Cell(X, page), Cell(A, page)}
               \/ file[page] = "mixed" /\ page \in Mixable(record)
    BY <2>2, <2>3 DEF Between, Mix
  <2>4. ASSUME \E some \in left : some.way \in TornWays,
               NEW one \in part, NEW other \in part,
               page <= Len(one), page <= Len(other), one[page] # other[page]
        PROVE  page \in Mixable(record)
    <3>1. record.way # "whole"
      BY <2>4
    <3>2. page \in DOMAIN one /\ page \in DOMAIN other
      BY <2>2, <2>4
    <3>3. SUFFICES ASSUME page \notin Mixable(record) PROVE FALSE
      OBVIOUS
    <3>4. one[page] = Cell(A, page) /\ other[page] = Cell(A, page)
      BY <3>1, <3>2, <3>3, OutsideStands
    <3>5. QED
      BY <2>4, <3>4
  <2>5. QED
    BY <1>2, <2>3, <2>4, SurvivingIs
<1>5. QED
  BY <1>3, <1>4 DEF Between, Mix

\* What every file the disk may hold agrees on survives.
LEMMA AgreedSurvives ==
  ASSUME NEW part \in SUBSET Tracks, NEW page \in Nat \ {0}, NEW cell,
         \A some \in part : page <= Len(some) /\ some[page] = cell, NEW file \in Survivors(part)
  PROVE  page \in DOMAIN file /\ file[page] = cell
<1>1. /\ file \in Tracks /\ \E some \in part : Len(file) = Len(some)
      /\ \A other \in DOMAIN file : file[other] \in Surviving(part, other)
  BY SurvivorIs
<1>2. page <= Len(file) /\ Len(file) \in Nat /\ DOMAIN file = 1..Len(file)
  BY <1>1, TrackShape
<1>3. page \in DOMAIN file
  BY <1>2
<1>4. QED
  BY <1>1, <1>3, SurvivingIs

LEMMA TheOnlyOneSurvives ==
  ASSUME NEW some \in Tracks, NEW file \in Survivors({some})
  PROVE  file = some
<1>1. {some} \in SUBSET Tracks
  OBVIOUS
<1>2. file \in Tracks /\ Len(file) = Len(some)
  BY <1>1, SurvivorIs
<1>3. ASSUME NEW page \in DOMAIN file
      PROVE  file[page] = Cell(some, page)
  <2>1. page \in Nat \ {0} /\ page \in DOMAIN some
    BY <1>2, <1>3, TrackShape
  <2>2. page <= Len(some) /\ Cell(some, page) = some[page]
    BY <2>1, CellIs, TrackShape
  <2>3. QED
    BY <1>1, <2>1, <2>2, AgreedSurvives
<1>4. QED
  BY <1>2, <1>3, SameCells

-----------------------------------------------------------------------------
(* The disk.                                                               *)

Parts == (SUBSET Tracks) \ {{}}

\* The last of what the disk may hold is made of the track as it reads.
DiskOf(file, parts) == parts \in Seq(Parts) /\ parts # <<>> /\ file \in parts[Len(parts)]

PartHolds(record, part) ==
  (\A file \in part : Between(record, file)) \/ (record.way = "head" /\ part = {record.before})

Holds(record, parts) == \A i \in DOMAIN parts : PartHolds(record, parts[i])

\* What a call makes of the disk.
After(call, file, next, parts) ==
  CASE call \in {"put", "cut"}    -> [parts EXCEPT ![Len(parts)] = @ \cup {next}]
    [] call \in {"open", "close"} -> Append(parts, {next})
    [] call = "sync"              -> <<{file}>>

LEMMA LastPart ==
  ASSUME NEW S, NEW parts \in Seq(S), parts # <<>>, NEW part \in S
  PROVE  LET next == [parts EXCEPT ![Len(parts)] = part]
         IN  /\ Len(parts) \in Nat \ {0} /\ Len(parts) \in DOMAIN parts
             /\ next \in Seq(S) /\ next # <<>> /\ Len(next) = Len(parts) /\ next[Len(parts)] = part
             /\ \A i \in DOMAIN next : i \in DOMAIN parts /\ (i = Len(parts) \/ next[i] = parts[i])
<1> DEFINE next == [parts EXCEPT ![Len(parts)] = part]
<1>1. Len(parts) \in Nat \ {0} /\ DOMAIN parts = 1..Len(parts)
  OBVIOUS
<1>2. Len(parts) \in DOMAIN parts
  BY <1>1
<1>3. parts \in [1..Len(parts) -> S]
  OBVIOUS
<1>4. next \in [1..Len(parts) -> S]
  BY <1>3
<1>5. next[Len(parts)] = part /\ \A i \in DOMAIN next : i \in DOMAIN parts /\ (i = Len(parts) \/ next[i] = parts[i])
  BY <1>1, <1>2, <1>3
<1> HIDE DEF next
<1>6. next \in Seq(S) /\ Len(next) = Len(parts)
  BY <1>1, <1>4
<1>7. next # <<>>
  BY <1>1, <1>6
<1>8. QED
  BY <1>1, <1>2, <1>5, <1>6, <1>7 DEF next

LEMMA NewPart ==
  ASSUME NEW S, NEW parts \in Seq(S), NEW part \in S
  PROVE  LET next == Append(parts, part)
         IN  /\ next \in Seq(S) /\ next # <<>> /\ Len(next) \in Nat /\ next[Len(next)] = part
             /\ \A i \in DOMAIN next : (i \in DOMAIN parts /\ next[i] = parts[i]) \/ next[i] = part
  OBVIOUS

LEMMA OnePart ==
  ASSUME NEW file \in Tracks
  PROVE  DiskOf(file, <<{file}>>) /\ \A i \in DOMAIN <<{file}>> : <<{file}>>[i] = {file}
<1>1. {file} \in Parts
  BY DEF Parts
<1>2. /\ <<{file}>> \in Seq(Parts) /\ <<{file}>> # <<>> /\ Len(<<{file}>>) = 1
      /\ \A i \in DOMAIN <<{file}>> : <<{file}>>[i] = {file}
  BY <1>1
<1>3. QED
  BY <1>2 DEF DiskOf

LEMMA DiskAfter ==
  ASSUME NEW file \in Tracks, NEW parts, DiskOf(file, parts), NEW next \in Tracks,
         NEW call \in {"put", "cut", "open", "close", "sync"}, call = "sync" => next = file
  PROVE  DiskOf(next, After(call, file, next, parts))
<1>1. parts \in Seq(Parts) /\ parts # <<>> /\ {next} \in Parts
  BY DEF DiskOf, Parts
<1>2. CASE call \in {"put", "cut"}
  <2> DEFINE part == parts[Len(parts)] \cup {next}
  <2>1. parts[Len(parts)] \in Parts
    BY <1>1, LastPart
  <2>2. part \in Parts /\ next \in part
    BY <2>1 DEF Parts
  <2>3. After(call, file, next, parts) = [parts EXCEPT ![Len(parts)] = part]
    BY <1>2 DEF After
  <2> HIDE DEF part
  <2>4. /\ [parts EXCEPT ![Len(parts)] = part] \in Seq(Parts) /\ [parts EXCEPT ![Len(parts)] = part] # <<>>
        /\ Len([parts EXCEPT ![Len(parts)] = part]) = Len(parts)
        /\ [parts EXCEPT ![Len(parts)] = part][Len(parts)] = part
    BY <1>1, <2>2, LastPart
  <2>5. QED
    BY <2>2, <2>3, <2>4 DEF DiskOf
<1>3. CASE call \in {"open", "close"}
  <2>1. After(call, file, next, parts) = Append(parts, {next})
    BY <1>3 DEF After
  <2>2. QED
    BY <1>1, <2>1, NewPart DEF DiskOf
<1>4. CASE call = "sync"
  <2>1. After(call, file, next, parts) = <<{next}>>
    BY <1>4 DEF After
  <2>2. QED
    BY <2>1, OnePart
<1>5. QED
  BY <1>2, <1>3, <1>4

LEMMA HeadAloneIsNotBetween ==
  ASSUME NEW record, IsKept(record), record.way = "head"
  PROVE  ~Between(record, record.before)
<1>1. /\ record.before \in Tracks /\ record.after \in Tracks /\ Len(record.after) = Len(record.before) + 1
      /\ Len(record.before) \in Nat
  BY KeptShape, TrackShape
<1>2. Len(record.before) # Len(record.after)
  BY <1>1
<1>3. QED
  BY <1>1, <1>2, HeadStands

\* What is written to a track between the two leaves a disk that is made good.
LEMMA HoldsAfter ==
  ASSUME NEW record, IsKept(record), NEW file \in Tracks, NEW parts, DiskOf(file, parts), Holds(record, parts),
         NEW next \in Tracks, NEW call \in {"put", "cut", "open", "close", "sync"}, call = "sync" => next = file,
         Between(record, next), call \in {"put", "cut"} => Between(record, file)
  PROVE  Holds(record, After(call, file, next, parts))
<1>1. parts \in Seq(Parts) /\ parts # <<>> /\ {next} \in Parts
  BY DEF DiskOf, Parts
<1>2. CASE call \in {"put", "cut"}
  <2> DEFINE part == parts[Len(parts)] \cup {next}
  <2>1. parts[Len(parts)] \in Parts /\ Len(parts) \in DOMAIN parts
    BY <1>1, LastPart
  <2>2. part \in Parts
    BY <2>1 DEF Parts
  <2>3. file \in parts[Len(parts)] /\ PartHolds(record, parts[Len(parts)]) /\ Between(record, file)
    BY <1>2, <2>1 DEF DiskOf, Holds
  <2>4. \A some \in parts[Len(parts)] : Between(record, some)
    BY <2>3, HeadAloneIsNotBetween DEF PartHolds
  <2>5. PartHolds(record, part)
    BY <2>4 DEF PartHolds
  <2>6. After(call, file, next, parts) = [parts EXCEPT ![Len(parts)] = part]
    BY <1>2 DEF After
  <2> HIDE DEF part
  <2> DEFINE all == [parts EXCEPT ![Len(parts)] = part]
  <2>7. /\ all[Len(parts)] = part
        /\ \A i \in DOMAIN all : i \in DOMAIN parts /\ (i = Len(parts) \/ all[i] = parts[i])
    BY <1>1, <2>2, LastPart
  <2> HIDE DEF all
  <2>8. Holds(record, all)
    BY <2>5, <2>7 DEF Holds
  <2>9. QED
    BY <2>6, <2>8 DEF all
<1>3. CASE call \in {"open", "close"}
  <2>1. After(call, file, next, parts) = Append(parts, {next})
    BY <1>3 DEF After
  <2>2. PartHolds(record, {next})
    BY DEF PartHolds
  <2>3. \A i \in DOMAIN Append(parts, {next}) :
          (i \in DOMAIN parts /\ Append(parts, {next})[i] = parts[i]) \/ Append(parts, {next})[i] = {next}
    BY <1>1, NewPart
  <2>4. QED
    BY <2>1, <2>2, <2>3 DEF Holds
<1>4. CASE call = "sync"
  <2>1. After(call, file, next, parts) = <<{next}>>
    BY <1>4 DEF After
  <2>2. QED
    BY <2>1, OnePart DEF Holds, PartHolds
<1>5. QED
  BY <1>2, <1>3, <1>4

\* The same where the room is taken back.
LEMMA HoldsWhatStood ==
  ASSUME NEW record, IsKept(record), record.way = "head", NEW parts, parts \in Seq(Parts), Holds(record, parts)
  PROVE  /\ Holds(record, Append(parts, {record.before})) /\ Holds(record, <<{record.before}>>)
<1>1. record.before \in Tracks
  BY KeptShape
<1>2. {record.before} \in Parts /\ PartHolds(record, {record.before})
  BY <1>1 DEF Parts, PartHolds
<1>3. \A i \in DOMAIN Append(parts, {record.before}) :
        \/ i \in DOMAIN parts /\ Append(parts, {record.before})[i] = parts[i]
        \/ Append(parts, {record.before})[i] = {record.before}
  BY <1>2, NewPart
<1>4. QED
  BY <1>1, <1>2, <1>3, OnePart DEF Holds

-----------------------------------------------------------------------------
(* What a job is about, and what its next call makes of it.                *)

Flushed(file, todo, parts) == todo = <<>> => parts = <<{file}>>

\* A longer head is taken back: the old head behind the room, then the room away.
Taking(record, file, todo) ==
  LET back == BackCall(record) IN
  \/ todo = <<back, SyncCall, CloseCall, SyncCall>> /\ Between(record, file)
  \/ /\ todo \in {<<SyncCall, CloseCall, SyncCall>>, <<CloseCall, SyncCall>>}
     /\ Between(record, file) /\ file[2] = record.before[1]
  \/ todo \in {<<SyncCall>>, <<>>} /\ file = record.before

\* What a writer that kept a record is about: to open the room, to lay what was meant, to
\* restore the pages, or to take the room back.
OpensRoom(record, file, parts, doing) ==
  /\ doing.doing = "landing" /\ record.way = "head" /\ doing.todo = Lengthened(record)
  /\ file = record.before /\ parts = <<{record.before}>>
Lays(record, file, parts, doing) ==
  /\ doing.doing = "landing" /\ Between(record, file)
  /\ Brings(file, doing.todo, record.after, MayPut(record))
Restores(record, file, parts, doing) ==
  /\ doing.doing = "taking_back" /\ record.way = "pages" /\ Between(record, file)
  /\ Brings(file, doing.todo, record.before, MayPut(record))
TakesRoom(record, file, parts, doing) ==
  doing.doing = "taking_back" /\ record.way = "head" /\ Taking(record, file, doing.todo)

WriterAbout(record, file, parts, doing) ==
  /\ doing.record = record
  /\ \/ OpensRoom(record, file, parts, doing) \/ Lays(record, file, parts, doing)
     \/ Restores(record, file, parts, doing) \/ TakesRoom(record, file, parts, doing)
  /\ Flushed(file, doing.todo, parts)

MenderAbout(record, file, parts, doing) ==
  /\ doing.record = record
  /\ \/ doing.todo = <<>> /\ Settled(record, file)
     \/ Between(record, file) /\ Brings(file, doing.todo, Target(record), MayPut(record))
  /\ Flushed(file, doing.todo, parts)

\* A call that brings a track closer keeps what the record can make good.
LEMMA CallKeepsGood ==
  ASSUME NEW record, IsKept(record), NEW file \in Tracks, NEW parts, DiskOf(file, parts), Holds(record, parts),
         Between(record, file), NEW to \in {Found(record), record.after}, NEW todo, todo # <<>>,
         Brings(file, todo, to, MayPut(record))
  PROVE  LET next == Made(file, Head(todo))
             held == After(Head(todo).call, file, next, parts)
         IN  /\ Head(todo) \in PlainCalls /\ next \in Tracks
             /\ DiskOf(next, held) /\ Holds(record, held) /\ Between(record, next)
             /\ Brings(next, Tail(todo), to, MayPut(record)) /\ Flushed(next, Tail(todo), held)
<1> DEFINE step == Head(todo)
           next == Made(file, step)
           held == After(step.call, file, next, parts)
<1>1. Found(record) \in Tracks /\ record.after \in Tracks /\ to \in Tracks
  BY KeptShape
<1>2. /\ step \in PlainCalls /\ Closer(file, to, MayPut(record), next)
      /\ Brings(next, Tail(todo), to, MayPut(record)) /\ (Tail(todo) = <<>> => step = SyncCall)
  BY <1>1, CallBringsCloser
<1>3. step.call \in {"sync", "cut", "put"} /\ next \in Tracks
  BY <1>2, PlainCallLeavesATrack
<1>4. Between(record, next)
  BY <1>1, <1>2, CloserKeepsMix DEF Between
<1>5. step.call = "sync" => next = file
  BY DEF Made
<1> HIDE DEF step, next
<1>6. DiskOf(next, held)
  BY <1>3, <1>5, DiskAfter
<1>7. Holds(record, held)
  BY <1>3, <1>4, <1>5, HoldsAfter
<1>8. ASSUME Tail(todo) = <<>>
      PROVE  held = <<{next}>>
  <2>1. step.call = "sync"
    BY <1>2, <1>8 DEF SyncCall
  <2>2. QED
    BY <1>5, <2>1 DEF After
<1> HIDE DEF held
<1>9. Flushed(next, Tail(todo), held)
  BY <1>8 DEF Flushed
<1>10. QED
  BY <1>2, <1>3, <1>4, <1>6, <1>7, <1>9 DEF step, next, held

LEMMA RoomIsOpened ==
  ASSUME NEW record, IsKept(record), record.way = "head"
  PROVE  Cell(Found(record), 2) = record.before[1]
<1> DEFINE file == record.before
           opened == Opened(file, 1)
<1>1. file \in Tracks /\ Found(record) = opened
  BY KeptShape
<1> HIDE DEF file
<1>2. /\ opened \in Tracks /\ Len(opened) = Len(file) + 1
      /\ \A page \in DOMAIN opened : page >= 2 => opened[page] = file[page - 1]
  BY <1>1, OpenedIs
<1> HIDE DEF opened
<1>3. Len(file) \in Nat /\ Len(file) >= 1
  BY <1>1, TrackShape
<1>4. 2 \in DOMAIN opened
  BY <1>2, <1>3, TrackShape
<1>5. opened[2] = file[1]
  BY <1>2, <1>4
<1>6. Cell(opened, 2) = opened[2]
  BY <1>2, <1>4, CellIs
<1>7. QED
  BY <1>1, <1>5, <1>6 DEF file

\* The same of each call that takes the room back.
LEMMA TakingKeepsGood ==
  ASSUME NEW record, IsKept(record), record.way = "head", NEW file \in Tracks, NEW parts,
         DiskOf(file, parts), Holds(record, parts), NEW todo, todo # <<>>, Taking(record, file, todo)
  PROVE  LET next == Made(file, Head(todo))
             held == After(Head(todo).call, file, next, parts)
         IN  /\ Head(todo).call \in {"put", "sync", "close"} /\ next \in Tracks
             /\ DiskOf(next, held) /\ Holds(record, held)
             /\ Taking(record, next, Tail(todo)) /\ Flushed(next, Tail(todo), held)
<1> DEFINE back == BackCall(record)
           step == Head(todo)
           next == Made(file, step)
           held == After(step.call, file, next, parts)
           B == record.before
           X == Found(record)
           A == record.after
<1>1. /\ B \in Tracks /\ A \in Tracks /\ X \in Tracks /\ X = Opened(B, 1) /\ Len(X) = Len(A)
      /\ {1, 2} \subseteq DOMAIN A /\ HeadOf(record) = {1, 2} /\ Mixable(record) = {1, 2}
      /\ Len(A) = Len(B) + 1 /\ \A page \in DOMAIN A : page >= 3 => A[page] = B[page - 1]
  BY KeptShape DEF Mixable
<1>2. back.call = "put" /\ back.page = 2 /\ back.cell = B[1] /\ B[1] \in Pages /\ SyncCall.call = "sync"
      /\ CloseCall.call = "close" /\ CloseCall.by = 1 /\ parts \in Seq(Parts)
  BY <1>1, TrackShape DEF BackCall, SyncCall, CloseCall, DiskOf
<1>3. /\ Head(<<back, SyncCall, CloseCall, SyncCall>>) = back
      /\ Tail(<<back, SyncCall, CloseCall, SyncCall>>) = <<SyncCall, CloseCall, SyncCall>>
      /\ Head(<<SyncCall, CloseCall, SyncCall>>) = SyncCall
      /\ Tail(<<SyncCall, CloseCall, SyncCall>>) = <<CloseCall, SyncCall>>
      /\ Head(<<CloseCall, SyncCall>>) = CloseCall /\ Tail(<<CloseCall, SyncCall>>) = <<SyncCall>>
      /\ Head(<<SyncCall>>) = SyncCall /\ Tail(<<SyncCall>>) = <<>>
      /\ <<SyncCall, CloseCall, SyncCall>> # <<>> /\ <<CloseCall, SyncCall>> # <<>> /\ <<SyncCall>> # <<>>
  BY FourOneByOne
<1> HIDE DEF back
<1>4. CASE todo = <<back, SyncCall, CloseCall, SyncCall>> /\ Between(record, file)
  <2>1. step = back /\ Tail(todo) = <<SyncCall, CloseCall, SyncCall>>
    BY <1>3, <1>4
  <2>2. next = Put(file, 2, B[1])
    BY <1>2, <2>1 DEF Made
  <2>3. 2 \in Nat \ {0} /\ 2 <= Len(file) + 1 /\ 2 <= Greatest(Len(X), Len(A))
    <3>1. Len(A) \in Nat /\ Len(file) \in Nat /\ Len(file) = Len(A) /\ 2 <= Len(A) /\ Len(X) = Len(A)
      BY <1>1, <1>4, HeadStands, TrackShape
    <3>2. QED
      BY <3>1 DEF Greatest
  <2>4. next \in Tracks /\ next[2] = B[1]
    <3> DEFINE cell == B[1]
               put == Put(file, 2, cell)
    <3>1. cell \in Pages /\ 2 \in Nat \ {0}
      BY <1>2
    <3> HIDE DEF cell
    <3>2. put \in Tracks /\ put[2] = cell
      BY <3>1, PutIsWhere
    <3> HIDE DEF put
    <3>3. next = put
      BY <2>2 DEF put, cell
    <3>4. QED
      BY <3>2, <3>3 DEF cell
  <2>5. B[1] = Cell(X, 2)
    BY RoomIsOpened
  <2>6. Between(record, next)
    <3>1. Mix(Put(file, 2, B[1]), X, A, {1, 2})
      BY <1>1, <1>2, <1>4, <2>3, <2>5, HalfAPageKeepsMix DEF Between
    <3>2. QED
      BY <1>1, <2>2, <3>1 DEF Between
  <2>7. DiskOf(next, held) /\ Holds(record, held)
    BY <1>2, <1>4, <2>1, <2>4, <2>6, DiskAfter, HoldsAfter
  <2>8. Taking(record, next, Tail(todo)) /\ Flushed(next, Tail(todo), held)
    BY <1>3, <2>1, <2>4, <2>6 DEF Taking, Flushed
  <2>9. QED
    BY <1>2, <2>1, <2>4, <2>7, <2>8
<1>5. CASE todo = <<SyncCall, CloseCall, SyncCall>> /\ Between(record, file) /\ file[2] = B[1]
  <2>1. step = SyncCall /\ Tail(todo) = <<CloseCall, SyncCall>>
    BY <1>3, <1>5
  <2>2. next = file
    BY <1>2, <2>1 DEF Made
  <2>3. DiskOf(next, held) /\ Holds(record, held)
    BY <1>2, <1>5, <2>1, <2>2, DiskAfter, HoldsAfter
  <2>4. Taking(record, next, Tail(todo)) /\ Flushed(next, Tail(todo), held)
    BY <1>3, <1>5, <2>1, <2>2 DEF Taking, Flushed
  <2>5. QED
    BY <1>2, <2>1, <2>2, <2>3, <2>4
<1>6. CASE todo = <<CloseCall, SyncCall>> /\ Between(record, file) /\ file[2] = B[1]
  <2>1. step = CloseCall /\ Tail(todo) = <<SyncCall>>
    BY <1>3, <1>6
  <2>2. next = Closed(file, 1)
    BY <1>2, <2>1 DEF Made
  <2>3. /\ Len(file) = Len(A)
        /\ \A page \in DOMAIN A : page \in {1, 2} \/ file[page] = A[page]
    BY <1>6, HeadStands
  <2>4. DOMAIN file = DOMAIN A
    BY <1>1, <2>3, TrackShape
  <2>5. ASSUME NEW page \in DOMAIN file, page >= 2
        PROVE  file[page] = B[page - 1]
    <3>1. page \in Nat \ {0}
      BY TrackShape
    <3>2. CASE page = 2
      BY <1>6, <3>2
    <3>3. CASE page # 2
      <4>1. page >= 3 /\ page \notin {1, 2}
        BY <2>5, <3>1, <3>3
      <4>2. QED
        BY <1>1, <2>3, <2>4, <4>1
    <3>4. QED
      BY <3>2, <3>3
  <2>6. next = B
    BY <1>1, <2>2, <2>3, <2>5, ClosedIs
  <2>7. held = Append(parts, {B})
    BY <1>2, <2>1, <2>6 DEF After
  <2>8. DiskOf(next, held)
    BY <1>1, <1>2, <2>1, <2>6, DiskAfter
  <2>9. Holds(record, held)
    BY <1>2, <2>7, HoldsWhatStood
  <2>10. Taking(record, next, Tail(todo)) /\ Flushed(next, Tail(todo), held)
    BY <1>3, <2>1, <2>6 DEF Taking, Flushed
  <2>11. QED
    BY <1>1, <1>2, <2>1, <2>6, <2>8, <2>9, <2>10
<1>7. CASE todo = <<SyncCall>> /\ file = B
  <2>1. step = SyncCall /\ Tail(todo) = <<>>
    BY <1>3, <1>7
  <2>2. next = B
    BY <1>2, <1>7, <2>1 DEF Made
  <2>3. held = <<{B}>>
    BY <1>2, <1>7, <2>1 DEF After
  <2>4. DiskOf(next, held) /\ Holds(record, held)
    BY <1>1, <1>2, <2>2, <2>3, OnePart, HoldsWhatStood
  <2>5. Taking(record, next, Tail(todo)) /\ Flushed(next, Tail(todo), held)
    BY <2>1, <2>2, <2>3 DEF Taking, Flushed
  <2>6. QED
    BY <1>1, <1>2, <2>1, <2>2, <2>4, <2>5
<1>8. QED
  BY <1>4, <1>5, <1>6, <1>7 DEF Taking, back

\* A call that fails over half a page leaves what the record can make good.
LEMMA HalfAPageKeepsGood ==
  ASSUME NEW record, IsKept(record), record.way # "whole", NEW file \in Tracks, NEW parts,
         DiskOf(file, parts), Holds(record, parts), NEW doing, WriterAbout(record, file, parts, doing),
         doing.todo # <<>>, Head(doing.todo).call = "put"
  PROVE  LET next == Put(file, Head(doing.todo).page, "mixed")
             held == After("put", file, next, parts)
         IN  next \in Tracks /\ DiskOf(next, held) /\ Holds(record, held) /\ Between(record, next)
<1> DEFINE page == Head(doing.todo).page
           next == Put(file, page, "mixed")
           held == After("put", file, next, parts)
           X == Found(record)
           A == record.after
<1>1. /\ X \in Tracks /\ A \in Tracks /\ record.before \in Tracks /\ record.way \in {"pages", "head"}
      /\ "mixed" \in Pages
  BY KeptShape DEF Pages
<1>2. /\ Between(record, file) /\ page \in Nat \ {0} /\ page \in Mixable(record)
      /\ page <= Len(file) + 1 /\ page <= Greatest(Len(X), Len(A))
  <2>1. ASSUME NEW to \in Tracks, to = A \/ to = X, Between(record, file), Brings(file, doing.todo, to, MayPut(record))
        PROVE  /\ page \in Nat \ {0} /\ page \in Mixable(record)
               /\ page <= Len(file) + 1 /\ page <= Greatest(Len(X), Len(A))
    <3>1. doing.todo \in Seq(PlainCalls)
      BY <2>1 DEF Brings
    <3>2. Head(doing.todo) = doing.todo[1] /\ 1 \in DOMAIN doing.todo
      BY <3>1, RestOf
    <3>3. SyncCall.call = "sync" /\ CutTo(Len(to)).call = "cut"
      BY DEF SyncCall, CutTo
    <3>4. PICK put \in MayPut(record) \cap DOMAIN to : Head(doing.todo) = PutOf(to, put)
      BY <2>1, <3>2, <3>3 DEF Brings
    <3>5. page = put
      BY <3>4 DEF PutOf
    <3>6. put <= Len(file) + 1
      BY <2>1, <3>4, PutComesNext
    <3>7. MayPut(record) = Mixable(record)
      BY <1>1 DEF MayPut, Mixable
    <3>8. put \in Nat \ {0} /\ put <= Len(to) /\ Len(to) \in Nat /\ Len(A) \in Nat /\ Len(X) \in Nat
      BY <1>1, TrackShape
    <3>9. put <= Greatest(Len(X), Len(A))
      BY <2>1, <3>8 DEF Greatest
    <3>10. QED
      BY <3>4, <3>5, <3>6, <3>7, <3>8, <3>9
  <2>2. CASE OpensRoom(record, file, parts, doing)
    <3>1. PICK rest \in Seq(PlainCalls) : doing.todo = <<OpenCall>> \o rest
      BY <2>2, LengthenedBrings DEF OpensRoom
    <3>2. Head(doing.todo) = OpenCall
      <4>1. rest \in Seq(PlainCalls \cup {OpenCall}) /\ OpenCall \in PlainCalls \cup {OpenCall}
        OBVIOUS
      <4>2. QED
        BY <3>1, <4>1, FirstOf
    <3>3. QED
      BY <3>2 DEF OpenCall
  <2>3. CASE Lays(record, file, parts, doing)
    BY <1>1, <2>1, <2>3 DEF Lays
  <2>4. CASE Restores(record, file, parts, doing)
    <3>1. record.before = X
      BY <2>4, KeptShape DEF Restores
    <3>2. QED
      BY <1>1, <2>1, <2>4, <3>1 DEF Restores
  <2>5. CASE TakesRoom(record, file, parts, doing)
    <3> DEFINE back == BackCall(record)
    <3>1. back.call = "put" /\ back.page = 2 /\ SyncCall.call = "sync" /\ CloseCall.call = "close"
      BY DEF BackCall, SyncCall, CloseCall
    <3>2. doing.todo = <<back, SyncCall, CloseCall, SyncCall>> /\ Between(record, file)
      BY <2>5, <3>1, FourOneByOne DEF TakesRoom, Taking
    <3>3. page = 2
      BY <3>1, <3>2, FourOneByOne
    <3>4. /\ Mixable(record) = {1, 2} /\ Len(file) = Len(A) /\ Len(X) = Len(A)
          /\ {1, 2} \subseteq DOMAIN A
      BY <2>5, <3>2, KeptShape, HeadStands DEF TakesRoom, Mixable
    <3>5. Len(A) \in Nat /\ 2 <= Len(A)
      BY <1>1, <3>4, TrackShape
    <3>6. 2 <= Len(file) + 1 /\ 2 <= Greatest(Len(X), Len(A))
      BY <3>4, <3>5 DEF Greatest
    <3>7. QED
      BY <3>2, <3>3, <3>4, <3>6
  <2>6. Between(record, file)
    BY <2>2, <2>3, <2>4, <2>5 DEF WriterAbout, Lays, Restores
  <2>7. QED
    BY <2>2, <2>3, <2>4, <2>5, <2>6 DEF WriterAbout
<1> HIDE DEF page
<1>3. next \in Tracks
  BY <1>1, <1>2, PutIsWhere
<1>4. Between(record, next)
  BY <1>1, <1>2, HalfAPageKeepsMix DEF Between
<1> HIDE DEF next
<1>5. DiskOf(next, held) /\ Holds(record, held)
  BY <1>2, <1>3, <1>4, DiskAfter, HoldsAfter
<1>6. QED
  BY <1>3, <1>4, <1>5 DEF next, held, page

-----------------------------------------------------------------------------
(* The inductive invariant.                                                *)

Kept == {record \in [way : {"pages", "head", "whole"}, before : Tracks, after : Tracks, shift : {0, 1}] :
           IsKept(record)}
Jobs == [doing : {"nothing", "landing", "taking_back", "mending"}, todo : Seq(Calls),
         record : Kept \cup {NoRecord}]

Trusted == last.kept /\ ~meddled

\* A write that could keep no record goes on alone; one that did holds it.
WriterShape(doing) ==
  \/ doing = Idle
  \/ /\ last.answer = "none"
     /\ \/ /\ doing.doing = "landing" /\ doing.record = NoRecord /\ left = {} /\ ~last.kept
           /\ doing.todo \in Seq(PlainCalls)
        \/ doing.doing \in {"landing", "taking_back"} /\ doing.record \in left /\ Trusted

\* Nothing is mended while a writer is about.
MenderShape(doing) ==
  \/ doing = Idle
  \/ /\ job["writer"] = Idle /\ doing.doing = "mending" /\ doing.record \in left
     /\ doing.todo \in Seq(PlainCalls)

TypeInv ==
  /\ track \in Tracks /\ DiskOf(track, disk)
  /\ left \subseteq filed /\ \A record \in filed : record \in Kept /\ filed = {record}
  /\ last \in [before : Tracks, after : Tracks, answer : {"none", "landed", "failed"}, kept : BOOLEAN]
  /\ meddled \in BOOLEAN
  /\ job \in [Actors -> Jobs] /\ WriterShape(job["writer"]) /\ MenderShape(job["mender"])

\* What a record is of, and what can be made good of it.
HeldBy(record) ==
  /\ Recoverable(record, track) /\ Holds(record, disk)
  /\ job["writer"] # Idle => WriterAbout(record, track, disk, job["writer"])
  /\ job["mender"] # Idle => MenderAbout(record, track, disk, job["mender"])

OfTheLast(record) == record.before = last.before /\ record.after = last.after
AllIsSettled ==
  /\ disk = <<{track}>> /\ track \in {last.before, last.after}
  /\ \A record \in filed : Settled(record, track)
ItLanded ==
  /\ track = last.after /\ disk = <<{track}>>
  /\ job["writer"] = Idle /\ job["mender"].todo = <<>>

TrustInv ==
  Trusted =>
    /\ \A record \in filed : OfTheLast(record)
    /\ left = {} /\ job["writer"] = Idle => AllIsSettled
    /\ last.answer = "landed" => ItLanded
    /\ \A record \in left : HeldBy(record)

\* What is left to do of a mend spares a page of another program's.
Spares(doing, page) ==
  \A i \in DOMAIN doing.todo :
    /\ doing.todo[i].call = "put" => doing.todo[i].page # page
    /\ doing.todo[i].call = "cut" => page <= doing.todo[i].to
OnDisk(parts, page) == \A i \in DOMAIN parts : \A file \in parts[i] : page <= Len(file) /\ file[page] = "other"
Strange(doing, file, page) == file[page] = "other" /\ Cell(Found(doing.record), page) # "other"

\* A mend puts no page of another program's but one the write had found.
PutsItsOwn(doing) ==
  \A i \in DOMAIN doing.todo :
    doing.todo[i].call = "put" /\ doing.todo[i].cell = "other" =>
      Cell(Found(doing.record), doing.todo[i].page) = "other"

OthersInv ==
  meddled /\ job["mender"].doing = "mending" =>
    /\ PutsItsOwn(job["mender"])
    /\ \A page \in DOMAIN track :
         Strange(job["mender"], track, page) => Spares(job["mender"], page) /\ OnDisk(disk, page)

Inv == TypeInv /\ TrustInv /\ OthersInv

LEMMA IdleIs == Idle \in Jobs /\ Idle.doing = "nothing" /\ Idle.todo = <<>> /\ Idle.record = NoRecord
  BY DEF Idle, Jobs

LEMMA PlainCallsAreCalls == Seq(PlainCalls) \subseteq Seq(Calls)
  BY DEF Calls

LEMMA VersionsAreTracks ==
  ASSUME NEW file \in Versions
  PROVE  /\ file \in Tracks /\ \A page \in DOMAIN file : file[page] \in Cells
<1>1. PICK length \in 1..MaxPages : file \in [1..length -> Cells]
  BY DEF Versions
<1>2. length \in Nat /\ length >= 1
  BY <1>1, JournalAssumption
<1>3. \A page \in DOMAIN file : file[page] \in Cells
  BY <1>1
<1>4. file \in [1..length -> Pages]
  BY <1>1 DEF Pages
<1>5. file \in Seq(Pages) /\ Len(file) = length
  BY <1>2, <1>4
<1>6. QED
  BY <1>2, <1>3, <1>5 DEF Tracks

\* A record that was kept names two tracks; none names none.
LEMMA KeptIs ==
  ASSUME NEW record \in Kept
  PROVE  IsKept(record) /\ record # NoRecord /\ record.before \in Tracks /\ record.after \in Tracks
<1>1. IsKept(record) /\ record.before \in Tracks /\ record.after \in Tracks
  BY DEF Kept
<1>2. <<>> \notin Tracks
  BY DEF Tracks
<1>3. NoRecord.before = <<>>
  BY DEF NoRecord, Record
<1>4. QED
  BY <1>1, <1>2, <1>3

\* A track that stands, with nothing left beside it, satisfies it.
LEMMA InitInv == ASSUME Init PROVE Inv
<1>1. track \in Versions /\ disk = <<{track}>> /\ left = {} /\ filed = {}
      /\ job = [actor \in Actors |-> Idle]
      /\ last = [before |-> track, after |-> track, answer |-> "none", kept |-> TRUE]
      /\ meddled = FALSE
  BY DEF Init
<1>2. track \in Tracks
  BY <1>1, VersionsAreTracks
<1>3. DiskOf(track, disk)
  BY <1>1, <1>2, OnePart
<1>4. job \in [Actors -> Jobs] /\ job["writer"] = Idle /\ job["mender"] = Idle
  BY <1>1, IdleIs DEF Actors
<1>5. TypeInv
  BY <1>1, <1>2, <1>3, <1>4 DEF TypeInv, WriterShape, MenderShape
<1>6. TrustInv
  BY <1>1 DEF TrustInv, AllIsSettled
<1>7. OthersInv
  BY <1>4, IdleIs DEF OthersInv
<1>8. QED
  BY <1>5, <1>6, <1>7 DEF Inv

-----------------------------------------------------------------------------
(* Each action keeps the invariant.                                        *)

\* A write that is begun keeps a record of what it found.
LEMMA MadeIsKept ==
  ASSUME ~ShrinksInPlace, track \in Tracks, NEW way \in Ways, NEW after \in Versions, NEW shift \in 0..1,
         Makes(way, after, shift)
  PROVE  Record(way, track, after, shift) \in Kept
<1> DEFINE record == Record(way, track, after, shift)
<1>1. /\ record.way = way /\ record.before = track /\ record.after = after /\ record.shift = shift
      /\ record \in [way : {way}, before : {track}, after : {after}, shift : {shift}]
  BY DEF Record
<1>2. after \in Tracks /\ \A page \in DOMAIN after : after[page] \in Cells
  BY VersionsAreTracks
<1>3. way \in {"pages", "head", "whole"} /\ shift \in {0, 1}
  BY JournalAssumption
<1>4. record \in [way : {"pages", "head", "whole"}, before : Tracks, after : Tracks, shift : {0, 1}]
  BY <1>2, <1>3 DEF Record
<1>5. way # "head" => shift = 0
  BY <1>3 DEF Makes
<1>6. way = "pages" => Len(after) >= Len(track)
  BY DEF Makes
<1>7. ASSUME way = "head"
      PROVE  /\ shift = 1 /\ Len(after) = Len(track) + 1
             /\ \A page \in DOMAIN after : page >= 3 => after[page] = track[page - 1]
  <2>1. shift = 1 /\ Len(after) = Len(track) + 1 /\ SubSeq(after, 3, Len(after)) = Tail(track)
    BY <1>3, <1>7 DEF Makes
  <2>2. /\ after \in Seq(Pages) /\ track \in Seq(Pages) /\ Len(track) \in Nat /\ Len(track) >= 1
        /\ DOMAIN after = 1..Len(after)
    BY <1>2 DEF Tracks
  <2> DEFINE one == SubSeq(after, 3, Len(after))
             other == Tail(track)
  <2>3. \A i \in 1..(Len(after) - 2) : one[i] = after[i + 2]
    BY <2>1, <2>2
  <2>4. \A i \in 1..(Len(track) - 1) : other[i] = track[i + 1]
    BY <2>2
  <2>5. one = other
    BY <2>1
  <2> HIDE DEF one, other
  <2>6. ASSUME NEW page \in 1..Len(after), page >= 3
        PROVE  after[page] = track[page - 1]
    <3>1. page - 2 \in 1..(Len(after) - 2) /\ page - 2 \in 1..(Len(track) - 1)
      BY <2>1, <2>2, <2>6
    <3>2. one[page - 2] = after[(page - 2) + 2] /\ other[page - 2] = track[(page - 2) + 1]
      BY <2>3, <2>4, <3>1
    <3>3. (page - 2) + 2 = page /\ (page - 2) + 1 = page - 1
      BY <2>6
    <3>4. QED
      BY <2>5, <3>2, <3>3
  <2>7. QED
    BY <2>1, <2>2, <2>6
<1> HIDE DEF record
<1>8. IsKept(record)
  BY <1>1, <1>2, <1>4, <1>5, <1>6, <1>7 DEF IsKept
<1>9. QED
  BY <1>4, <1>8 DEF Kept, record

\* What the writer is about as it begins.
LEMMA LandingIsAbout ==
  ASSUME track \in Tracks, NEW record, IsKept(record), record.before = track, NEW doing,
         doing = [doing |-> "landing", todo |-> Landing(record), record |-> record]
  PROVE  /\ WriterAbout(record, track, <<{track}>>, doing) /\ doing.todo \in Seq(Calls)
         /\ Holds(record, <<{track}>>) /\ Recoverable(record, track)
<1>1. /\ doing.doing = "landing" /\ doing.todo = Landing(record) /\ doing.record = record
      /\ record.way \in {"pages", "head", "whole"}
  BY KeptShape
<1>2. Flushed(track, doing.todo, <<{track}>>)
  BY DEF Flushed
<1>3. CASE record.way = "pages"
  <2>1. Landing(record) = Laid(record) /\ Found(record) = track
    BY <1>3, KeptShape DEF Landing
  <2>2. Between(record, track) /\ Brings(track, doing.todo, record.after, MayPut(record))
    BY <1>1, <1>3, <2>1, EndsAreBetween, LaidBrings
  <2>3. doing.todo \in Seq(Calls)
    BY <2>2, PlainCallsAreCalls DEF Brings
  <2>4. QED
    BY <1>1, <1>2, <2>2, <2>3, OnePart DEF WriterAbout, Lays, Holds, PartHolds, Recoverable
<1>4. CASE record.way = "whole"
  <2>1. Landing(record) = LaidOver(record, track) /\ Found(record) = track
    BY <1>4, KeptShape DEF Landing
  <2>2. Between(record, track) /\ Brings(track, doing.todo, record.after, MayPut(record))
    BY <1>1, <1>4, <2>1, EndsAreBetween, LaidOverBrings
  <2>3. doing.todo \in Seq(Calls)
    BY <2>2, PlainCallsAreCalls DEF Brings
  <2>4. QED
    BY <1>1, <1>2, <2>2, <2>3, OnePart DEF WriterAbout, Lays, Holds, PartHolds, Recoverable
<1>5. CASE record.way = "head"
  <2>1. Landing(record) = Lengthened(record)
    BY <1>5 DEF Landing
  <2>2. OpensRoom(record, track, <<{track}>>, doing)
    BY <1>1, <1>5, <2>1 DEF OpensRoom
  <2>3. PICK rest \in Seq(PlainCalls) : Lengthened(record) = <<OpenCall>> \o rest
    BY <1>5, LengthenedBrings
  <2>4. rest \in Seq(Calls) /\ OpenCall \in Calls
    BY PlainCallsAreCalls DEF OpenCall, Calls
  <2>5. doing.todo \in Seq(Calls)
    BY <1>1, <2>1, <2>3, <2>4, FirstOf
  <2>6. QED
    BY <1>1, <1>2, <1>5, <2>2, <2>5, OnePart DEF WriterAbout, Holds, PartHolds, Recoverable
<1>6. QED
  BY <1>1, <1>3, <1>4, <1>5

LEMMA BeginKeeps == ASSUME Premises, Inv, Begin PROVE Inv'
<1>1. /\ TypeInv /\ left = {} /\ job["writer"] = Idle /\ disk' = <<{track}>> /\ track' = track
      /\ meddled' = FALSE
  <2>1. TypeInv /\ WriterShape(job["writer"]) /\ job["writer"].doing = "nothing"
    BY DEF Inv, TypeInv, Begin, IsIdle
  <2>2. job["writer"] = Idle
    BY <2>1 DEF WriterShape
  <2>3. QED
    BY <2>1, <2>2 DEF Begin, WrittenBack, Premises
<1>2. PICK way \in Ways, after \in Versions, shift \in 0..1 :
        /\ Makes(way, after, shift)
        /\ left' = {Record(way, track, after, shift)} /\ filed' = {Record(way, track, after, shift)}
        /\ About("writer", "landing", Landing(Record(way, track, after, shift)),
                 Record(way, track, after, shift))
        /\ last' = [before |-> track, after |-> after, answer |-> "none", kept |-> TRUE]
  BY DEF Begin
<1>3. PICK record \in Kept :
        /\ record.before = track /\ record.after = after
        /\ record = Record(way, track, after, shift)
  BY <1>1, <1>2, MadeIsKept DEF TypeInv, Premises, Record
<1>4. PICK doing :
        doing = [doing |-> "landing", todo |-> Landing(record), record |-> record]
  OBVIOUS
<1>5. IsKept(record) /\ track \in Tracks /\ after \in Tracks
  BY <1>1, <1>3, KeptIs, VersionsAreTracks DEF TypeInv
<1>6. /\ WriterAbout(record, track, <<{track}>>, doing) /\ doing.todo \in Seq(Calls)
      /\ Holds(record, <<{track}>>) /\ Recoverable(record, track)
  BY <1>3, <1>4, <1>5, LandingIsAbout
<1>7. doing \in Jobs /\ doing.doing = "landing" /\ doing.record = record
  BY <1>4, <1>6 DEF Jobs
<1>8. job["mender"] = Idle
  BY <1>1 DEF TypeInv, MenderShape
<1>9. job' \in [Actors -> Jobs] /\ job'["writer"] = doing /\ job'["mender"] = Idle
  BY <1>1, <1>2, <1>3, <1>4, <1>7, <1>8 DEF TypeInv, Actors, About
<1>10. left' = {record} /\ filed' = {record} /\ last'.before = track /\ last'.after = after
       /\ last'.answer = "none" /\ last'.kept = TRUE
       /\ last' \in [before : Tracks, after : Tracks, answer : {"none", "landed", "failed"}, kept : BOOLEAN]
  BY <1>2, <1>3, <1>5
<1>11. TypeInv'
  <2>1. DiskOf(track, <<{track}>>)
    BY <1>5, OnePart
  <2>2. WriterShape(job["writer"])'
    BY <1>1, <1>7, <1>9, <1>10 DEF WriterShape, Trusted
  <2>3. QED
    BY <1>1, <1>3, <1>5, <1>9, <1>10, <2>1, <2>2 DEF TypeInv, MenderShape
<1>12. TrustInv'
  <2>1. HeldBy(record)'
    BY <1>1, <1>6, <1>9 DEF HeldBy
  <2>2. QED
    BY <1>3, <1>10, <2>1 DEF TrustInv, OfTheLast
<1>13. OthersInv'
  BY <1>1 DEF OthersInv
<1>14. QED
  BY <1>11, <1>12, <1>13 DEF Inv

LEMMA BeginBareKeeps == ASSUME Premises, Inv, BeginBare PROVE Inv'
<1>1. /\ TypeInv /\ left = {} /\ job["writer"] = Idle /\ disk' = <<{track}>> /\ track' = track
      /\ meddled' = FALSE /\ left' = left /\ filed' = filed
  <2>1. TypeInv /\ WriterShape(job["writer"]) /\ job["writer"].doing = "nothing"
    BY DEF Inv, TypeInv, BeginBare, IsIdle
  <2>2. job["writer"] = Idle
    BY <2>1 DEF WriterShape
  <2>3. QED
    BY <2>1, <2>2 DEF BeginBare, WrittenBack, Premises
<1>2. PICK after \in Versions :
        /\ Len(after) = Len(track)
        /\ About("writer", "landing", Laid(Record("pages", track, after, 0)), NoRecord)
        /\ last' = [before |-> track, after |-> after, answer |-> "none", kept |-> FALSE]
  BY DEF BeginBare
<1>3. track \in Tracks /\ after \in Tracks /\ \A page \in DOMAIN after : after[page] \in Cells
  BY <1>1, VersionsAreTracks DEF TypeInv
<1>4. PICK record : record = Record("pages", track, after, 0)
  OBVIOUS
<1>5. IsKept(record) /\ record.way = "pages"
  <2>1. /\ record.way = "pages" /\ record.before = track /\ record.after = after /\ record.shift = 0
        /\ record \in [way : {"pages", "head", "whole"}, before : Tracks, after : Tracks, shift : {0, 1}]
    BY <1>3, <1>4 DEF Record
  <2>2. Len(after) >= Len(track)
    BY <1>2, <1>3, TrackShape
  <2>3. QED
    BY <1>3, <2>1, <2>2 DEF IsKept
<1>6. Laid(record) \in Seq(PlainCalls) /\ Laid(record) \in Seq(Calls)
  BY <1>5, LaidBrings, PlainCallsAreCalls DEF Brings
<1>7. PICK doing : doing = [doing |-> "landing", todo |-> Laid(record), record |-> NoRecord]
  OBVIOUS
<1>8. /\ doing \in Jobs /\ doing.doing = "landing" /\ doing.record = NoRecord
      /\ doing.todo \in Seq(PlainCalls)
  BY <1>6, <1>7 DEF Jobs
<1>9. job["mender"] = Idle
  BY <1>1 DEF TypeInv, MenderShape
<1>10. job' \in [Actors -> Jobs] /\ job'["writer"] = doing /\ job'["mender"] = Idle
  BY <1>1, <1>2, <1>4, <1>7, <1>8, <1>9 DEF TypeInv, Actors, About
<1>11. /\ last'.answer = "none" /\ last'.kept = FALSE
       /\ last' \in [before : Tracks, after : Tracks, answer : {"none", "landed", "failed"}, kept : BOOLEAN]
  BY <1>2, <1>3
<1>12. TypeInv'
  <2>1. DiskOf(track, <<{track}>>)
    BY <1>3, OnePart
  <2>2. WriterShape(job["writer"])'
    BY <1>1, <1>8, <1>10, <1>11 DEF WriterShape
  <2>3. QED
    BY <1>1, <1>3, <1>10, <1>11, <2>1, <2>2 DEF TypeInv, MenderShape
<1>13. TrustInv'
  BY <1>11 DEF TrustInv, Trusted
<1>14. OthersInv'
  BY <1>1 DEF OthersInv
<1>15. QED
  BY <1>12, <1>13, <1>14 DEF Inv

\* There is one record, and the disk's folder holds it.
LEMMA OneRecord ==
  ASSUME TypeInv, NEW record \in left
  PROVE  record \in Kept /\ IsKept(record) /\ left = {record} /\ filed = {record}
<1>1. record \in filed
  BY DEF TypeInv
<1>2. record \in Kept /\ filed = {record}
  BY <1>1 DEF TypeInv
<1>3. QED
  BY <1>2, KeptIs DEF TypeInv

\* A writer that has nothing left to do has settled the track, and a mender.
LEMMA WriterIsDone ==
  ASSUME NEW record, IsKept(record), NEW file \in Tracks, NEW parts, NEW doing,
         WriterAbout(record, file, parts, doing), doing.todo = <<>>
  PROVE  /\ Settled(record, file) /\ parts = <<{file}>>
         /\ doing.doing = "landing" => file = record.after
<1>1. parts = <<{file}>>
  BY DEF WriterAbout, Flushed
<1>2. record.after \in Tracks /\ record.before \in Tracks
  BY KeptShape
<1>3. CASE OpensRoom(record, file, parts, doing)
  <2>1. PICK rest \in Seq(PlainCalls) : Lengthened(record) = <<OpenCall>> \o rest
    BY <1>3, LengthenedBrings DEF OpensRoom
  <2>2. rest \in Seq(Calls) /\ OpenCall \in Calls
    BY PlainCallsAreCalls DEF OpenCall, Calls
  <2>3. Lengthened(record) # <<>>
    BY <2>1, <2>2, FirstOf
  <2>4. QED
    BY <1>3, <2>3 DEF OpensRoom
<1>4. CASE Lays(record, file, parts, doing)
  <2>1. file = record.after
    BY <1>2, <1>4, BroughtIsThere DEF Lays
  <2>2. QED
    BY <1>1, <2>1 DEF Settled
<1>5. CASE Restores(record, file, parts, doing)
  <2>1. file = record.before
    BY <1>2, <1>5, BroughtIsThere DEF Restores
  <2>2. QED
    BY <1>1, <1>5, <2>1 DEF Settled, Restores
<1>6. CASE TakesRoom(record, file, parts, doing)
  <2> DEFINE back == BackCall(record)
  <2>1. <<back, SyncCall, CloseCall, SyncCall>> # <<>> /\ <<SyncCall, CloseCall, SyncCall>> # <<>>
        /\ <<CloseCall, SyncCall>> # <<>>
    OBVIOUS
  <2>2. file = record.before
    BY <1>6, <2>1 DEF TakesRoom, Taking
  <2>3. QED
    BY <1>1, <1>6, <2>2 DEF Settled, TakesRoom
<1>7. QED
  BY <1>3, <1>4, <1>5, <1>6 DEF WriterAbout

LEMMA MenderIsDone ==
  ASSUME NEW record, IsKept(record), NEW file \in Tracks, NEW parts, NEW doing,
         MenderAbout(record, file, parts, doing), doing.todo = <<>>
  PROVE  Settled(record, file) /\ parts = <<{file}>>
<1>1. parts = <<{file}>>
  BY DEF MenderAbout, Flushed
<1>2. Target(record) \in Tracks /\ (record.way = "whole" => Target(record) = record.after)
      /\ Target(record) \in {record.before, record.after}
  BY KeptShape DEF Target
<1>3. CASE Brings(file, doing.todo, Target(record), MayPut(record))
  <2>1. file = Target(record)
    BY <1>2, <1>3, BroughtIsThere
  <2>2. QED
    BY <1>1, <1>2, <2>1 DEF Settled
<1>4. QED
  BY <1>1, <1>3 DEF MenderAbout

LEMMA DoneKeeps == ASSUME Premises, Inv, Done PROVE Inv'
<1>1. PICK writer : writer = job["writer"]
  OBVIOUS
<1>2. /\ TypeInv /\ TrustInv /\ writer.doing # "nothing" /\ writer.todo = <<>> /\ writer # Idle
      /\ left' = left \ {writer.record} /\ track' = track /\ disk' = disk /\ filed' = filed
      /\ meddled' = meddled /\ job' = [job EXCEPT !["writer"] = Idle]
      /\ last' = [last EXCEPT !.answer = IF writer.doing = "landing" THEN "landed" ELSE "failed"]
  BY <1>1, IdleIs DEF Inv, Done, IsIdle, Rest, Answered
<1>3. job["mender"] = Idle
  BY <1>1, <1>2 DEF TypeInv, MenderShape
<1>4. job' \in [Actors -> Jobs] /\ job'["writer"] = Idle /\ job'["mender"] = Idle
  BY <1>2, <1>3, IdleIs DEF TypeInv, Actors
<1>5. /\ last'.before = last.before /\ last'.after = last.after /\ last'.kept = last.kept
      /\ last'.answer = (IF writer.doing = "landing" THEN "landed" ELSE "failed")
      /\ last' \in [before : Tracks, after : Tracks, answer : {"none", "landed", "failed"}, kept : BOOLEAN]
  BY <1>2 DEF TypeInv
<1>6. TypeInv'
  BY <1>2, <1>4, <1>5 DEF TypeInv, WriterShape, MenderShape
<1>7. OthersInv'
  BY <1>4, IdleIs DEF OthersInv
<1>8. TrustInv'
  <2>1. CASE ~Trusted
    BY <1>2, <1>5, <2>1 DEF TrustInv, Trusted
  <2>2. CASE Trusted
    <3>1. writer.record \in left
      BY <1>1, <1>2, <2>2 DEF TypeInv, WriterShape, Trusted
    <3>2. PICK record \in left : record = writer.record
      BY <3>1
    <3>3. IsKept(record) /\ left = {record} /\ filed = {record}
      BY <1>2, OneRecord
    <3>4. HeldBy(record) /\ OfTheLast(record)
      BY <1>2, <2>2, <3>3 DEF TrustInv
    <3>5. WriterAbout(record, track, disk, writer) /\ track \in Tracks
      BY <1>1, <1>2, <3>4 DEF HeldBy, TypeInv
    <3>6. Settled(record, track) /\ disk = <<{track}>> /\ (writer.doing = "landing" => track = record.after)
      BY <1>2, <3>3, <3>5, WriterIsDone
    <3>7. left' = {}
      BY <1>2, <3>2, <3>3
    <3>8. AllIsSettled'
      BY <1>2, <1>5, <3>3, <3>4, <3>6 DEF AllIsSettled, Settled, OfTheLast
    <3>9. (last.answer = "landed")' => ItLanded'
      BY <1>2, <1>4, <1>5, <3>4, <3>6, IdleIs DEF ItLanded, OfTheLast
    <3>10. \A other \in filed' : OfTheLast(other)'
      BY <1>2, <1>5, <3>3, <3>4 DEF OfTheLast
    <3>11. QED
      BY <3>7, <3>8, <3>9, <3>10 DEF TrustInv
  <2>3. QED
    BY <2>1, <2>2
<1>9. QED
  BY <1>6, <1>7, <1>8 DEF Inv

LEMMA PlainHead ==
  ASSUME NEW todo \in Seq(PlainCalls), todo # <<>>
  PROVE  /\ Head(todo) \in PlainCalls /\ Head(todo).call \in {"sync", "cut", "put"}
         /\ Tail(todo) \in Seq(PlainCalls)
         /\ Head(todo).call = "put" => Head(todo).page \in Nat \ {0}
<1>1. Head(todo) \in PlainCalls /\ Tail(todo) \in Seq(PlainCalls)
  OBVIOUS
<1>2. Head(todo).call \in {"sync", "cut", "put"}
  BY <1>1 DEF PlainCalls
<1>3. Head(todo).call = "put" => Head(todo).page \in Nat \ {0}
  BY <1>1 DEF PlainCalls
<1>4. QED
  BY <1>1, <1>2, <1>3

\* No mend writes over a page that is neither of the write nor half of one, nor cuts it off.
LEMMA MendingSpares ==
  ASSUME NEW record, IsKept(record), NEW file \in Tracks, NEW page \in DOMAIN file,
         file[page] = "other", Cell(Found(record), page) # "other", NEW doing,
         doing.todo = Mending(file, record)
  PROVE  Spares(doing, page)
<1> DEFINE B == record.before
           A == record.after
           todo == doing.todo
<1>1. /\ B \in Tracks /\ A \in Tracks /\ record.way \in {"pages", "head", "whole"} /\ Found(record) \in Tracks
      /\ page \in Nat \ {0} /\ page <= Len(file)
  BY KeptShape, TrackShape
<1>2. Len(B) \in Nat /\ Len(A) \in Nat /\ Len(file) \in Nat
  BY <1>1, TrackShape
<1>3. Cell(A, page) # "other"
  <2>1. page \in DOMAIN A => Cell(A, page) = A[page] /\ A[page] \in Cells
    BY <1>1, CellIs DEF IsKept
  <2>2. page \notin DOMAIN A => Cell(A, page) = "none"
    BY <1>1, CellIs
  <2>3. QED
    BY <2>1, <2>2, MarksAreNoCells
<1>4. CASE todo = <<>>
  BY <1>4 DEF Spares
<1>5. ASSUME NEW from \in Tracks, NEW to \in Tracks, Brings(from, todo, to, MayPut(record)),
             page \notin MayPut(record), page <= Len(to) \/ \A i \in DOMAIN todo : todo[i].call # "cut"
      PROVE  Spares(doing, page)
  <2> SUFFICES ASSUME NEW i \in DOMAIN todo
               PROVE  /\ todo[i].call = "put" => todo[i].page # page
                      /\ todo[i].call = "cut" => page <= todo[i].to
    BY DEF Spares
  <2>1. SyncCall.call = "sync" /\ CutTo(Len(to)).call = "cut" /\ CutTo(Len(to)).to = Len(to)
    BY DEF SyncCall, CutTo
  <2>2. ASSUME NEW put \in MayPut(record), todo[i] = PutOf(to, put)
        PROVE  todo[i].call = "put" /\ todo[i].page # page
    BY <1>5, <2>2 DEF PutOf
  <2>3. todo[i] = SyncCall \/ todo[i] = CutTo(Len(to)) \/ \E put \in MayPut(record) : todo[i] = PutOf(to, put)
    BY <1>5 DEF Brings
  <2>4. QED
    BY <1>5, <2>1, <2>2, <2>3
<1>6. CASE record.way = "pages" /\ todo # <<>>
  <2>1. todo = Restored(record) /\ WithinLengths(file, record) /\ Ours(file, record) /\ Found(record) = B
    BY <1>6, KeptShape DEF Mending, RolledBack
  <2>2. Brings(B, todo, B, MayPut(record)) /\ MayPut(record) = Changed(record)
    BY <1>1, <1>6, <2>1, EndsAreBetween, RestoredBrings DEF MayPut
  <2>3. page \notin Changed(record)
    BY <1>3, <2>1 DEF Ours
  <2>4. page \in PagesOf(record)
    BY <1>1, <1>2, <2>1 DEF WithinLengths, PagesOf, Greatest
  <2>5. Cell(B, page) = Cell(A, page) /\ page <= Greatest(Len(B), Len(A))
    BY <2>3, <2>4 DEF Changed, PagesOf
  <2>6. page <= Len(B) \/ page <= Len(A)
    BY <1>1, <1>2, <2>5 DEF Greatest
  <2>7. Cell(B, page) # "none"
    <3>1. page \in DOMAIN B \/ page \in DOMAIN A
      BY <1>1, <2>6, TrackShape
    <3>2. QED
      BY <1>1, <2>5, <3>1, CellIs, MarksAreNoCells
  <2>8. page <= Len(B)
    BY <1>1, <2>7, CellIs, TrackShape
  <2>9. QED
    BY <1>1, <1>5, <2>2, <2>3, <2>8
<1>7. CASE record.way = "head" /\ todo # <<>>
  <2>1. /\ todo = Puts(A, HeadOf(record)) \o Sync /\ Len(file) = Len(A)
        /\ \A put \in HeadOf(record) :
             file[put] \in {Opened(B, record.shift)[put], A[put], "mixed"}
    BY <1>7 DEF Mending, CarriedOn
  <2>2. /\ HeadOf(record) = {1, 2} /\ Found(record) = Opened(B, record.shift) /\ {1, 2} \subseteq DOMAIN A
        /\ Len(Found(record)) = Len(A) /\ MayPut(record) = HeadOf(record)
    BY <1>7, KeptShape DEF Found, MayPut
  <2>3. Brings(A, todo, A, MayPut(record))
    BY <1>1, <1>7, <2>1, EndsAreBetween, HeadBrings
  <2>4. page \notin HeadOf(record)
    <3> SUFFICES ASSUME page \in HeadOf(record) PROVE FALSE
      OBVIOUS
    <3>1. page \in DOMAIN A /\ page \in DOMAIN Found(record)
      BY <1>1, <2>2, TrackShape
    <3>2. Cell(A, page) = A[page] /\ Cell(Found(record), page) = Found(record)[page]
      BY <1>1, <3>1, CellIs
    <3>3. file[page] \in {Found(record)[page], A[page], "mixed"}
      BY <2>1, <2>2
    <3>4. QED
      BY <1>3, <3>2, <3>3
  <2>5. page <= Len(A)
    BY <1>1, <2>1
  <2>6. QED
    BY <1>1, <1>5, <2>2, <2>3, <2>4, <2>5
<1>8. CASE record.way = "whole" /\ todo # <<>>
  <2>1. file[page] \in {Cell(A, page), Cell(B, page)} /\ Found(record) = B
    BY <1>8, KeptShape DEF Mending, FinishedWritingBack
  <2>2. QED
    BY <1>3, <2>1
<1>9. QED
  BY <1>1, <1>4, <1>6, <1>7, <1>8

LEMMA MendingPutsItsOwn ==
  ASSUME NEW record, IsKept(record), NEW file \in Tracks, NEW doing,
         doing.todo = Mending(file, record), doing.record = record
  PROVE  PutsItsOwn(doing)
<1> DEFINE B == record.before
           A == record.after
           todo == doing.todo
<1>1. B \in Tracks /\ A \in Tracks /\ record.way \in {"pages", "head", "whole"}
  BY KeptShape
<1>2. CASE todo = <<>>
  BY <1>2 DEF PutsItsOwn
<1>3. ASSUME NEW from \in Tracks, NEW to \in Tracks, Brings(from, todo, to, MayPut(record)),
             to = A \/ to = Found(record)
      PROVE  PutsItsOwn(doing)
  <2> SUFFICES ASSUME NEW i \in DOMAIN todo, todo[i].call = "put", todo[i].cell = "other"
               PROVE  Cell(Found(record), todo[i].page) = "other"
    BY DEF PutsItsOwn
  <2>1. SyncCall.call = "sync" /\ CutTo(Len(to)).call = "cut"
    BY DEF SyncCall, CutTo
  <2>2. PICK put \in DOMAIN to : todo[i] = PutOf(to, put)
    BY <1>3, <2>1 DEF Brings
  <2>3. todo[i].page = put /\ to[put] = "other" /\ put \in Nat \ {0}
    BY <2>2, TrackShape DEF PutOf
  <2>4. to # A
    BY <2>2, <2>3, MarksAreNoCells DEF IsKept
  <2>5. Cell(to, put) = to[put]
    BY <2>2, <2>3, CellIs
  <2>6. QED
    BY <1>3, <2>3, <2>4, <2>5
<1>4. CASE record.way = "pages" /\ todo # <<>>
  <2>1. todo = Restored(record) /\ Found(record) = B
    BY <1>4, KeptShape DEF Mending, RolledBack
  <2>2. Brings(B, todo, B, MayPut(record))
    BY <1>1, <1>4, <2>1, EndsAreBetween, RestoredBrings
  <2>3. QED
    BY <1>1, <1>3, <2>1, <2>2
<1>5. CASE record.way = "head" /\ todo # <<>>
  <2>1. todo = Puts(A, HeadOf(record)) \o Sync
    BY <1>5 DEF Mending, CarriedOn
  <2>2. Brings(A, todo, A, MayPut(record))
    BY <1>1, <1>5, <2>1, EndsAreBetween, HeadBrings
  <2>3. QED
    BY <1>1, <1>3, <2>2
<1>6. CASE record.way = "whole" /\ todo # <<>>
  <2>1. todo = LaidOver(record, file)
    BY <1>6 DEF Mending, FinishedWritingBack
  <2>2. Brings(file, todo, A, MayPut(record))
    BY <1>6, <2>1, LaidOverBrings
  <2>3. QED
    BY <1>1, <1>3, <2>2
<1>7. QED
  BY <1>1, <1>2, <1>4, <1>5, <1>6

LEMMA MendKeeps == ASSUME Premises, Inv, Mend PROVE Inv'
<1>1. PICK record \in left :
        record # job["writer"].record /\ About("mender", "mending", Mending(track, record), record)
  BY DEF Mend, LeftByTheDead
<1>2. /\ TypeInv /\ TrustInv /\ record \in Kept /\ IsKept(record) /\ left = {record} /\ filed = {record}
      /\ track \in Tracks
  BY OneRecord DEF Inv, TypeInv
<1>3. /\ disk' = <<{track}>> /\ track' = track /\ left' = left /\ filed' = filed /\ last' = last
      /\ meddled' = meddled
  BY DEF Mend, WrittenBack, Premises
<1>4. job["writer"] = Idle
  BY <1>1, <1>2 DEF TypeInv, WriterShape
<1>5. PICK doing : doing = [doing |-> "mending", todo |-> Mending(track, record), record |-> record]
  OBVIOUS
<1>6. Mending(track, record) \in Seq(PlainCalls) /\ Mending(track, record) \in Seq(Calls)
  BY <1>2, MendingIsPlain, PlainCallsAreCalls
<1>7. doing \in Jobs /\ doing.doing = "mending" /\ doing.record = record /\ doing.todo = Mending(track, record)
  BY <1>2, <1>5, <1>6 DEF Jobs
<1>8. job' \in [Actors -> Jobs] /\ job'["writer"] = Idle /\ job'["mender"] = doing
  BY <1>1, <1>2, <1>4, <1>5, <1>7 DEF TypeInv, Actors, About
<1>9. DiskOf(track, <<{track}>>) /\ \A i \in DOMAIN <<{track}>> : <<{track}>>[i] = {track}
  BY <1>2, OnePart
<1>10. TypeInv'
  BY <1>2, <1>3, <1>6, <1>7, <1>8, <1>9 DEF TypeInv, WriterShape, MenderShape
<1>11. TrustInv'
  <2>1. SUFFICES ASSUME Trusted PROVE TrustInv'
    BY <1>3 DEF TrustInv, Trusted
  <2>2. HeldBy(record) /\ OfTheLast(record) /\ (last.answer = "landed" => ItLanded)
    BY <1>2, <2>1 DEF TrustInv
  <2>3. Recoverable(record, track)
    BY <2>2 DEF HeldBy
  <2>4. Holds(record, <<{track}>>)
    BY <1>9, <2>3 DEF Holds, PartHolds, Recoverable
  <2>5. MenderAbout(record, track, <<{track}>>, doing)
    BY <1>2, <1>7, <2>3, MendingBrings DEF MenderAbout, Flushed
  <2>6. HeldBy(record)'
    BY <1>3, <1>8, <2>3, <2>4, <2>5 DEF HeldBy
  <2>7. ASSUME last.answer = "landed"
        PROVE  ItLanded'
    <3>1. track = record.after /\ track = last.after
      BY <2>2, <2>7 DEF ItLanded, OfTheLast
    <3>2. doing.todo = <<>>
      BY <1>2, <1>7, <3>1, NothingToMend
    <3>3. QED
      BY <1>3, <1>8, <3>1, <3>2 DEF ItLanded
  <2>8. QED
    BY <1>2, <1>3, <2>2, <2>6, <2>7 DEF TrustInv, OfTheLast
<1>12. OthersInv'
  <2>1. ASSUME NEW page \in DOMAIN track, Strange(doing, track, page)
        PROVE  Spares(doing, page) /\ OnDisk(<<{track}>>, page)
    <3>1. Spares(doing, page)
      BY <1>2, <1>7, <2>1, MendingSpares DEF Strange
    <3>2. page <= Len(track) /\ track[page] = "other"
      BY <1>2, <2>1, TrackShape DEF Strange
    <3>3. OnDisk(<<{track}>>, page)
      BY <1>9, <3>2 DEF OnDisk
    <3>4. QED
      BY <3>1, <3>3
  <2>2. PutsItsOwn(doing)
    BY <1>2, <1>7, MendingPutsItsOwn
  <2>3. QED
    BY <1>3, <1>8, <2>1, <2>2 DEF OthersInv
<1>13. QED
  BY <1>10, <1>11, <1>12 DEF Inv

LEMMA MendedKeeps == ASSUME Premises, Inv, Mended PROVE Inv'
<1>1. PICK mender : mender = job["mender"]
  OBVIOUS
<1>2. /\ TypeInv /\ TrustInv /\ mender.doing # "nothing" /\ mender.todo = <<>> /\ mender # Idle
      /\ left' = left \ {mender.record} /\ track' = track /\ disk' = disk /\ filed' = filed
      /\ meddled' = meddled /\ last' = last /\ job' = [job EXCEPT !["mender"] = Idle]
  BY <1>1, IdleIs DEF Inv, Mended, IsIdle, Rest
<1>3. job["writer"] = Idle /\ mender.record \in left
  BY <1>1, <1>2 DEF TypeInv, MenderShape
<1>4. PICK record \in left : record = mender.record
  BY <1>3
<1>5. IsKept(record) /\ left = {record} /\ filed = {record} /\ track \in Tracks
  BY <1>2, OneRecord DEF TypeInv
<1>6. left' = {}
  BY <1>2, <1>4, <1>5
<1>7. job' \in [Actors -> Jobs] /\ job'["writer"] = Idle /\ job'["mender"] = Idle
  BY <1>2, <1>3, IdleIs DEF TypeInv, Actors
<1>8. TypeInv'
  BY <1>2, <1>6, <1>7 DEF TypeInv, WriterShape, MenderShape
<1>9. OthersInv'
  BY <1>7, IdleIs DEF OthersInv
<1>10. TrustInv'
  <2>1. SUFFICES ASSUME Trusted PROVE TrustInv'
    BY <1>2 DEF TrustInv, Trusted
  <2>2. HeldBy(record) /\ OfTheLast(record) /\ (last.answer = "landed" => ItLanded)
    BY <1>2, <1>5, <2>1 DEF TrustInv
  <2>3. MenderAbout(record, track, disk, mender)
    BY <1>1, <1>2, <2>2 DEF HeldBy
  <2>4. Settled(record, track) /\ disk = <<{track}>>
    BY <1>2, <1>5, <2>3, MenderIsDone
  <2>5. AllIsSettled'
    BY <1>2, <1>5, <2>2, <2>4 DEF AllIsSettled, Settled, OfTheLast
  <2>6. (last.answer = "landed")' => ItLanded'
    BY <1>2, <1>7, <2>2, IdleIs DEF ItLanded
  <2>7. QED
    BY <1>2, <1>5, <1>6, <2>2, <2>5, <2>6 DEF TrustInv, OfTheLast
<1>11. QED
  BY <1>8, <1>9, <1>10 DEF Inv

LEMMA MeddleKeeps == ASSUME Premises, Inv, Meddle PROVE Inv'
<1>1. PICK page \in DOMAIN track : track' = Put(track, page, "other")
  BY DEF Meddle
<1>2. /\ TypeInv /\ job["writer"].doing = "nothing" /\ job["mender"].doing = "nothing"
      /\ disk' = <<{track'}>> /\ meddled' = TRUE /\ left' = left /\ filed' = filed /\ job' = job /\ last' = last
  BY DEF Inv, Meddle, IsIdle, Actors
<1>3. track \in Tracks /\ page \in Nat \ {0} /\ "other" \in Pages
  BY <1>1, <1>2, TrackShape DEF TypeInv, Pages
<1>4. track' \in Tracks
  BY <1>1, <1>3, PutIsWhere
<1>5. DiskOf(track, disk)'
  BY <1>2, <1>4, OnePart
<1>6. job["writer"] = Idle /\ job["mender"] = Idle
  BY <1>2 DEF TypeInv, WriterShape, MenderShape
<1>7. TypeInv'
  BY <1>2, <1>4, <1>5, <1>6 DEF TypeInv, WriterShape, MenderShape
<1>8. TrustInv'
  BY <1>2 DEF TrustInv, Trusted
<1>9. OthersInv'
  BY <1>2, <1>6, IdleIs DEF OthersInv
<1>10. QED
  BY <1>7, <1>8, <1>9 DEF Inv

\* Of a write that is trusted and kept no record, nothing is about.
LEMMA NoRecordNoWriter ==
  ASSUME TypeInv, Trusted, left = {}
  PROVE  job["writer"] = Idle
  BY DEF TypeInv, WriterShape, Trusted

LEMMA DieKeeps == ASSUME Premises, Inv, NEW actor \in Actors, Die(actor) PROVE Inv'
<1>1. /\ TypeInv /\ TrustInv /\ OthersInv /\ job' = [job EXCEPT ![actor] = Idle]
      /\ track' = track /\ disk' = disk /\ left' = left /\ filed' = filed /\ last' = last /\ meddled' = meddled
  BY DEF Inv, Die, Rest
<1>2. /\ job' \in [Actors -> Jobs] /\ job'["writer"] \in {job["writer"], Idle}
      /\ job'["mender"] \in {job["mender"], Idle}
  BY <1>1, IdleIs DEF TypeInv, Actors
<1>3. job["writer"] = Idle => job'["writer"] = Idle
  BY <1>2
<1>4. WriterShape(job["writer"])'
  BY <1>1, <1>2 DEF TypeInv, WriterShape, Trusted
<1>5. MenderShape(job["mender"])'
  BY <1>1, <1>2, <1>3 DEF TypeInv, MenderShape
<1>6. TypeInv'
  BY <1>1, <1>2, <1>4, <1>5 DEF TypeInv
<1>7. TrustInv'
  <2>1. SUFFICES ASSUME Trusted PROVE TrustInv'
    BY <1>1 DEF TrustInv, Trusted
  <2>2. left = {} => AllIsSettled
    BY <1>1, <2>1, NoRecordNoWriter DEF TrustInv
  <2>3. last.answer = "landed" => ItLanded'
    BY <1>1, <1>2, <2>1, IdleIs DEF TrustInv, ItLanded
  <2>4. ASSUME NEW record \in left
        PROVE  HeldBy(record)'
    BY <1>1, <1>2, <2>1, <2>4 DEF TrustInv, HeldBy
  <2>5. QED
    BY <1>1, <2>1, <2>2, <2>3, <2>4 DEF TrustInv, OfTheLast, AllIsSettled
<1>8. OthersInv'
  BY <1>1, <1>2, IdleIs DEF OthersInv
<1>9. QED
  BY <1>6, <1>7, <1>8 DEF Inv

\* The writer that has yet to open the room has changed nothing.
LEMMA OpenComesFirst ==
  ASSUME NEW record, IsKept(record), NEW file, NEW parts, NEW doing, WriterAbout(record, file, parts, doing),
         doing.doing = "landing", doing.todo # <<>>, Head(doing.todo).call = "open"
  PROVE  OpensRoom(record, file, parts, doing)
<1>1. CASE Lays(record, file, parts, doing)
  <2>1. doing.todo \in Seq(PlainCalls)
    BY <1>1 DEF Lays, Brings
  <2>2. QED
    BY <2>1, PlainHead
<1>2. QED
  BY <1>1 DEF WriterAbout, Restores, TakesRoom

LEMMA NoRoomKeeps == ASSUME Premises, Inv, NoRoom PROVE Inv'
<1>1. PICK writer : writer = job["writer"]
  OBVIOUS
<1>2. /\ TypeInv /\ TrustInv /\ writer.doing = "landing" /\ writer.todo # <<>> /\ writer # Idle
      /\ Head(writer.todo).call = "open"
      /\ left' = left \ {writer.record} /\ track' = track /\ disk' = disk /\ filed' = filed
      /\ meddled' = meddled /\ job' = [job EXCEPT !["writer"] = Idle]
      /\ last' = [last EXCEPT !.answer = "failed"]
  BY <1>1, IdleIs DEF Inv, NoRoom, Rest, Answered
<1>3. job["mender"] = Idle
  BY <1>1, <1>2 DEF TypeInv, MenderShape
<1>4. job' \in [Actors -> Jobs] /\ job'["writer"] = Idle /\ job'["mender"] = Idle
  BY <1>2, <1>3, IdleIs DEF TypeInv, Actors
<1>5. /\ last'.before = last.before /\ last'.after = last.after /\ last'.kept = last.kept
      /\ last'.answer = "failed"
      /\ last' \in [before : Tracks, after : Tracks, answer : {"none", "landed", "failed"}, kept : BOOLEAN]
  BY <1>2 DEF TypeInv
<1>6. TypeInv'
  BY <1>2, <1>4, <1>5 DEF TypeInv, WriterShape, MenderShape
<1>7. OthersInv'
  BY <1>4, IdleIs DEF OthersInv
<1>8. TrustInv'
  <2>1. CASE ~Trusted
    BY <1>2, <1>5, <2>1 DEF TrustInv, Trusted
  <2>2. CASE Trusted
    <3>1. writer.record \in left
      BY <1>1, <1>2, <2>2 DEF TypeInv, WriterShape, Trusted
    <3>2. PICK record \in left : record = writer.record
      BY <3>1
    <3>3. IsKept(record) /\ left = {record} /\ filed = {record}
      BY <1>2, OneRecord
    <3>4. HeldBy(record) /\ OfTheLast(record)
      BY <1>2, <2>2, <3>3 DEF TrustInv
    <3>5. OpensRoom(record, track, disk, writer)
      BY <1>1, <1>2, <3>3, <3>4, OpenComesFirst DEF HeldBy
    <3>6. Settled(record, track) /\ disk = <<{track}>>
      BY <3>5 DEF OpensRoom, Settled
    <3>7. left' = {}
      BY <1>2, <3>2, <3>3
    <3>8. AllIsSettled'
      BY <1>2, <1>5, <3>3, <3>4, <3>6 DEF AllIsSettled, Settled, OfTheLast
    <3>9. \A other \in filed' : OfTheLast(other)'
      BY <1>2, <1>5, <3>3, <3>4 DEF OfTheLast
    <3>10. QED
      BY <1>5, <3>7, <3>8, <3>9 DEF TrustInv
  <2>3. QED
    BY <2>1, <2>2
<1>9. QED
  BY <1>6, <1>7, <1>8 DEF Inv

\* A call that fails leaves what a record can make good, and what can be torn further.
LEMMA PartlyKeepsGood ==
  ASSUME TypeInv, TrustInv, NEW writer, writer = job["writer"], writer # Idle, writer.todo # <<>>,
         Partly(Head(writer.todo))
  PROVE  /\ track' \in Tracks /\ DiskOf(track, disk)'
         /\ \A record \in left : Trusted /\ record = writer.record =>
              /\ Recoverable(record, track') /\ Holds(record, disk')
              /\ Between(record, track) => Between(record, track')
<1>1. track \in Tracks /\ DiskOf(track, disk) /\ writer.todo \in Seq(Calls)
  BY DEF TypeInv, Actors, Jobs
<1>2. CASE UNCHANGED <<track, disk>>
  <2>1. track' = track /\ disk' = disk
    BY <1>2
  <2>2. \A record \in left : Trusted => Recoverable(record, track) /\ Holds(record, disk)
    BY DEF TrustInv, HeldBy
  <2>3. QED
    BY <1>1, <2>1, <2>2
<1>3. CASE /\ Head(writer.todo).call = "put" /\ writer.record.way # "whole"
           /\ track' = Put(track, Head(writer.todo).page, "mixed")
           /\ Written(track')
  <2>1. Head(writer.todo) \in Calls /\ "mixed" \in Pages
    BY <1>1 DEF Pages
  <2>2. Head(writer.todo).page \in Nat \ {0}
    BY <1>3, <2>1 DEF Calls, PlainCalls
  <2>3. track' \in Tracks
    BY <1>1, <1>3, <2>1, <2>2, PutIsWhere
  <2>4. disk' = After("put", track, track', disk)
    BY <1>3 DEF Written, After
  <2>5. DiskOf(track', disk')
    BY <1>1, <2>3, <2>4, DiskAfter
  <2>6. ASSUME NEW record \in left, Trusted, record = writer.record
        PROVE  Between(record, track') /\ Holds(record, disk')
    <3>1. IsKept(record) /\ HeldBy(record)
      BY <2>6, OneRecord DEF TrustInv
    <3>2. WriterAbout(record, track, disk, writer) /\ Holds(record, disk)
      BY <3>1 DEF HeldBy
    <3>3. QED
      BY <1>1, <1>3, <2>4, <2>6, <3>1, <3>2, HalfAPageKeepsGood
  <2>7. QED
    BY <2>3, <2>5, <2>6 DEF Recoverable
<1>4. QED
  BY <1>2, <1>3 DEF Partly

LEMMA GiveUpKeeps == ASSUME Premises, Inv, GiveUp PROVE Inv'
<1>1. PICK writer : writer = job["writer"]
  OBVIOUS
<1>2. /\ TypeInv /\ TrustInv /\ writer.todo # <<>> /\ writer # Idle
      /\ Partly(Head(writer.todo)) /\ left' = left /\ filed' = filed
      /\ meddled' = meddled /\ job' = [job EXCEPT !["writer"] = Idle]
      /\ last' = [last EXCEPT !.answer = "failed"]
  BY <1>1, IdleIs DEF Inv, GiveUp, Rest, Answered
<1>3. job["mender"] = Idle
  BY <1>1, <1>2 DEF TypeInv, MenderShape
<1>4. job' \in [Actors -> Jobs] /\ job'["writer"] = Idle /\ job'["mender"] = Idle
  BY <1>2, <1>3, IdleIs DEF TypeInv, Actors
<1>5. /\ last'.before = last.before /\ last'.after = last.after /\ last'.kept = last.kept
      /\ last'.answer = "failed"
      /\ last' \in [before : Tracks, after : Tracks, answer : {"none", "landed", "failed"}, kept : BOOLEAN]
  BY <1>2 DEF TypeInv
<1>6. /\ track' \in Tracks /\ DiskOf(track, disk)'
      /\ \A record \in left : Trusted /\ record = writer.record =>
           Recoverable(record, track') /\ Holds(record, disk')
  BY <1>1, <1>2, PartlyKeepsGood
<1>7. TypeInv'
  BY <1>2, <1>4, <1>5, <1>6 DEF TypeInv, WriterShape, MenderShape
<1>8. OthersInv'
  BY <1>4, IdleIs DEF OthersInv
<1>9. TrustInv'
  <2>1. CASE ~Trusted
    BY <1>2, <1>5, <2>1 DEF TrustInv, Trusted
  <2>2. CASE Trusted
    <3>1. writer.record \in left
      BY <1>1, <1>2, <2>2 DEF TypeInv, WriterShape, Trusted
    <3>2. PICK record \in left : record = writer.record
      BY <3>1
    <3>3. IsKept(record) /\ left = {record} /\ filed = {record}
      BY <1>2, OneRecord
    <3>4. OfTheLast(record)
      BY <1>2, <2>2, <3>3 DEF TrustInv
    <3>5. HeldBy(record)'
      BY <1>4, <1>6, <2>2, <3>2 DEF HeldBy
    <3>6. \A other \in filed' : OfTheLast(other)'
      BY <1>2, <1>5, <3>3, <3>4 DEF OfTheLast
    <3>7. QED
      BY <1>2, <1>5, <3>3, <3>5, <3>6 DEF TrustInv
  <2>3. QED
    BY <2>1, <2>2
<1>10. QED
  BY <1>7, <1>8, <1>9 DEF Inv

\* What a writer that takes a write back is about.
LEMMA BackIsAbout ==
  ASSUME NEW record, IsKept(record), record.way # "whole", NEW file \in Tracks, Between(record, file), NEW parts,
         NEW doing,
         doing = [doing |-> "taking_back", record |-> record,
                  todo |-> IF record.way = "pages" THEN Restored(record) ELSE TakenBack(record)]
  PROVE  WriterAbout(record, file, parts, doing) /\ doing.todo \in Seq(Calls)
<1>1. /\ doing.doing = "taking_back" /\ doing.record = record /\ record.before \in Tracks
      /\ record.way \in {"pages", "head"}
  BY KeptShape
<1>2. CASE record.way = "pages"
  <2>1. doing.todo = Restored(record)
    BY <1>2
  <2>2. Brings(file, doing.todo, record.before, MayPut(record)) /\ doing.todo # <<>>
    BY <1>2, <2>1, RestoredBrings
  <2>3. doing.todo \in Seq(Calls)
    BY <2>2, PlainCallsAreCalls DEF Brings
  <2>4. QED
    BY <1>1, <1>2, <2>2, <2>3 DEF WriterAbout, Restores, Flushed
<1>3. CASE record.way = "head"
  <2> DEFINE back == BackCall(record)
  <2>1. doing.todo = <<back, SyncCall, CloseCall, SyncCall>>
    BY <1>3, TakenBackIs
  <2>2. back \in Calls /\ SyncCall \in Calls /\ CloseCall \in Calls
    <3>1. record.before[1] \in Pages
      BY <1>1, TrackShape
    <3>2. QED
      BY <3>1 DEF BackCall, SyncCall, CloseCall, Calls, PlainCalls
  <2>3. Taking(record, file, doing.todo)
    BY <2>1 DEF Taking
  <2> HIDE DEF back
  <2>4. <<back, SyncCall, CloseCall, SyncCall>> \in Seq(Calls) /\ <<back, SyncCall, CloseCall, SyncCall>> # <<>>
    BY <2>2
  <2>5. QED
    BY <1>1, <1>3, <2>1, <2>3, <2>4 DEF WriterAbout, TakesRoom, Flushed
<1>4. QED
  BY <1>1, <1>2, <1>3

LEMMA TakeBackKeeps == ASSUME Premises, Inv, TakeBack PROVE Inv'
<1>1. PICK writer : writer = job["writer"]
  OBVIOUS
<1>2. PICK back : back = IF writer.record.way = "pages" THEN Restored(writer.record) ELSE TakenBack(writer.record)
  OBVIOUS
<1>3. /\ TypeInv /\ TrustInv /\ writer.doing = "landing" /\ writer.todo # <<>> /\ writer # Idle
      /\ Head(writer.todo).call # "open" /\ writer.record # NoRecord /\ writer.record.way # "whole"
      /\ Partly(Head(writer.todo)) /\ left' = left /\ filed' = filed /\ last' = last /\ meddled' = meddled
      /\ About("writer", "taking_back", back, writer.record)
  BY <1>1, <1>2, IdleIs DEF Inv, TakeBack
<1>4. writer.record \in left /\ Trusted /\ last.answer = "none"
  BY <1>1, <1>3 DEF TypeInv, WriterShape
<1>5. PICK record \in left : record = writer.record
  BY <1>4
<1>6. record \in Kept /\ IsKept(record) /\ left = {record} /\ filed = {record} /\ OfTheLast(record) /\ HeldBy(record)
  BY <1>3, <1>4, OneRecord DEF TrustInv
<1>7. /\ track' \in Tracks /\ DiskOf(track, disk)'
      /\ Holds(record, disk') /\ (Between(record, track) => Between(record, track'))
  BY <1>1, <1>3, <1>4, <1>5, PartlyKeepsGood
<1>8. Between(record, track)
  <2>1. WriterAbout(record, track, disk, writer)
    BY <1>1, <1>3, <1>6 DEF HeldBy
  <2>2. CASE OpensRoom(record, track, disk, writer)
    <3>1. PICK rest \in Seq(PlainCalls) : writer.todo = <<OpenCall>> \o rest
      BY <1>6, <2>2, LengthenedBrings DEF OpensRoom
    <3>2. rest \in Seq(Calls) /\ OpenCall \in Calls
      BY PlainCallsAreCalls DEF OpenCall, Calls
    <3>3. Head(writer.todo) = OpenCall
      BY <3>1, <3>2, FirstOf
    <3>4. QED
      BY <1>3, <3>3 DEF OpenCall
  <2>3. QED
    BY <1>3, <2>1, <2>2 DEF WriterAbout, Lays, Restores, TakesRoom
<1>9. PICK doing : doing = [doing |-> "taking_back", todo |-> back, record |-> record]
  OBVIOUS
<1>10. WriterAbout(record, track', disk', doing) /\ doing.todo \in Seq(Calls)
  BY <1>2, <1>3, <1>5, <1>6, <1>7, <1>8, <1>9, BackIsAbout
<1>11. doing \in Jobs /\ doing.doing = "taking_back" /\ doing.record = record
  BY <1>6, <1>9, <1>10 DEF Jobs
<1>12. job["mender"] = Idle
  BY <1>1, <1>3 DEF TypeInv, MenderShape
<1>13. job' \in [Actors -> Jobs] /\ job'["writer"] = doing /\ job'["mender"] = Idle
  BY <1>3, <1>5, <1>9, <1>11, <1>12 DEF TypeInv, Actors, About
<1>14. TypeInv'
  BY <1>3, <1>4, <1>5, <1>7, <1>11, <1>13 DEF TypeInv, WriterShape, MenderShape, Trusted
<1>15. OthersInv'
  BY <1>13, IdleIs DEF OthersInv
<1>16. TrustInv'
  <2>1. HeldBy(record)'
    BY <1>7, <1>8, <1>10, <1>13 DEF HeldBy, Recoverable
  <2>2. QED
    BY <1>3, <1>4, <1>6, <2>1 DEF TrustInv, OfTheLast
<1>17. QED
  BY <1>14, <1>15, <1>16 DEF Inv

\* What is settled can be made good of again: a record that comes back with the power.
LEMMA SettledIsGood ==
  ASSUME NEW record, IsKept(record), NEW file, Settled(record, file)
  PROVE  Recoverable(record, file)
<1>1. record.way # "head" => Found(record) = record.before
  BY KeptShape
<1>2. Between(record, Found(record)) /\ Between(record, record.after)
  BY EndsAreBetween
<1>3. QED
  BY <1>1, <1>2 DEF Settled, Recoverable

LEMMA PowerCutKeeps == ASSUME Premises, Inv, PowerCut PROVE Inv'
<1>1. PICK i \in DOMAIN disk : \E file \in Survivors(disk[i]) : track' = file /\ disk' = <<{file}>>
  BY DEF PowerCut
<1>2. PICK file \in Survivors(disk[i]) : track' = file /\ disk' = <<{file}>>
  BY <1>1
<1>3. PICK records \in {left, filed} : left' = records /\ filed' = records
  BY DEF PowerCut
<1>4. TypeInv /\ TrustInv /\ job' = [actor \in Actors |-> Idle] /\ last' = last /\ meddled' = meddled
  BY DEF Inv, PowerCut
<1>5. /\ disk[i] \in SUBSET Tracks /\ track \in Tracks /\ disk \in Seq(Parts)
  BY <1>2, <1>4 DEF TypeInv, DiskOf, Parts
<1>6. file \in Tracks
  BY <1>5, SurvivorIs
<1>7. job' \in [Actors -> Jobs] /\ job'["writer"] = Idle /\ job'["mender"] = Idle
  BY <1>4, IdleIs DEF Actors
<1>8. records \subseteq filed /\ \A record \in records : record \in Kept /\ records = {record}
  <2>1. left \subseteq filed /\ \A record \in filed : record \in Kept /\ filed = {record}
    BY <1>4 DEF TypeInv
  <2>2. \A record \in left : left = {record}
    BY <1>4, OneRecord
  <2>3. QED
    BY <2>1, <2>2
<1>9. DiskOf(file, <<{file}>>) /\ \A k \in DOMAIN <<{file}>> : <<{file}>>[k] = {file}
  BY <1>6, OnePart
<1>10. TypeInv'
  BY <1>2, <1>3, <1>4, <1>6, <1>7, <1>8, <1>9 DEF TypeInv, WriterShape, MenderShape
<1>11. OthersInv'
  BY <1>7, IdleIs DEF OthersInv
<1>12. ASSUME disk = <<{track}>>
       PROVE  file = track
  <2>1. disk[i] = {track}
    BY <1>2, <1>5, <1>12, OnePart
  <2>2. QED
    BY <1>5, <2>1, TheOnlyOneSurvives
<1>13. ASSUME Trusted
       PROVE  TrustInv'
  <2>1. \A record \in filed' : OfTheLast(record)'
    BY <1>3, <1>4, <1>8, <1>13 DEF TrustInv, OfTheLast
  <2>2. (last.answer = "landed")' => ItLanded'
    BY <1>2, <1>4, <1>7, <1>12, <1>13, IdleIs DEF TrustInv, ItLanded
  <2>3. ASSUME NEW record \in records, Recoverable(record, file)
        PROVE  HeldBy(record)'
    <3>1. Holds(record, <<{file}>>)
      BY <1>9, <2>3 DEF Holds, PartHolds, Recoverable
    <3>2. QED
      BY <1>2, <1>7, <2>3, <3>1 DEF HeldBy
  <2>4. CASE left = {}
    <3>1. AllIsSettled
      BY <1>4, <1>13, <2>4, NoRecordNoWriter DEF TrustInv
    <3>2. file = track /\ track \in {last.before, last.after}
      BY <1>12, <3>1 DEF AllIsSettled
    <3>3. \A record \in records : Settled(record, file)
      BY <1>8, <3>1, <3>2 DEF AllIsSettled
    <3>4. \A record \in records : Recoverable(record, file)
      BY <1>8, <3>3, KeptIs, SettledIsGood
    <3>5. AllIsSettled'
      BY <1>2, <1>3, <1>4, <3>2, <3>3 DEF AllIsSettled
    <3>6. QED
      BY <1>3, <2>1, <2>2, <2>3, <3>4, <3>5 DEF TrustInv
  <2>5. ASSUME NEW record \in left
        PROVE  TrustInv'
    <3>1. IsKept(record) /\ left = {record} /\ filed = {record} /\ HeldBy(record)
      BY <1>4, <1>13, OneRecord DEF TrustInv
    <3>2. records = {record}
      BY <3>1
    <3>3. PartHolds(record, disk[i])
      BY <1>2, <3>1 DEF HeldBy, Holds
    <3>4. CASE \A some \in disk[i] : Between(record, some)
      <4>1. Between(record, file)
        BY <1>5, <3>1, <3>4, SurvivorIsBetween DEF Premises
      <4>2. QED
        BY <1>3, <2>1, <2>2, <2>3, <3>2, <4>1 DEF TrustInv, Recoverable
    <3>5. CASE record.way = "head" /\ disk[i] = {record.before}
      <4>1. record.before \in Tracks
        BY <3>1, KeptShape
      <4>2. file = record.before
        BY <1>2, <3>5, <4>1, TheOnlyOneSurvives
      <4>3. QED
        BY <1>3, <2>1, <2>2, <2>3, <3>2, <3>5, <4>2 DEF TrustInv, Recoverable
    <3>6. QED
      BY <3>3, <3>4, <3>5 DEF PartHolds
  <2>6. QED
    BY <2>4, <2>5
<1>14. TrustInv'
  BY <1>4, <1>13 DEF TrustInv, Trusted
<1>15. QED
  BY <1>10, <1>11, <1>14 DEF Inv

\* The next call of a job.
LEMMA StepIs ==
  ASSUME TypeInv, NEW actor \in Actors, Step(actor), NEW doing, doing = job[actor]
  PROVE  /\ doing.todo # <<>> /\ doing.todo \in Seq(Calls) /\ Head(doing.todo) \in Calls
         /\ Tail(doing.todo) \in Seq(Calls)
         /\ track' = Made(track, Head(doing.todo))
         /\ disk' = After(Head(doing.todo).call, track, track', disk)
         /\ job' = [job EXCEPT ![actor] = [doing EXCEPT !.todo = Tail(doing.todo)]]
         /\ left' = left /\ filed' = filed /\ last' = last /\ meddled' = meddled
         /\ track \in Tracks /\ DiskOf(track, disk)
<1> DEFINE step == Head(doing.todo)
<1>1. /\ doing \in Jobs /\ job \in [Actors -> Jobs] /\ doing.todo # <<>>
      /\ track \in Tracks /\ DiskOf(track, disk)
  BY DEF TypeInv, Step
<1>2. doing.todo \in Seq(Calls)
  BY <1>1 DEF Jobs
<1>3. step \in Calls /\ Tail(doing.todo) \in Seq(Calls)
  BY <1>1, <1>2
<1>4. step.call \in {"put", "cut", "open", "close", "sync"}
  BY <1>3 DEF Calls, PlainCalls
<1>5. track' = Made(track, step)
  BY DEF Step
<1>6. disk' = After(step.call, track, track', disk)
  <2>1. CASE step.call \in {"put", "cut"}
    BY <2>1 DEF Step, Written, After
  <2>2. CASE step.call \in {"open", "close"}
    BY <2>2 DEF Step, After
  <2>3. CASE step.call = "sync"
    BY <2>3 DEF Step, After
  <2>4. QED
    BY <1>4, <2>1, <2>2, <2>3
<1>7. job' = [job EXCEPT ![actor] = [doing EXCEPT !.todo = Tail(doing.todo)]]
  BY DEF Step
<1>8. QED
  BY <1>1, <1>2, <1>3, <1>5, <1>6, <1>7 DEF Step

LEMMA LaterIs ==
  ASSUME NEW doing \in Jobs, NEW rest \in Seq(Calls), NEW later, later = [doing EXCEPT !.todo = rest]
  PROVE  /\ later \in Jobs /\ later.doing = doing.doing /\ later.record = doing.record
         /\ later.todo = rest
  BY DEF Jobs

\* A call of a writer that holds a record leaves what the record can make good.
LEMMA WriterCallKeepsGood ==
  ASSUME NEW record, IsKept(record), NEW file \in Tracks, NEW parts, DiskOf(file, parts), Holds(record, parts),
         NEW doing, WriterAbout(record, file, parts, doing), doing.todo # <<>>,
         NEW next, next = Made(file, Head(doing.todo)),
         NEW held, held = After(Head(doing.todo).call, file, next, parts),
         NEW later, later.doing = doing.doing, later.record = doing.record, later.todo = Tail(doing.todo)
  PROVE  /\ next \in Tracks /\ DiskOf(next, held) /\ Holds(record, held) /\ Recoverable(record, next)
         /\ WriterAbout(record, next, held, later)
<1>1. Found(record) \in Tracks /\ record.after \in Tracks /\ record.before \in Tracks
  BY KeptShape
<1>2. CASE OpensRoom(record, file, parts, doing)
  <2>1. PICK rest \in Seq(PlainCalls) :
          /\ doing.todo = <<OpenCall>> \o rest /\ rest # <<>>
          /\ Brings(Found(record), rest, record.after, MayPut(record))
    BY <1>2, LengthenedBrings DEF OpensRoom
  <2>2. rest \in Seq(Calls) /\ OpenCall \in Calls
    BY PlainCallsAreCalls DEF OpenCall, Calls
  <2>3. Head(doing.todo) = OpenCall /\ Tail(doing.todo) = rest
    BY <2>1, <2>2, FirstOf
  <2>4. OpenCall.call = "open" /\ OpenCall.by = 1
    BY DEF OpenCall
  <2>5. Found(record) = Opened(record.before, 1) /\ file = record.before
    BY <1>2, KeptShape DEF OpensRoom
  <2>6. next = Found(record)
    BY <2>3, <2>4, <2>5 DEF Made
  <2>7. Between(record, next)
    BY <2>6, EndsAreBetween
  <2>8. DiskOf(next, held) /\ Holds(record, held)
    BY <1>1, <2>3, <2>4, <2>6, <2>7, DiskAfter, HoldsAfter
  <2>9. Lays(record, next, held, later) /\ Flushed(next, later.todo, held)
    BY <1>2, <2>1, <2>3, <2>6, <2>7 DEF OpensRoom, Lays, Flushed
  <2>10. QED
    BY <1>1, <2>6, <2>7, <2>8, <2>9 DEF WriterAbout, Recoverable
<1>3. CASE Lays(record, file, parts, doing)
  <2>1. Between(record, file) /\ Brings(file, doing.todo, record.after, MayPut(record))
    BY <1>3 DEF Lays
  <2>2. /\ next \in Tracks /\ DiskOf(next, held) /\ Holds(record, held) /\ Between(record, next)
        /\ Brings(next, later.todo, record.after, MayPut(record)) /\ Flushed(next, later.todo, held)
    BY <2>1, CallKeepsGood
  <2>3. QED
    BY <1>3, <2>2 DEF WriterAbout, Lays, Recoverable
<1>4. CASE Restores(record, file, parts, doing)
  <2>1. /\ Between(record, file) /\ Brings(file, doing.todo, record.before, MayPut(record))
        /\ record.before = Found(record)
    BY <1>4, KeptShape DEF Restores
  <2>2. /\ next \in Tracks /\ DiskOf(next, held) /\ Holds(record, held) /\ Between(record, next)
        /\ Brings(next, later.todo, record.before, MayPut(record)) /\ Flushed(next, later.todo, held)
    BY <2>1, CallKeepsGood
  <2>3. QED
    BY <1>4, <2>2 DEF WriterAbout, Restores, Recoverable
<1>5. CASE TakesRoom(record, file, parts, doing)
  <2>1. record.way = "head" /\ Taking(record, file, doing.todo)
    BY <1>5 DEF TakesRoom
  <2>2. /\ next \in Tracks /\ DiskOf(next, held) /\ Holds(record, held)
        /\ Taking(record, next, later.todo) /\ Flushed(next, later.todo, held)
    BY <2>1, TakingKeepsGood
  <2>3. Recoverable(record, next)
    BY <2>1, <2>2 DEF Recoverable, Taking
  <2>4. QED
    BY <1>5, <2>2, <2>3 DEF WriterAbout, TakesRoom
<1>6. QED
  BY <1>2, <1>3, <1>4, <1>5 DEF WriterAbout

LEMMA PlainStep ==
  ASSUME NEW file \in Tracks, NEW parts, DiskOf(file, parts), NEW todo \in Seq(PlainCalls), todo # <<>>,
         NEW next, next = Made(file, Head(todo))
  PROVE  next \in Tracks /\ DiskOf(next, After(Head(todo).call, file, next, parts))
<1> DEFINE step == Head(todo)
<1>1. step \in PlainCalls
  BY PlainHead
<1>2. step.call \in {"sync", "cut", "put"} /\ next \in Tracks
  BY <1>1, PlainCallLeavesATrack
<1>3. step.call = "sync" => next = file
  BY DEF Made
<1> HIDE DEF step
<1>4. DiskOf(next, After(step.call, file, next, parts))
  BY <1>2, <1>3, DiskAfter
<1>5. QED
  BY <1>2, <1>4 DEF step

LEMMA WriterStepKeeps == ASSUME Premises, Inv, Step("writer") PROVE Inv'
<1>1. PICK writer : writer = job["writer"]
  OBVIOUS
<1>2. PICK later : later = [writer EXCEPT !.todo = Tail(writer.todo)]
  OBVIOUS
<1>3. TypeInv /\ TrustInv /\ "writer" \in Actors
  BY DEF Inv, Actors
<1>4. /\ writer.todo # <<>> /\ Tail(writer.todo) \in Seq(Calls) /\ writer.todo \in Seq(Calls)
      /\ track' = Made(track, Head(writer.todo))
      /\ disk' = After(Head(writer.todo).call, track, track', disk)
      /\ job' = [job EXCEPT !["writer"] = later]
      /\ left' = left /\ filed' = filed /\ last' = last /\ meddled' = meddled
      /\ track \in Tracks /\ DiskOf(track, disk)
  BY <1>1, <1>2, <1>3, StepIs
<1>5. writer \in Jobs /\ writer # Idle
  BY <1>1, <1>3, <1>4, IdleIs DEF TypeInv
<1>6. later \in Jobs /\ later.doing = writer.doing /\ later.record = writer.record /\ later.todo = Tail(writer.todo)
  <2>1. PICK rest \in Seq(Calls) : rest = Tail(writer.todo)
    BY <1>4
  <2>2. later = [writer EXCEPT !.todo = rest]
    BY <1>2, <2>1
  <2>3. later \in Jobs /\ later.doing = writer.doing /\ later.record = writer.record /\ later.todo = rest
    BY <1>5, <2>2, LaterIs
  <2>4. QED
    BY <2>1, <2>3
<1>7. job["mender"] = Idle
  BY <1>1, <1>3, <1>5 DEF TypeInv, MenderShape
<1>8. job' \in [Actors -> Jobs] /\ job'["writer"] = later /\ job'["mender"] = Idle
  BY <1>3, <1>4, <1>6, <1>7 DEF TypeInv, Actors
<1>9. OthersInv'
  BY <1>8, IdleIs DEF OthersInv
<1>10. CASE /\ writer.doing = "landing" /\ writer.record = NoRecord /\ left = {} /\ ~last.kept
            /\ writer.todo \in Seq(PlainCalls)
  <2>1. track' \in Tracks /\ DiskOf(track', disk')
    BY <1>4, <1>10, PlainStep
  <2>2. later.todo \in Seq(PlainCalls)
    BY <1>4, <1>6, <1>10, PlainHead
  <2>3. WriterShape(job["writer"])'
    BY <1>1, <1>3, <1>4, <1>5, <1>6, <1>8, <1>10, <2>2 DEF TypeInv, WriterShape
  <2>4. TypeInv'
    BY <1>3, <1>4, <1>8, <2>1, <2>3 DEF TypeInv, MenderShape
  <2>5. TrustInv'
    BY <1>4, <1>10 DEF TrustInv, Trusted
  <2>6. QED
    BY <1>9, <2>4, <2>5 DEF Inv
<1>11. CASE writer.doing \in {"landing", "taking_back"} /\ writer.record \in left /\ Trusted
  <2>1. PICK record \in left : record = writer.record
    BY <1>11
  <2>2. IsKept(record) /\ left = {record} /\ filed = {record} /\ HeldBy(record) /\ OfTheLast(record)
    BY <1>3, <1>11, OneRecord DEF TrustInv
  <2>3. Holds(record, disk) /\ WriterAbout(record, track, disk, writer)
    BY <1>1, <1>5, <2>2 DEF HeldBy
  <2>4. /\ track' \in Tracks /\ DiskOf(track', disk') /\ Holds(record, disk') /\ Recoverable(record, track')
        /\ WriterAbout(record, track', disk', later)
    BY <1>4, <1>6, <2>2, <2>3, WriterCallKeepsGood
  <2>5. WriterShape(job["writer"])'
    BY <1>1, <1>3, <1>4, <1>5, <1>6, <1>8, <1>11 DEF TypeInv, WriterShape, Trusted
  <2>6. TypeInv'
    BY <1>3, <1>4, <1>8, <2>4, <2>5 DEF TypeInv, MenderShape
  <2>7. HeldBy(record)'
    BY <1>8, <2>4 DEF HeldBy
  <2>8. last.answer = "none"
    BY <1>1, <1>3, <1>5 DEF TypeInv, WriterShape
  <2>9. TrustInv'
    BY <1>4, <2>2, <2>7, <2>8 DEF TrustInv, OfTheLast
  <2>10. QED
    BY <1>9, <2>6, <2>9 DEF Inv
<1>12. QED
  BY <1>1, <1>3, <1>5, <1>10, <1>11 DEF TypeInv, WriterShape

\* A page of another program's was there before a call, unless the call put it.
LEMMA OtherWasThere ==
  ASSUME NEW file \in Tracks, NEW step \in PlainCalls, NEW next, next = Made(file, step), next \in Tracks,
         NEW page \in DOMAIN next, next[page] = "other"
  PROVE  \/ page \in DOMAIN file /\ file[page] = "other"
         \/ step.call = "put" /\ step.page = page /\ step.cell = "other"
<1>1. DOMAIN file = 1..Len(file) /\ Len(file) \in Nat /\ page \in Nat \ {0}
  BY TrackShape
<1>2. CASE step.call = "sync"
  BY <1>2 DEF Made
<1>3. CASE step.call = "cut"
  <2>1. next = Cut(file, step.to)
    BY <1>3 DEF Made
  <2>2. next[page] = IF page <= Len(file) THEN file[page] ELSE "zeros"
    BY <2>1 DEF Cut
  <2>3. page <= Len(file)
    BY <2>2
  <2>4. QED
    BY <1>1, <2>2, <2>3
<1>4. CASE step.call = "put"
  <2>1. next = Put(file, step.page, step.cell)
    BY <1>4 DEF Made
  <2>2. next[page] = IF page = step.page THEN step.cell ELSE IF page <= Len(file) THEN file[page] ELSE "zeros"
    BY <2>1 DEF Put
  <2>3. page = step.page \/ page <= Len(file)
    BY <2>2
  <2>4. QED
    BY <1>1, <1>4, <2>2, <2>3
<1>5. QED
  BY <1>2, <1>3, <1>4, PlainCallLeavesATrack

\* A call that neither puts a page nor cuts it off leaves it.
LEMMA SparedStands ==
  ASSUME NEW file \in Tracks, NEW step \in PlainCalls, NEW next, next = Made(file, step),
         NEW page \in DOMAIN file, step.call = "put" => step.page # page, step.call = "cut" => page <= step.to
  PROVE  page \in DOMAIN next /\ next[page] = file[page]
<1>1. DOMAIN file = 1..Len(file) /\ Len(file) \in Nat /\ page \in Nat \ {0} /\ page <= Len(file)
  BY TrackShape
<1>2. CASE step.call = "sync"
  BY <1>2 DEF Made
<1>3. CASE step.call = "cut"
  <2>1. next = Cut(file, step.to) /\ step.to \in Nat
    BY <1>3 DEF Made, PlainCalls
  <2>2. page \in 1..step.to
    BY <1>1, <1>3, <2>1
  <2>3. QED
    BY <1>1, <2>1, <2>2 DEF Cut
<1>4. CASE step.call = "put"
  <2>1. next = Put(file, step.page, step.cell) /\ step.page \in Nat
    BY <1>4 DEF Made, PlainCalls
  <2>2. page \in 1..Greatest(Len(file), step.page)
    BY <1>1, <2>1 DEF Greatest
  <2>3. QED
    BY <1>1, <1>4, <2>1, <2>2 DEF Put
<1>5. QED
  BY <1>2, <1>3, <1>4, PlainCallLeavesATrack

\* The next call of a mend spares what the mend spares.
LEMMA SparedByTheNext ==
  ASSUME NEW doing, doing.todo \in Seq(PlainCalls), doing.todo # <<>>, NEW page, Spares(doing, page),
         NEW later, later.todo = Tail(doing.todo)
  PROVE  /\ Head(doing.todo).call = "put" => Head(doing.todo).page # page
         /\ Head(doing.todo).call = "cut" => page <= Head(doing.todo).to
         /\ Spares(later, page)
<1>1. 1 \in DOMAIN doing.todo /\ Head(doing.todo) = doing.todo[1]
      /\ \A i \in DOMAIN later.todo : i + 1 \in DOMAIN doing.todo /\ later.todo[i] = doing.todo[i + 1]
  BY RestOf
<1>2. QED
  BY <1>1 DEF Spares

LEMMA OnDiskAfter ==
  ASSUME NEW file \in Tracks, NEW parts, DiskOf(file, parts), NEW next \in Tracks,
         NEW call \in {"sync", "cut", "put"}, call = "sync" => next = file, NEW page, OnDisk(parts, page),
         page \in DOMAIN next, next[page] = "other"
  PROVE  OnDisk(After(call, file, next, parts), page)
<1>1. parts \in Seq(Parts) /\ parts # <<>> /\ page <= Len(next)
  BY TrackShape DEF DiskOf
<1>2. CASE call = "sync"
  <2>1. After(call, file, next, parts) = <<{next}>>
    BY <1>2 DEF After
  <2>2. QED
    BY <1>1, <2>1, OnePart DEF OnDisk
<1>3. CASE call # "sync"
  <2> DEFINE part == parts[Len(parts)] \cup {next}
             all == [parts EXCEPT ![Len(parts)] = part]
  <2>1. parts[Len(parts)] \in Parts /\ Len(parts) \in DOMAIN parts
    BY <1>1, LastPart
  <2>2. part \in Parts
    BY <2>1 DEF Parts
  <2>3. \A some \in part : page <= Len(some) /\ some[page] = "other"
    BY <1>1, <2>1 DEF OnDisk
  <2>4. After(call, file, next, parts) = all
    BY <1>3 DEF After
  <2> HIDE DEF part
  <2>5. /\ all[Len(parts)] = part
        /\ \A i \in DOMAIN all : i \in DOMAIN parts /\ (i = Len(parts) \/ all[i] = parts[i])
    BY <1>1, <2>2, LastPart
  <2> HIDE DEF all
  <2>6. OnDisk(all, page)
    BY <2>3, <2>5 DEF OnDisk
  <2>7. QED
    BY <2>4, <2>6
<1>4. QED
  BY <1>2, <1>3

LEMMA MenderStepKeeps == ASSUME Premises, Inv, Step("mender") PROVE Inv'
<1>1. PICK mender : mender = job["mender"]
  OBVIOUS
<1>2. PICK later : later = [mender EXCEPT !.todo = Tail(mender.todo)]
  OBVIOUS
<1>3. TypeInv /\ TrustInv /\ OthersInv /\ "mender" \in Actors
  BY DEF Inv, Actors
<1>4. /\ mender.todo # <<>> /\ Tail(mender.todo) \in Seq(Calls) /\ mender.todo \in Seq(Calls)
      /\ track' = Made(track, Head(mender.todo))
      /\ disk' = After(Head(mender.todo).call, track, track', disk)
      /\ job' = [job EXCEPT !["mender"] = later]
      /\ left' = left /\ filed' = filed /\ last' = last /\ meddled' = meddled
      /\ track \in Tracks /\ DiskOf(track, disk)
  BY <1>1, <1>2, <1>3, StepIs
<1>5. mender \in Jobs /\ mender # Idle
  BY <1>1, <1>3, <1>4, IdleIs DEF TypeInv
<1>6. later \in Jobs /\ later.doing = mender.doing /\ later.record = mender.record /\ later.todo = Tail(mender.todo)
  <2>1. PICK rest \in Seq(Calls) : rest = Tail(mender.todo)
    BY <1>4
  <2>2. later = [mender EXCEPT !.todo = rest]
    BY <1>2, <2>1
  <2>3. later \in Jobs /\ later.doing = mender.doing /\ later.record = mender.record /\ later.todo = rest
    BY <1>5, <2>2, LaterIs
  <2>4. QED
    BY <2>1, <2>3
<1>7. /\ job["writer"] = Idle /\ mender.doing = "mending" /\ mender.record \in left
      /\ mender.todo \in Seq(PlainCalls)
  BY <1>1, <1>3, <1>5 DEF TypeInv, MenderShape
<1>8. job' \in [Actors -> Jobs] /\ job'["writer"] = Idle /\ job'["mender"] = later
  BY <1>3, <1>4, <1>6, <1>7 DEF TypeInv, Actors
<1>9. /\ Head(mender.todo) \in PlainCalls /\ Head(mender.todo).call \in {"sync", "cut", "put"}
      /\ later.todo \in Seq(PlainCalls)
  BY <1>4, <1>6, <1>7, PlainHead
<1>10. track' \in Tracks /\ DiskOf(track', disk')
  BY <1>4, <1>7, PlainStep
<1>11. TypeInv'
  BY <1>3, <1>4, <1>6, <1>7, <1>8, <1>9, <1>10 DEF TypeInv, WriterShape, MenderShape
<1>12. TrustInv'
  <2>1. SUFFICES ASSUME Trusted PROVE TrustInv'
    BY <1>4 DEF TrustInv, Trusted
  <2>2. PICK record \in left : record = mender.record
    BY <1>7
  <2>3. /\ IsKept(record) /\ left = {record} /\ filed = {record} /\ HeldBy(record) /\ OfTheLast(record)
        /\ (last.answer = "landed" => ItLanded)
    BY <1>3, <2>1, OneRecord DEF TrustInv
  <2>4. Holds(record, disk) /\ MenderAbout(record, track, disk, mender)
    BY <1>1, <1>5, <2>3 DEF HeldBy
  <2>5. /\ Between(record, track) /\ Brings(track, mender.todo, Target(record), MayPut(record))
        /\ Target(record) \in {Found(record), record.after}
    BY <1>4, <2>3, <2>4, KeptShape DEF MenderAbout, Target
  <2>6. /\ Holds(record, disk') /\ Between(record, track')
        /\ Brings(track', later.todo, Target(record), MayPut(record)) /\ Flushed(track', later.todo, disk')
    BY <1>4, <1>6, <2>3, <2>4, <2>5, CallKeepsGood
  <2>7. MenderAbout(record, track', disk', later)
    BY <1>6, <2>2, <2>6 DEF MenderAbout
  <2>8. HeldBy(record)'
    BY <1>8, <2>6, <2>7 DEF HeldBy, Recoverable
  <2>9. last.answer # "landed"
    BY <1>1, <1>4, <2>3 DEF ItLanded
  <2>10. QED
    BY <1>4, <2>3, <2>8, <2>9 DEF TrustInv, OfTheLast
<1>13. OthersInv'
  <2>1. SUFFICES ASSUME meddled PROVE OthersInv'
    BY <1>4 DEF OthersInv
  <2>2. PutsItsOwn(mender)
    BY <1>1, <1>3, <1>7, <2>1 DEF OthersInv
  <2>3. 1 \in DOMAIN mender.todo /\ Head(mender.todo) = mender.todo[1]
        /\ \A i \in DOMAIN later.todo : i + 1 \in DOMAIN mender.todo /\ later.todo[i] = mender.todo[i + 1]
    BY <1>4, <1>6, <1>7, RestOf
  <2>4. PutsItsOwn(later)
    BY <1>6, <2>2, <2>3 DEF PutsItsOwn
  <2>5. ASSUME NEW page \in DOMAIN track', Strange(later, track', page)
        PROVE  Spares(later, page) /\ OnDisk(disk', page)
    <3>1. track'[page] = "other" /\ Cell(Found(mender.record), page) # "other"
      BY <1>6, <2>5 DEF Strange
    <3>2. page \in DOMAIN track /\ track[page] = "other"
      <4>1. ~(/\ Head(mender.todo).call = "put" /\ Head(mender.todo).page = page
              /\ Head(mender.todo).cell = "other")
        BY <2>2, <2>3, <3>1 DEF PutsItsOwn
      <4>2. QED
        BY <1>4, <1>9, <1>10, <3>1, <4>1, OtherWasThere
    <3>3. Spares(mender, page) /\ OnDisk(disk, page)
      BY <1>1, <1>3, <1>7, <2>1, <3>1, <3>2 DEF OthersInv, Strange
    <3>4. Spares(later, page)
      BY <1>4, <1>6, <1>7, <3>3, SparedByTheNext
    <3>5. OnDisk(disk', page)
      <4>1. Head(mender.todo).call = "sync" => track' = track
        BY <1>4 DEF Made
      <4>2. QED
        BY <1>4, <1>9, <1>10, <3>1, <3>3, <4>1, OnDiskAfter
    <3>6. QED
      BY <3>4, <3>5
  <2>6. QED
    BY <1>8, <2>4, <2>5 DEF OthersInv
<1>14. QED
  BY <1>11, <1>12, <1>13 DEF Inv

\* Where nothing changes, nothing is disturbed.
LEMMA NothingChanged == ASSUME Inv, UNCHANGED vars PROVE Inv'
<1>1. /\ track' = track /\ disk' = disk /\ left' = left /\ filed' = filed /\ job' = job /\ last' = last
      /\ meddled' = meddled
  BY DEF vars
<1>2. TypeInv'
  BY <1>1 DEF Inv, TypeInv, WriterShape, MenderShape, Trusted
<1>3. TrustInv'
  BY <1>1 DEF Inv, TrustInv, Trusted, OfTheLast, AllIsSettled, ItLanded, HeldBy
<1>4. OthersInv'
  BY <1>1 DEF Inv, OthersInv
<1>5. QED
  BY <1>2, <1>3, <1>4 DEF Inv

LEMMA InvKept == ASSUME Premises, Inv, [Next]_vars PROVE Inv'
<1>1. CASE Begin
  BY <1>1, BeginKeeps
<1>2. CASE BeginBare
  BY <1>2, BeginBareKeeps
<1>3. CASE Done
  BY <1>3, DoneKeeps
<1>4. CASE Mend
  BY <1>4, MendKeeps
<1>5. CASE Mended
  BY <1>5, MendedKeeps
<1>6. CASE Meddle
  BY <1>6, MeddleKeeps
<1>7. CASE TakeBack
  BY <1>7, TakeBackKeeps
<1>8. CASE NoRoom
  BY <1>8, NoRoomKeeps
<1>9. CASE GiveUp
  BY <1>9, GiveUpKeeps
<1>10. CASE PowerCut
  BY <1>10, PowerCutKeeps
<1>11. ASSUME NEW actor \in Actors, Die(actor)
       PROVE  Inv'
  BY <1>11, DieKeeps
<1>12. ASSUME NEW actor \in Actors, Step(actor)
       PROVE  Inv'
  BY <1>12, WriterStepKeeps, MenderStepKeeps DEF Actors
<1>13. CASE UNCHANGED vars
  BY <1>13, NothingChanged
<1>14. QED
  BY <1>1, <1>2, <1>3, <1>4, <1>5, <1>6, <1>7, <1>8, <1>9, <1>10, <1>11, <1>12, <1>13 DEF Next, Faults

LEMMA InvAlways == ASSUME Premises PROVE Spec => []Inv
<1>1. Init => Inv
  BY InitInv
<1>2. Inv /\ [Next]_vars => Inv'
  BY InvKept
<1>3. QED
  BY <1>1, <1>2, PTL DEF Spec

-----------------------------------------------------------------------------
(* What a write over a track promises.                                     *)

\* Once nothing of a write that kept its record is left to mend, and no other program edited
\* the track meanwhile, the track is what stood before the write or what it meant, for any
\* pages and any number of failed calls, deaths and power cuts (rolled_back, carried_on,
\* finished_writing_back, and the syncs between one call and the next).
THEOREM NothingTornAlways == ASSUME Premises PROVE Spec => []NothingTorn
<1>1. Inv => NothingTorn
  <2>1. SUFFICES ASSUME Inv, AtRest, Trusted PROVE track \in {last.before, last.after}
    BY DEF NothingTorn, Trusted
  <2>2. left = {}
    BY <2>1 DEF AtRest
  <2>3. job["writer"] = Idle
    BY <2>1, <2>2, NoRecordNoWriter DEF Inv
  <2>4. QED
    BY <2>1, <2>2, <2>3 DEF Inv, TrustInv, AllIsSettled
<1>2. QED
  BY <1>1, InvAlways, PTL

\* What the track comes to is what stood before the write or what it meant, and once it is
\* answered for as landed, what it meant.
AsPromised ==
  /\ Stands \in {last.before, last.after}
  /\ last.answer = "landed" => Stands = last.after

LEMMA StandsAsPromised == ASSUME Inv, Trusted PROVE AsPromised
<1>1. CASE left = {}
  <2>1. job["writer"] = Idle /\ Stands = track
    BY <1>1, NoRecordNoWriter DEF Inv, Stands
  <2>2. QED
    BY <1>1, <2>1 DEF Inv, TrustInv, AllIsSettled, ItLanded, AsPromised
<1>2. ASSUME NEW record \in left
      PROVE  AsPromised
  <2>1. /\ IsKept(record) /\ left = {record} /\ HeldBy(record) /\ OfTheLast(record) /\ track \in Tracks
        /\ last.answer = "landed" => track = last.after
    BY <1>2, OneRecord DEF Inv, TypeInv, TrustInv, ItLanded
  <2>2. (CHOOSE kept \in left : TRUE) = record
    BY <2>1
  <2>3. Stands = IF Mending(track, record) = <<>> THEN track ELSE Target(record)
    BY <2>1, <2>2 DEF Stands, Target
  <2>4. Stands \in {record.before, record.after}
    BY <2>1, <2>3, MendedIsSettled DEF HeldBy
  <2>5. ASSUME last.answer = "landed"
        PROVE  Stands = last.after
    BY <2>1, <2>3, <2>5, NothingToMend DEF OfTheLast
  <2>6. QED
    BY <2>1, <2>4, <2>5 DEF OfTheLast, AsPromised
<1>3. QED
  BY <1>1, <1>2

LEMMA StandsAsPromisedNext == Inv' /\ Trusted' => AsPromised'
<1>1. Inv /\ Trusted => AsPromised
  BY StandsAsPromised
<1>2. QED
  BY <1>1, PTL

\* A write that is begun is asked for over the track as it stands.
LEMMA BeginAsks ==
  ASSUME Inv, Inv', Begin \/ BeginBare
  PROVE  Promised!Ask
<1>1. /\ left = {} /\ meddled' = FALSE
      /\ last' \in [before : {track}, after : Versions, answer : {"none"}, kept : BOOLEAN]
  <2>1. CASE Begin
    BY <2>1 DEF Begin
  <2>2. CASE BeginBare
    BY <2>2 DEF BeginBare
  <2>3. QED
    BY <2>1, <2>2
<1>2. Stands = track
  BY <1>1 DEF Stands
<1>3. last'.kept \in BOOLEAN
  BY <1>1
<1>4. (last.kept /\ ~meddled)' = last'.kept
  BY <1>1, <1>3
<1>5. (last.kept /\ ~meddled)' => Stands' \in {last'.before, last'.after}
  BY StandsAsPromisedNext DEF Trusted, AsPromised
<1>6. QED
  BY <1>1, <1>2, <1>4, <1>5 DEF Promised!Ask

\* Whatever else happens, a write comes to have happened or not to have, and is answered for once.
LEMMA ElseSettles ==
  ASSUME Inv, Inv', NEW answer \in {last.answer, "landed", "failed"}, last' = [last EXCEPT !.answer = answer],
         last.answer \in {"landed", "failed"} => last' = last, meddled' \in {meddled, TRUE}
  PROVE  Promised!Settle
<1>1. /\ last \in [before : Tracks, after : Tracks, answer : {"none", "landed", "failed"}, kept : BOOLEAN]
      /\ meddled \in BOOLEAN
  BY DEF Inv, TypeInv
<1>2. last'.kept = last.kept /\ last'.before = last.before /\ last'.after = last.after /\ last.kept \in BOOLEAN
  BY <1>1
<1>3. (last.kept /\ ~meddled)' \in {last.kept /\ ~meddled, FALSE}
  BY <1>1, <1>2
<1>4. (last.kept /\ ~meddled)' => /\ Stands' \in {last.before, last.after}
                                  /\ last'.answer = "landed" => Stands' = last.after
  BY <1>2, StandsAsPromisedNext DEF Trusted, AsPromised
<1>5. last' \in {[last EXCEPT !.answer = other] : other \in {last.answer, "landed", "failed"}}
  OBVIOUS
<1>6. QED
  BY <1>3, <1>4, <1>5 DEF Promised!Settle

LEMMA LastStays ==
  ASSUME Inv, Inv', last' = last, meddled' \in {meddled, TRUE}
  PROVE  Promised!Settle
<1>1. last \in [before : Tracks, after : Tracks, answer : {"none", "landed", "failed"}, kept : BOOLEAN]
  BY DEF Inv, TypeInv
<1>2. last' = [last EXCEPT !.answer = last.answer]
  BY <1>1
<1>3. QED
  BY <1>2, ElseSettles

\* A write is answered for while its writer is about.
LEMMA AnswerSettles ==
  ASSUME Inv, Inv', NEW answer \in {"landed", "failed"}, Answered(answer), job["writer"] # Idle, meddled' = meddled
  PROVE  Promised!Settle
<1>1. last.answer = "none"
  BY DEF Inv, TypeInv, WriterShape
<1>2. QED
  BY <1>1, ElseSettles DEF Answered

LEMMA StepPromised ==
  ASSUME Inv, Inv', [Next]_vars
  PROVE  Promised!Next
<1>1. CASE Begin \/ BeginBare
  BY <1>1, BeginAsks DEF Promised!Next
<1>2. CASE Done
  <2>1. PICK answer \in {"landed", "failed"} : Answered(answer)
    BY <1>2 DEF Done
  <2>2. job["writer"] # Idle /\ meddled' = meddled
    BY <1>2, IdleIs DEF Done, IsIdle
  <2>3. QED
    BY <2>1, <2>2, AnswerSettles DEF Promised!Next
<1>3. CASE NoRoom
  <2>1. Answered("failed") /\ job["writer"] # Idle /\ meddled' = meddled
    BY <1>3, IdleIs DEF NoRoom
  <2>2. QED
    BY <2>1, AnswerSettles DEF Promised!Next
<1>4. CASE GiveUp
  <2>1. Answered("failed") /\ job["writer"] # Idle /\ meddled' = meddled
    BY <1>4, IdleIs DEF GiveUp
  <2>2. QED
    BY <2>1, AnswerSettles DEF Promised!Next
<1>5. ASSUME last' = last, meddled' \in {meddled, TRUE}
      PROVE  Promised!Next
  BY <1>5, LastStays DEF Promised!Next
<1>6. CASE Mend \/ Mended \/ Meddle
  <2>1. last' = last /\ meddled' \in {meddled, TRUE}
    BY <1>6 DEF Mend, Mended, Meddle
  <2>2. QED
    BY <1>5, <2>1
<1>7. CASE TakeBack \/ PowerCut \/ UNCHANGED vars
  <2>1. last' = last /\ meddled' \in {meddled, TRUE}
    BY <1>7 DEF TakeBack, PowerCut, vars
  <2>2. QED
    BY <1>5, <2>1
<1>8. ASSUME NEW actor \in Actors, Die(actor) \/ Step(actor)
      PROVE  Promised!Next
  <2>1. last' = last /\ meddled' \in {meddled, TRUE}
    BY <1>8 DEF Die, Step
  <2>2. QED
    BY <1>5, <2>1
<1>9. QED
  BY <1>1, <1>2, <1>3, <1>4, <1>6, <1>7, <1>8 DEF Next, Faults

\* Journal implements Retag: every call, failure, death, power cut, mend and edit of another
\* program either asks for a write over the track as it stands or leaves it, once mended,
\* what stood before the write or what it meant, and a write answered for as landed stays
\* (Undo::kept, Overlay::land, Insert's lengthened and taken_back, WholeCopy, and
\* mend_a_cut_short_write over what any of them left).
THEOREM KeepsItsPromiseAlways == ASSUME Premises PROVE Spec => KeepsItsPromise
<1>1. Init => Promised!Init
  <2>1. SUFFICES ASSUME Init PROVE Promised!Init
    OBVIOUS
  <2>2. Stands = track
    BY <2>1 DEF Init, Stands
  <2>3. last = [before |-> track, after |-> track, answer |-> "none", kept |-> TRUE] /\ meddled = FALSE
    BY <2>1 DEF Init
  <2>4. (last.kept /\ ~meddled) = TRUE
    BY <2>3
  <2>5. QED
    BY <2>2, <2>3, <2>4 DEF Promised!Init
<1>2. Inv /\ Inv' /\ [Next]_vars => [Promised!Next]_Promised!vars
  BY StepPromised
<1>3. QED
  BY <1>1, <1>2, InvAlways, PTL DEF Spec, KeepsItsPromise, Promised!Spec

-----------------------------------------------------------------------------
(* What other programs wrote.                                              *)

\* Nothing is written while a mender is about but what the mender writes.
LEMMA MendingAlone ==
  ASSUME Inv, job["mender"].doing = "mending"
  PROVE  job["writer"] = Idle /\ job["mender"].todo \in Seq(PlainCalls)
  BY IdleIs DEF Inv, TypeInv, MenderShape

\* A mend leaves a page that is another program's, and so does a power cut that ends it.
LEMMA OtherStays ==
  ASSUME Inv, [Next]_vars, meddled, job["mender"].doing = "mending", NEW page \in DOMAIN track,
         track[page] = "other", Cell(Found(job["mender"].record), page) # "other"
  PROVE  page \in DOMAIN track' /\ track'[page] = "other"
<1>1. PICK mender : mender = job["mender"]
  OBVIOUS
<1>2. /\ TypeInv /\ track \in Tracks /\ page \in Nat \ {0}
      /\ disk \in Seq(Parts) /\ \A i \in DOMAIN disk : disk[i] \in SUBSET Tracks
  BY TrackShape DEF Inv, TypeInv, DiskOf, Parts
<1>3. Spares(mender, page) /\ OnDisk(disk, page)
  BY <1>1 DEF Inv, OthersInv, Strange
<1>4. /\ job["writer"] = Idle /\ job["writer"].todo = <<>> /\ job["writer"].doing = "nothing"
      /\ mender.todo \in Seq(PlainCalls)
  BY <1>1, MendingAlone, IdleIs
<1>5. CASE Step("mender")
  <2>1. "mender" \in Actors
    BY DEF Actors
  <2>2. mender.todo # <<>> /\ track' = Made(track, Head(mender.todo))
    BY <1>1, <1>2, <1>5, <2>1, StepIs
  <2>3. PICK step : step = Head(mender.todo)
    OBVIOUS
  <2>4. PICK later : later.todo = Tail(mender.todo)
    <3>1. [todo |-> Tail(mender.todo)].todo = Tail(mender.todo)
      OBVIOUS
    <3>2. QED
      BY <3>1
  <2>5. step \in PlainCalls
    BY <1>4, <2>2, <2>3, PlainHead
  <2>6. (step.call = "put" => step.page # page) /\ (step.call = "cut" => page <= step.to)
    BY <1>3, <1>4, <2>2, <2>3, <2>4, SparedByTheNext
  <2>7. QED
    BY <1>2, <2>2, <2>3, <2>5, <2>6, SparedStands
<1>6. CASE PowerCut
  <2>1. PICK i \in DOMAIN disk : \E file \in Survivors(disk[i]) : track' = file /\ disk' = <<{file}>>
    BY <1>6 DEF PowerCut
  <2>2. PICK part \in SUBSET Tracks : part = disk[i]
    BY <1>2
  <2>3. PICK file \in Survivors(part) : track' = file
    BY <2>1, <2>2
  <2>4. \A some \in part : page <= Len(some) /\ some[page] = "other"
    BY <1>3, <2>2 DEF OnDisk
  <2>5. page \in DOMAIN file /\ file[page] = "other"
    BY <1>2, <2>4, AgreedSurvives
  <2>6. QED
    BY <2>3, <2>5
<1>7. ~Step("writer") /\ ~TakeBack /\ ~GiveUp /\ ~Meddle
  BY <1>4 DEF Step, TakeBack, GiveUp, Meddle, IsIdle, Actors
<1>8. CASE Begin \/ BeginBare \/ Done \/ Mend \/ Mended \/ NoRoom \/ UNCHANGED vars
  BY <1>8 DEF Begin, BeginBare, Done, Mend, Mended, NoRoom, vars
<1>9. ASSUME NEW actor \in Actors, Die(actor)
      PROVE  track' = track
  BY <1>9 DEF Die
<1>10. QED
  BY <1>5, <1>6, <1>7, <1>8, <1>9 DEF Next, Faults, Actors

\* No mend writes over a page another program wrote between a death and its mend, unless
\* such a page is what the write had found there, nor does a power cut in the middle of the
\* mend lose it (rolled_back, carried_on and finished_writing_back read every page they
\* would write before they write one).
THEOREM OthersStandAlways == ASSUME Premises PROVE Spec => OthersStand
<1>1. Inv /\ [Next]_vars =>
        [\A page \in DOMAIN track :
           /\ meddled /\ job["mender"].doing = "mending"
           /\ track[page] = "other" /\ Cell(Found(job["mender"].record), page) # "other"
           => page \in DOMAIN track' /\ track'[page] = "other"]_vars
  BY OtherStays
<1>2. QED
  BY <1>1, InvAlways, PTL DEF Spec, OthersStand

=============================================================================
