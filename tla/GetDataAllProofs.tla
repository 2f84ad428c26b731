-------------------------- MODULE GetDataAllProofs --------------------------
(* What get_data_all does with any server at all, for every value of the      *)
(* constants: no metadata that a server can send makes it go back or stand    *)
(* still, or ask for a page of a chunk or at an offset that is not there; and *)
(* from a server that is honest and sends metadata it gets every record once  *)
(* and in order, without a page that would be empty.  Both rest on the chunks *)
(* of split_date_range being a partition of the dates (module                 *)
(* DateRangeProofs).                                                          *)
EXTENDS GetDataAll, SequenceTheorems, WellFoundedInduction, TLAPS

Advance ==
  phase = "ask" /\ phase' = "ask"
    => \/ chunk' = chunk /\ current_offset' > current_offset
       \/ chunk' = chunk + 1 /\ current_offset' = 1

\* A page, with whatever metadata and records, is followed by a later page of
\* its chunk, by the first page of the next chunk, or by none.
LEMMA PageAdvances ==
  ASSUME NEW m, NEW results, Page(m, results)
  PROVE  Advance
<1>1. CASE Stuck(m)
  BY <1>1 DEF Stuck, Answer, Advance
<1>2. CASE IF GoesOn(m, results)
             THEN current_offset' = TurnPage(m) /\ UNCHANGED <<chunk, phase, answer>>
             ELSE NextChunk
  <2>1. CASE GoesOn(m, results)
    BY <1>2, <2>1 DEF GoesOn, TurnPage, Advance
  <2>2. CASE ~GoesOn(m, results)
    BY <1>2, <2>2 DEF NextChunk, Answer, Advance
  <2> QED
    BY <2>1, <2>2
<1> QED
  BY <1>1, <1>2 DEF Page

LEMMA StepAdvances == Next => Advance
<1> SUFFICES ASSUME Next PROVE Advance
  OBVIOUS
<1>1. ASSUME NEW from \in Dates, NEW to \in Dates, NEW limit \in Limits \cup {NoLimit},
             NEW include \in WithMetadata, Call(from, to, limit, include)
      PROVE  Advance
  BY <1>1 DEF Call, Advance
<1>2. CASE SplitDates
  BY <1>2 DEF SplitDates, Advance
<1>3. CASE GetData
  BY <1>3, PageAdvances DEF GetData
<1>4. CASE GetDataFails
  BY <1>4 DEF GetDataFails, Answer, Advance
<1>5. CASE Return
  BY <1>5 DEF Return, Advance
<1> QED
  BY <1>1, <1>2, <1>3, <1>4, <1>5 DEF Next, Work

\* Each page that get_data_all asks for lies after the one before it, whatever
\* the server answers (get_data_all, next_offset).
THEOREM PagesAlwaysAdvance == Spec => PagesAdvance
<1>1. [Next]_vars => [Advance]_vars
  BY StepAdvances
<1> QED
  BY <1>1, PTL DEF Spec, PagesAdvance, Advance
----------------------------------------------------------------------------
(* Types.                                                                     *)

\* The proofs about split_date_range, read for the one that get_data_all calls.
Split == INSTANCE DateRangeProofs WITH ChunkSizes <- {MaxDays}

LEMMA SplitAssumption == Split!CalendarAssumption
BY SplitterAssumption
   DEF Splitter!CalendarAssumption, Split!CalendarAssumption, Splitter!Days, Split!Days

LEMMA SameTurn == Splitter!SplitOn => Split!SplitOn
<1>1. Splitter!Remaining = Split!Remaining /\ Splitter!ChunkEnd = Split!ChunkEnd
      /\ Splitter!Days = Split!Days
  BY DEF Splitter!Remaining, Split!Remaining, Splitter!days_between, Split!days_between,
         Splitter!ChunkEnd, Split!ChunkEnd, Splitter!Days, Split!Days
<1>2. \A d : Splitter!NextStart(d) = Split!NextStart(d)
  BY DEF Splitter!NextStart, Split!NextStart
<1>3. Splitter!LastChunk => Split!LastChunk
  BY <1>1 DEF Splitter!LastChunk, Split!LastChunk
<1>4. Splitter!MoreChunks => Split!MoreChunks
  BY <1>1, <1>2 DEF Splitter!MoreChunks, Split!MoreChunks
<1>5. QED
  BY <1>3, <1>4 DEF Splitter!SplitOn, Split!SplitOn

\* What get_data_all does with the dates is what split_date_range does.
LEMMA SplittingIsASplit == Spec => Split!Spec
<1>1. Init => Split!Init
  BY DEF Init, Splitter!Init, Split!Init
<1>2. [Next]_vars => [Split!Next]_(Split!dateVars)
  <2> SUFFICES ASSUME [Next]_vars PROVE Split!Next \/ UNCHANGED Split!dateVars
    OBVIOUS
  <2>1. CASE UNCHANGED splitting
    BY <2>1 DEF splitting, Split!dateVars
  <2>2. ASSUME NEW from \in Dates, NEW to \in Dates, NEW limit \in Limits \cup {NoLimit},
               NEW include \in WithMetadata, Call(from, to, limit, include)
        PROVE  Split!Next
    BY <2>2 DEF Call, Splitter!Split, Split!Split, Splitter!Splittable, Split!Splittable,
                Splitter!days_between, Split!days_between, Split!Next
  <2>3. CASE SplitDates
    BY <2>3, SameTurn DEF SplitDates, Split!Next
  <2>4. CASE Return
    BY <2>4 DEF Return, Splitter!Taken, Split!Taken, Split!Next, splitting, Split!dateVars
  <2>5. CASE GetData \/ GetDataFails
    BY <2>1, <2>5 DEF GetData, GetDataFails, Page
  <2>6. QED
    BY <2>1, <2>2, <2>3, <2>4, <2>5 DEF Next, Work, vars
<1>3. QED
  BY <1>1, <1>2, PTL DEF Spec, Split!Spec

LEMMA AlwaysSplit == Spec => [](Split!TypeOK /\ Split!Partition)
<1>1. Split!Spec => []Split!TypeOK
  BY SplitAssumption, Split!SplitTyped
<1>2. Split!Spec => []Split!Partition
  BY SplitAssumption, Split!SplitIsAPartition
<1>3. QED
  BY <1>1, <1>2, SplittingIsASplit, PTL

Answers == {"none", "records", "InvalidRequest", "GetDataError", "ParseError"}

PagingInv ==
  /\ phase \in {"idle", "split", "ask", "answered"}
  /\ params \in [limit : Limits \cup {NoLimit}, include_metadata : BOOLEAN]
  /\ phase = "split" => status = "splitting"
  /\ phase = "ask" => status = "done" /\ chunk \in 1..Len(ranges)
  /\ current_offset \in 0..Int32Max
  /\ phase = "ask" => current_offset >= 1
  /\ answer \in Answers
  /\ (answer # "none") <=> (phase = "answered")

\* The next page begins at an offset that fits its type.
LEMMA OffsetsFit ==
  ASSUME NEW m \in [offset : Int, count : Int, limit : Int]
  PROVE  NextOffset(m) \in 1..Int32Max
<1>1. m.offset \in Int /\ m.limit \in Int /\ Int32Max \in Nat \ {0}
  BY PagingAssumption
<1>2. QED
  BY <1>1 DEF NextOffset, Greater, Lesser

LEMMA PageKeeps ==
  ASSUME PagingInv, Split!TypeOK, NEW m, NEW results, Page(m, results),
         HasMore(m) => NextOffset(m) \in 1..Int32Max
  PROVE  PagingInv'
<1>1. /\ phase = "ask" /\ status = "done" /\ chunk \in 1..Len(ranges)
      /\ UNCHANGED <<status, ranges, params>>
      /\ Len(ranges) \in Nat /\ 1 <= Int32Max /\ Int32Max \in Nat
      /\ answer = "none"
  BY PagingAssumption DEF Page, PagingInv, splitting, Split!TypeOK
<1>2. CASE Stuck(m)
  BY <1>1, <1>2 DEF Stuck, Answer, PagingInv, Answers
<1>3. CASE ~Stuck(m) /\ GoesOn(m, results)
  BY <1>1, <1>3 DEF Page, GoesOn, TurnPage, PagingInv, Answers
<1>4. CASE ~Stuck(m) /\ ~GoesOn(m, results)
  BY <1>1, <1>4 DEF Page, NextChunk, Answer, PagingInv, Answers
<1>5. QED
  BY <1>2, <1>3, <1>4

LEMMA PagingStep ==
  ASSUME PagingInv, Split!TypeOK, Split!Partition', Split!TypeOK', [Next]_vars
  PROVE  PagingInv'
<1>1. ASSUME NEW from \in Dates, NEW to \in Dates, NEW limit \in Limits \cup {NoLimit},
             NEW include \in WithMetadata, Call(from, to, limit, include)
      PROVE  PagingInv'
  BY <1>1, PagingAssumption DEF Call, Splitter!Split, Answer, PagingInv, Answers
<1>2. CASE SplitDates
  <2>1. status' \in {"done", "out_of_range", "splitting"}
    BY <1>2 DEF SplitDates, Splitter!SplitOn, Splitter!LastChunk, Splitter!MoreChunks
  <2>2. CASE status' = "done"
    <3>1. phase' = "ask" /\ chunk' = 1 /\ current_offset' = 1 /\ UNCHANGED <<answer, params>>
      BY <1>2, <2>2 DEF SplitDates
    <3>2. ranges' \in Seq(Split!Days \X Split!Days) /\ ranges' # << >>
      BY <2>2 DEF Split!Partition, Split!TypeOK
    <3>3. 1 \in 1..Len(ranges')
      BY <3>2
    <3>4. QED
      BY <1>2, <2>2, <3>1, <3>3, PagingAssumption DEF SplitDates, PagingInv, Answers
  <2>3. CASE status' = "out_of_range"
    BY <1>2, <2>3 DEF SplitDates, Answer, PagingInv, Answers
  <2>4. CASE status' = "splitting"
    BY <1>2, <2>4 DEF SplitDates, PagingInv
  <2>5. QED
    BY <2>1, <2>2, <2>3, <2>4
<1>3. CASE GetData
  <2>1. CASE honest
    <3> DEFINE limit == Lesser(Asked, PageCap)
               m == HonestMetadata(limit)
    <3>1. Page(m, HonestPage(limit))
      BY <1>3, <2>1 DEF GetData
    <3>2. m.offset \in Int /\ m.limit \in Int
      <4>1. Asked \in Int
        <5>1. params.limit \in Limits \cup {NoLimit}
          BY DEF PagingInv
        <5>2. Limits \subseteq Int /\ DefaultLimit \in Int
          BY PagingAssumption
        <5>3. QED
          BY <5>1, <5>2 DEF Asked
      <4>2. PageCap \in Int /\ current_offset \in Int
        BY PagingAssumption DEF PagingInv
      <4>3. limit \in Int
        BY <4>1, <4>2 DEF Lesser
      <4>4. QED
        BY <4>2, <4>3 DEF HonestMetadata, NoMetadata
    <3>3. NextOffset(m) \in 1..Int32Max
      BY <3>2, PagingAssumption DEF NextOffset, Greater, Lesser
    <3>4. QED
      BY <3>1, <3>3, PageKeeps
  <2>2. CASE ~honest
    <3>1. PICK m \in [offset : WildNumbers, count : WildNumbers, limit : WildNumbers],
               results \in {<< >>, <<"record">>} : Page(m, results)
      BY <1>3, <2>2 DEF GetData
    <3>2. m \in [offset : Int, count : Int, limit : Int]
      <4>1. WildNumbers \subseteq Int
        BY PagingAssumption
      <4>2. QED
        BY <4>1
    <3>3. QED
      BY <3>1, <3>2, OffsetsFit, PageKeeps
  <2>3. QED
    BY <2>1, <2>2
<1>4. CASE GetDataFails
  BY <1>4 DEF GetDataFails, Answer, PagingInv, Answers
<1>5. CASE Return
  BY <1>5 DEF Return, PagingInv, Answers
<1>6. CASE UNCHANGED vars
  BY <1>6 DEF vars, splitting, PagingInv
<1>7. QED
  BY <1>1, <1>2, <1>3, <1>4, <1>5, <1>6 DEF Next, Work

\* Whatever the server sends, get_data_all only asks for pages of chunks that
\* there are, at offsets that fit their type, and its variables keep theirs.
THEOREM PagingTyped == Spec => []TypeOK
<1>1. Init => PagingInv
  BY PagingAssumption DEF Init, PagingInv, Answers
<1>2. /\ PagingInv /\ Split!TypeOK /\ Split!Partition' /\ Split!TypeOK' /\ [Next]_vars
      => PagingInv'
  BY PagingStep
<1>3. PagingInv /\ Split!TypeOK => TypeOK
  BY DEF PagingInv, TypeOK, Answers, Splitter!TypeOK, Split!TypeOK, Splitter!Days, Split!Days
<1>4. QED
  BY <1>1, <1>2, <1>3, AlwaysSplit, PTL DEF Spec
----------------------------------------------------------------------------
(* The archive: a record's day decides on which side of Before it lies.       *)

\* A set of naturals that is not empty has a least element.
LEMMA LeastNatural ==
  ASSUME NEW T \in SUBSET Nat, T # {}
  PROVE  \E x \in T : \A y \in T : x <= y
<1>1. \E R : IsWellFoundedOn(R, Nat) /\ \A x, y \in Nat : x < y => <<x, y>> \in R
  <2>1. \A x, y \in Nat : x < y => <<x, y>> \in OpToRel(<, Nat)
    BY DEF OpToRel
  <2>2. QED
    BY <2>1, NatLessThanWellFounded, Zenon
<1>2. PICK R : IsWellFoundedOn(R, Nat) /\ \A x, y \in Nat : x < y => <<x, y>> \in R
  BY <1>1
<1>3. IsWellFoundedOn(R, Nat) /\ T \subseteq Nat /\ T # {}
  BY <1>2
<1>4. PICK x \in T : \A y \in T : ~ (<<y, x>> \in R)
  BY <1>3, WFMin, Zenon
<1>5. ASSUME NEW y \in T PROVE x <= y
  <2>1. x \in Nat /\ y \in Nat /\ ~(y < x)
    BY <1>2, <1>4
  <2>2. QED
    BY <2>1
<1>6. QED
  BY <1>4, <1>5

Served ==
  /\ archive \in Seq(Record)
  /\ Len(archive) <= Int32Max
  /\ InDateOrder(archive)

LEMMA ArchiveTyped ==
  ASSUME Served
  PROVE  /\ Len(archive) \in Nat
         /\ \A k \in 1..Len(archive) : archive[k] \in Record /\ archive[k].day \in Int
<1>1. Len(archive) \in Nat /\ \A k \in 1..Len(archive) : archive[k] \in Record
  BY DEF Served
<1>2. \A r \in Record : r.day \in Int
  BY DEF Record
<1>3. QED
  BY <1>1, <1>2

\* In an archive in the order of days, the records before a day come first.
LEMMA BeforeSplits ==
  ASSUME Served, NEW day \in Int
  PROVE  /\ Before(day) \in 0..Len(archive)
         /\ \A k \in 1..Len(archive) : archive[k].day < day <=> k <= Before(day)
<1> DEFINE Splits(n) == \A k \in 1..Len(archive) : archive[k].day < day <=> k <= n
           T == {k \in 1..Len(archive) : ~(archive[k].day < day)}
<1>1. Len(archive) \in Nat /\ \A k \in 1..Len(archive) : archive[k].day \in Int
  BY ArchiveTyped
<1>2. \E n \in 0..Len(archive) : Splits(n)
  <2>1. CASE T = {}
    <3>1. Len(archive) \in 0..Len(archive) /\ Splits(Len(archive))
      BY <1>1, <2>1
    <3>2. QED
      BY <3>1
  <2>2. CASE T # {}
    <3>1. T \in SUBSET Nat
      BY <1>1
    <3> HIDE DEF T
    <3>2. PICK x \in T : \A y \in T : x <= y
      BY <2>2, <3>1, LeastNatural
    <3>3. x \in 1..Len(archive) /\ ~(archive[x].day < day)
      BY <3>2 DEF T
    <3>4. ASSUME NEW k \in 1..Len(archive) PROVE archive[k].day < day <=> k <= x - 1
      <4>1. CASE k < x
        BY <1>1, <3>2, <3>3, <4>1 DEF T
      <4>2. CASE x <= k
        <5>1. archive[x].day <= archive[k].day
          BY <3>3, <4>2 DEF Served, InDateOrder
        <5>2. QED
          BY <1>1, <3>3, <4>2, <5>1
      <4>3. QED
        BY <1>1, <3>3, <4>1, <4>2
    <3>5. x - 1 \in 0..Len(archive) /\ Splits(x - 1)
      BY <1>1, <3>3, <3>4
    <3> HIDE DEF Splits
    <3>6. QED
      BY <3>5
  <2>3. QED
    BY <2>1, <2>2
<1>3. QED
  BY <1>2 DEF Before

LEMMA BeforeGrows ==
  ASSUME Served, NEW from \in Int, NEW to \in Int, from <= to
  PROVE  Before(from) <= Before(to)
<1> SUFFICES ASSUME Before(to) < Before(from) PROVE FALSE
  BY BeforeSplits DEF Served
<1> DEFINE k == Before(from)
<1>0. /\ Before(from) \in 0..Len(archive) /\ Before(to) \in 0..Len(archive)
      /\ Len(archive) \in Nat
  BY BeforeSplits, ArchiveTyped
<1>1. k \in 1..Len(archive) /\ archive[k].day \in Int
  BY <1>0, ArchiveTyped
<1>2. archive[k].day < from /\ ~(archive[k].day < to)
  <2>1. k <= Before(from) /\ ~(k <= Before(to)) /\ Before(to) \in Int /\ Before(from) \in Int
    BY <1>0
  <2> HIDE DEF k
  <2>2. QED
    BY <1>1, <2>1, BeforeSplits
<1>3. QED
  BY <1>1, <1>2

\* Between is what its comment says: of all records, those of the days asked
\* for, and of those all.
LEMMA BetweenSelects ==
  ASSUME Served, NEW from \in Int, NEW to \in Int, from <= to
  PROVE  /\ Len(Between(from, to)) = Before(to + 1) - Before(from)
         /\ Before(from) <= Before(to + 1)
         /\ \A k \in 1..Len(archive) :
               archive[k].day \in from..to <=> k \in (Before(from) + 1)..Before(to + 1)
         /\ \A k \in 1..Len(Between(from, to)) :
               Between(from, to)[k] = archive[Before(from) + k]
<1>1. /\ Before(from) \in 0..Len(archive) /\ Before(to + 1) \in 0..Len(archive)
      /\ Before(from) <= Before(to + 1) /\ Len(archive) \in Nat
  <2>1. to + 1 \in Int /\ from <= to + 1
    OBVIOUS
  <2>2. QED
    BY <2>1, BeforeSplits, BeforeGrows, ArchiveTyped
<1>2. ASSUME NEW k \in 1..Len(archive)
      PROVE  archive[k].day \in from..to <=> k \in (Before(from) + 1)..Before(to + 1)
  <2>1. archive[k].day \in Int /\ to + 1 \in Int
    BY ArchiveTyped
  <2>2. /\ archive[k].day < from <=> k <= Before(from)
        /\ archive[k].day < to + 1 <=> k <= Before(to + 1)
    BY <2>1, BeforeSplits
  <2>3. QED
    BY <1>1, <2>1, <2>2
<1>3. \A k \in (Before(from) + 1)..Before(to + 1) : archive[k] \in Record
  BY <1>1, ArchiveTyped
<1>4. /\ Len(Between(from, to)) = Before(to + 1) - Before(from)
      /\ \A k \in 1..(Before(to + 1) - Before(from)) :
            Between(from, to)[k] = archive[Before(from) + k]
  <2> DEFINE a == Before(from)
             b == Before(to + 1)
  <2>1. a \in Nat /\ b \in Nat /\ a <= b /\ \A k \in (a + 1)..b : archive[k] \in Record
    BY <1>1, <1>3
  <2>2. Between(from, to) = SubSeq(archive, a + 1, b)
    BY DEF Between
  <2> HIDE DEF a, b
  <2>3. /\ Len(SubSeq(archive, a + 1, b)) = b - a
        /\ \A k \in 1..(b - a) : SubSeq(archive, a + 1, b)[k] = archive[a + k]
    BY <2>1, SubSeqProperties
  <2>4. QED
    BY <2>2, <2>3 DEF a, b
<1>5. QED
  BY <1>1, <1>2, <1>4

\* A page of a chunk is a part of the archive.
LEMMA PageOfArchive ==
  ASSUME Served, NEW from \in Int, NEW to \in Int, from <= to,
         NEW i \in 1..Len(Between(from, to)), NEW j \in 1..Len(Between(from, to))
  PROVE  SubSeq(Between(from, to), i, j) = SubSeq(archive, Before(from) + i, Before(from) + j)
<1> DEFINE a == Before(from) + 1
           b == Before(to + 1)
<1>1. /\ Before(from) \in 0..Len(archive) /\ b \in 0..Len(archive)
      /\ Len(Between(from, to)) = b - Before(from)
  <2>1. to + 1 \in Int
    OBVIOUS
  <2>2. QED
    BY <2>1, BeforeSplits, BetweenSelects
<1>2. /\ a \in 1..Len(archive) /\ b \in 1..Len(archive)
      /\ i \in 1..(b - a + 1) /\ j \in 1..(b - a + 1)
      /\ archive \in Seq(Record)
  BY <1>1, ArchiveTyped DEF Served
<1>3. Between(from, to) = SubSeq(archive, a, b)
  BY DEF Between
<1>4. a + i - 1 = Before(from) + i /\ a + j - 1 = Before(from) + j
  BY <1>1
<1> HIDE DEF a, b
<1>5. SubSeq(SubSeq(archive, a, b), i, j) = SubSeq(archive, a + i - 1, a + j - 1)
  BY <1>2, SubSeqOfSubSeq
<1>6. QED
  BY <1>3, <1>4, <1>5
----------------------------------------------------------------------------
(* An honest server.                                                          *)

\* What has been read when the page at current_offset is next: everything from
\* start on up to that page.
SoFar == SubSeq(archive, Before(start) + 1, Before(ranges[chunk][1]) + current_offset - 1)

Asking ==
  phase = "ask" => /\ start <= ranges[chunk][1]
                   /\ current_offset = 1 \/ current_offset <= Len(ChunkData)

Gathered ==
  /\ phase = "split" => all_records = << >>
  /\ params.include_metadata =>
       /\ phase = "ask" => all_records = SoFar
       /\ answer = "records" => all_records = Between(start, end)

HonestInv == honest => answer # "ParseError" /\ Asking /\ Gathered

\* A step leaves the archive alone, so what it held of a day it holds still.
LEMMA SameArchive ==
  ASSUME archive' = archive
  PROVE  /\ SoFar' = SubSeq(archive, Before(start') + 1,
                            Before(ranges'[chunk'][1]) + current_offset' - 1)
         /\ Between(start, end)' = Between(start', end')
         /\ ChunkData' = Between(ranges'[chunk'][1], ranges'[chunk'][2])
BY DEF SoFar, ChunkData, Between, Before

\* The chunk that is being read, in the partition of the dates.
LEMMA TheChunk ==
  ASSUME PagingInv, Split!TypeOK, Split!Partition, phase = "ask"
  PROVE  /\ chunk \in 1..Len(ranges) /\ Len(ranges) \in Nat
         /\ ranges[chunk][1] \in Int /\ ranges[chunk][2] \in Int
         /\ start \in Int /\ end \in Int
         /\ ranges[chunk][1] <= ranges[chunk][2]
         /\ chunk = Len(ranges) => ranges[chunk][2] = end
         /\ chunk < Len(ranges) => ranges[chunk + 1][1] = ranges[chunk][2] + 1
<1>1. chunk \in 1..Len(ranges) /\ Len(ranges) \in Nat /\ status = "done"
      /\ ranges \in Seq(Split!Days \X Split!Days) /\ start \in Split!Days /\ end \in Split!Days
  BY DEF PagingInv, Split!TypeOK
<1>2. Split!Days \subseteq Int
  BY SplitAssumption DEF Split!Days, Split!CalendarAssumption
<1>3. ranges[chunk] \in Split!Days \X Split!Days
  BY <1>1
<1>4. ranges[chunk][1] \in Int /\ ranges[chunk][2] \in Int
  BY <1>2, <1>3
<1>5. /\ ranges[chunk][1] <= ranges[chunk][2]
      /\ ranges[Len(ranges)][2] = end
      /\ \A k \in 1..Len(ranges) : k > 1 => ranges[k][1] = ranges[k - 1][2] + 1
  BY <1>1 DEF Split!Partition
<1>6. chunk < Len(ranges) => ranges[chunk + 1][1] = ranges[chunk][2] + 1
  <2>1. chunk < Len(ranges) => chunk + 1 \in 1..Len(ranges) /\ chunk + 1 > 1 /\ (chunk + 1) - 1 = chunk
    BY <1>1
  <2>2. QED
    BY <1>5, <2>1
<1>7. QED
  BY <1>1, <1>2, <1>4, <1>5, <1>6

LEMMA LimitIsPositive ==
  ASSUME PagingInv, Asked >= 1
  PROVE  Lesser(Asked, PageCap) \in Nat \ {0}
<1>1. Asked \in Int
  <2>1. params.limit \in Limits \cup {NoLimit}
    BY DEF PagingInv
  <2>2. Limits \subseteq Int /\ DefaultLimit \in Int
    BY PagingAssumption
  <2>3. QED
    BY <2>1, <2>2 DEF Asked
<1>2. QED
  BY <1>1, PagingAssumption DEF Lesser

\* What the client makes of the metadata of an honest server: there is more
\* exactly when there is, and then the next page begins where this one ended.
LEMMA HonestNumbers ==
  ASSUME NEW limit \in Nat \ {0}, current_offset \in Nat \ {0},
         Len(ChunkData) \in Nat, Len(ChunkData) <= Int32Max,
         ChunkData # << >> <=> Len(ChunkData) # 0,
         current_offset = 1 \/ current_offset <= Len(ChunkData)
  PROVE  LET m == HonestMetadata(limit)
         IN  /\ HasMore(m) => /\ current_offset + limit <= Len(ChunkData)
                              /\ NextOffset(m) = current_offset + limit
             /\ params.include_metadata /\ ~HasMore(m)
                  => current_offset + limit > Len(ChunkData)
<1> DEFINE m == HonestMetadata(limit)
<1>1. CASE params.include_metadata /\ ChunkData # << >>
  <2>1. m.offset = current_offset /\ m.count = Len(ChunkData) /\ m.limit = limit
    BY <1>1 DEF HonestMetadata
  <2>2. Greater(m.offset, 1) = current_offset /\ Greater(m.limit, 0) = limit
    BY <2>1 DEF Greater
  <2> HIDE DEF m
  <2>3. HasMore(m) <=> current_offset + limit <= Len(ChunkData)
    BY <2>1, <2>2 DEF HasMore
  <2>4. HasMore(m) => NextOffset(m) = current_offset + limit
    BY <2>2, <2>3, PagingAssumption DEF NextOffset, Greater, Lesser
  <2>5. QED
    BY <2>3, <2>4 DEF m
<1>2. CASE ~(params.include_metadata /\ ChunkData # << >>)
  <2>1. m.offset = 0 /\ m.count = 0 /\ m.limit = 25
    BY <1>2 DEF HonestMetadata, NoMetadata
  <2> HIDE DEF m
  <2>2. ~HasMore(m)
    BY <2>1 DEF HasMore, Greater
  <2>3. params.include_metadata => current_offset + limit > Len(ChunkData)
    BY <1>2
  <2>4. QED
    BY <2>2, <2>3 DEF m
<1>3. QED
  BY <1>1, <1>2

\* What an honest page adds to what has been read.
LEMMA HonestRecords ==
  ASSUME Served, NEW limit \in Nat \ {0}, current_offset \in Nat \ {0},
         start \in Int, ranges[chunk][1] \in Int, ranges[chunk][2] \in Int,
         start <= ranges[chunk][1], ranges[chunk][1] <= ranges[chunk][2],
         current_offset = 1 \/ current_offset <= Len(ChunkData)
  PROVE  LET n    == Len(ChunkData)
             read == Lesser(current_offset + limit - 1, n)
         IN  /\ n \in Nat /\ n <= Int32Max
             /\ ChunkData # << >> <=> n # 0
             /\ Before(ranges[chunk][1]) + n = Before(ranges[chunk][2] + 1)
             /\ current_offset + limit <= n => HonestPage(limit) # << >>
             /\ SoFar \o HonestPage(limit)
                  = SubSeq(archive, Before(start) + 1, Before(ranges[chunk][1]) + read)
<1> DEFINE first == ranges[chunk][1]
           last == ranges[chunk][2]
           n == Len(ChunkData)
           read == Lesser(current_offset + limit - 1, n)
           a == Before(start)
           b == Before(first)
           c == Before(last + 1)
<1>1. /\ a \in 0..Len(archive) /\ b \in 0..Len(archive) /\ c \in 0..Len(archive)
      /\ a <= b /\ b <= c /\ Len(archive) \in Nat
  <2>1. last + 1 \in Int /\ first <= last + 1
    OBVIOUS
  <2>2. QED
    BY <2>1, BeforeSplits, BeforeGrows, ArchiveTyped
<1>2. n = c - b
  BY BetweenSelects DEF ChunkData
<1>3. archive \in Seq(Record) /\ Len(archive) <= Int32Max
  BY DEF Served
<1>4. ChunkData = SubSeq(archive, b + 1, c)
  BY DEF ChunkData, Between
<1>5. HonestPage(limit) = SubSeq(ChunkData, current_offset, read)
  BY DEF HonestPage
<1>6. SoFar = SubSeq(archive, a + 1, b + current_offset - 1)
  BY DEF SoFar
<1>7. Int32Max \in Nat
  BY PagingAssumption
<1>8. n \in Nat /\ n <= Int32Max
  BY <1>1, <1>2, <1>3, <1>7
<1>9. ASSUME NEW i \in 1..n, NEW j \in 1..n
      PROVE  SubSeq(ChunkData, i, j) = SubSeq(archive, b + i, b + j)
  BY PageOfArchive DEF ChunkData
<1> HIDE DEF first, last, n, a, b, c
<1>10. ChunkData # << >> <=> n # 0
  <2>1. ChunkData \in Seq(Record)
    <3>1. \A k \in (b + 1)..c : archive[k] \in Record
      BY <1>1, ArchiveTyped
    <3>2. QED
      BY <1>1, <1>4, <3>1, SubSeqProperties
  <2>2. QED
    BY <2>1, EmptySeq DEF n
<1>11. read \in 0..n /\ (n > 0 => read \in 1..n) /\ read >= current_offset - 1
  BY <1>8 DEF Lesser, n
<1> HIDE DEF read
<1>12. HonestPage(limit) = SubSeq(archive, b + current_offset, b + read)
  <2>1. CASE n = 0
    <3>1. current_offset = 1 /\ read = 0
      BY <1>8, <1>11, <2>1 DEF n
    <3>2. SubSeq(ChunkData, current_offset, read) = << >>
      BY <3>1, SubSeqEmpty
    <3>3. SubSeq(archive, b + current_offset, b + read) = << >>
      BY <1>1, <3>1, SubSeqEmpty
    <3>4. QED
      BY <1>5, <3>2, <3>3
  <2>2. CASE n > 0
    <3>1. current_offset \in 1..n /\ read \in 1..n
      BY <1>8, <1>11, <2>2 DEF n
    <3>2. QED
      BY <1>5, <1>9, <3>1
  <2>3. QED
    BY <1>8, <2>1, <2>2
<1>13. current_offset + limit <= n => HonestPage(limit) # << >>
  <2> SUFFICES ASSUME current_offset + limit <= n PROVE HonestPage(limit) # << >>
    OBVIOUS
  <2>1. read = current_offset + limit - 1
    BY <1>8 DEF read, Lesser
  <2>2. b + current_offset <= b + read
    BY <1>1, <2>1
  <2>3. \A k \in (b + current_offset)..(b + read) : archive[k] \in Record
    BY <1>1, <1>2, <1>8, <2>1, ArchiveTyped
  <2>4. Len(HonestPage(limit)) = (b + read) - (b + current_offset) + 1
    BY <1>1, <1>11, <1>12, <2>2, <2>3, SubSeqProperties, SMTT(30)
  <2>5. Len(HonestPage(limit)) # 0
    BY <1>1, <1>11, <2>2, <2>4
  <2>6. QED
    BY <2>5
<1>14. SoFar \o HonestPage(limit) = SubSeq(archive, a + 1, b + read)
  <2> DEFINE k == b + current_offset - 1
             z == b + read
  <2>1. /\ a + 1 \in 1..(Len(archive) + 1)
        /\ k \in ((a + 1) - 1)..Len(archive)
        /\ z \in k..Len(archive)
        /\ k + 1 = b + current_offset
    BY <1>1, <1>2, <1>8, <1>11 DEF n
  <2> HIDE DEF k, z
  <2>2. SubSeq(archive, a + 1, k) \o SubSeq(archive, k + 1, z) = SubSeq(archive, a + 1, z)
    BY <1>3, <2>1, ConcatAdjacentSubSeq
  <2>3. QED
    BY <1>6, <1>12, <2>1, <2>2 DEF k, z
<1>15. QED
  BY <1>1, <1>2, <1>8, <1>10, <1>13, <1>14 DEF first, last, n, read, a, b, c

\* A page of an honest server: it is never taken for one that does not advance,
\* and what has been read grows by it up to the next page, chunk, or the end.
LEMMA HonestPageStep ==
  ASSUME PagingInv, Split!TypeOK, Split!Partition, Served, HonestInv, honest, GetData
  PROVE  HonestInv'
<1> DEFINE limit == Lesser(Asked, PageCap)
           m == HonestMetadata(limit)
           results == HonestPage(limit)
           n == Len(ChunkData)
           first == ranges[chunk][1]
           last == ranges[chunk][2]
           a == Before(start)
           read == Lesser(current_offset + limit - 1, n)
<1>1. Page(m, results) /\ Asked >= 1
  BY DEF GetData
<1>2. /\ phase = "ask" /\ answer = "none" /\ current_offset \in Nat \ {0}
      /\ start' = start /\ end' = end /\ ranges' = ranges
      /\ params' = params /\ archive' = archive /\ honest' = honest
      /\ limit \in Nat \ {0}
  BY <1>1, LimitIsPositive, PagingAssumption DEF Page, PagingInv, splitting, server
<1>3. params.include_metadata => all_records = SoFar
  BY <1>2 DEF HonestInv, Asking, Gathered
<1>4. /\ chunk \in 1..Len(ranges) /\ Len(ranges) \in Nat
      /\ first \in Int /\ last \in Int /\ start \in Int /\ end \in Int /\ first <= last
      /\ chunk = Len(ranges) => last = end
      /\ chunk < Len(ranges) => ranges[chunk + 1][1] = last + 1
  BY <1>2, TheChunk
<1>5. start <= first /\ (current_offset = 1 \/ current_offset <= n)
  BY <1>2 DEF HonestInv, Asking
<1> HIDE DEF limit
<1>6. /\ n \in Nat /\ n <= Int32Max
      /\ ChunkData # << >> <=> n # 0
      /\ Before(first) + n = Before(last + 1)
      /\ current_offset + limit <= n => results # << >>
      /\ SoFar \o results = SubSeq(archive, a + 1, Before(first) + read)
  BY <1>2, <1>4, <1>5, HonestRecords
<1>7. /\ HasMore(m) => current_offset + limit <= n /\ NextOffset(m) = current_offset + limit
      /\ params.include_metadata /\ ~HasMore(m) => current_offset + limit > n
  BY <1>2, <1>5, <1>6, HonestNumbers
<1> HIDE DEF m, results, n, first, last, a, read
<1>8. ~DidNotAdvance(m)
  BY <1>2, <1>7 DEF DidNotAdvance
<1>9. all_records' = all_records \o results
  BY <1>1, <1>2, <1>8 DEF Page, Stuck, Collect
<1>10. params.include_metadata =>
         all_records' = SubSeq(archive, a + 1, Before(first) + read)
  BY <1>3, <1>6, <1>9
<1>11. GoesOn(m, results) <=> HasMore(m)
  BY <1>2, <1>6, <1>7 DEF GoesOn
<1>12. CASE HasMore(m)
  <2>1. /\ current_offset' = current_offset + limit
        /\ chunk' = chunk /\ phase' = "ask" /\ answer' = "none"
    BY <1>1, <1>2, <1>7, <1>8, <1>11, <1>12 DEF Page, Stuck, TurnPage
  <2>2. ChunkData' = ChunkData /\ ranges'[chunk'][1] = first
    BY <1>2, <2>1, SameArchive DEF ChunkData, first
  <2>3. Asking'
    BY <1>2, <1>5, <1>7, <1>12, <2>1, <2>2 DEF Asking, n, first
  <2>4. SoFar' = SubSeq(archive, a + 1, Before(first) + (current_offset + limit) - 1)
    BY <1>2, <2>1, <2>2, SameArchive DEF a
  <2>5. read = current_offset + limit - 1
    BY <1>2, <1>6, <1>7, <1>12 DEF read, Lesser
  <2>6. Before(first) + (current_offset + limit) - 1 = Before(first) + read
    <3>1. Before(first) \in Int
      BY <1>4, BeforeSplits, ArchiveTyped
    <3>2. QED
      BY <1>2, <2>5, <3>1
  <2>7. Gathered'
    BY <1>2, <1>10, <2>1, <2>4, <2>6 DEF Gathered
  <2>8. QED
    BY <1>2, <2>1, <2>3, <2>7 DEF HonestInv
<1>13. CASE ~HasMore(m)
  <2>1. NextChunk
    BY <1>1, <1>8, <1>11, <1>13 DEF Page, Stuck
  <2>2. params.include_metadata =>
          all_records' = SubSeq(archive, a + 1, Before(last + 1))
    <3> SUFFICES ASSUME params.include_metadata
                 PROVE  Before(first) + read = Before(last + 1)
      BY <1>10
    <3>1. read = n
      BY <1>2, <1>6, <1>7, <1>13 DEF read, Lesser
    <3>2. QED
      BY <1>6, <3>1
  <2>3. CASE chunk < Len(ranges)
    <3>1. chunk' = chunk + 1 /\ current_offset' = 1 /\ phase' = "ask" /\ answer' = "none"
      BY <1>2, <2>1, <2>3 DEF NextChunk
    <3>2. ranges'[chunk'][1] = last + 1
      BY <1>2, <1>4, <2>3, <3>1
    <3>3. Asking'
      BY <1>2, <1>4, <1>5, <3>1, <3>2 DEF Asking
    <3>4. SoFar' = SubSeq(archive, a + 1, Before(last + 1) + 1 - 1)
      BY <1>2, <3>1, <3>2, SameArchive DEF a
    <3>5. Before(last + 1) + 1 - 1 = Before(last + 1)
      <4>1. last + 1 \in Int
        BY <1>4
      <4>2. QED
        BY <4>1, BeforeSplits, ArchiveTyped
    <3>6. Gathered'
      BY <1>2, <2>2, <3>1, <3>4, <3>5 DEF Gathered
    <3>7. QED
      BY <1>2, <3>1, <3>3, <3>6 DEF HonestInv
  <2>4. CASE ~(chunk < Len(ranges))
    <3>1. phase' = "answered" /\ answer' = "records" /\ last = end
      BY <1>4, <2>1, <2>4 DEF NextChunk, Answer
    <3>2. Between(start, end)' = SubSeq(archive, a + 1, Before(last + 1))
      BY <1>2, <3>1, SameArchive DEF Between, a
    <3>3. Gathered'
      BY <1>2, <2>2, <3>1, <3>2 DEF Gathered
    <3>4. QED
      BY <3>1, <3>3 DEF HonestInv, Asking
  <2>5. QED
    BY <2>3, <2>4
<1>14. QED
  BY <1>12, <1>13

\* The splitting is over: the first page of the first chunk is next.
LEMMA SplitDone ==
  ASSUME PagingInv, Served, HonestInv, SplitDates, status' = "done",
         Split!TypeOK', Split!Partition'
  PROVE  HonestInv'
<1>1. /\ phase = "split" /\ phase' = "ask" /\ chunk' = 1 /\ current_offset' = 1
      /\ answer' = answer /\ answer # "records" /\ params' = params
      /\ all_records' = all_records /\ archive' = archive /\ honest' = honest
  BY DEF SplitDates, PagingInv, server
<1>2. ranges'[1][1] = start' /\ start' \in Int
  <2>1. start' \in Split!Days
    BY DEF Split!TypeOK
  <2>2. QED
    BY <2>1, SplitAssumption DEF Split!Partition, Split!Days, Split!CalendarAssumption
<1>3. Before(start') \in Nat
  BY <1>2, BeforeSplits, ArchiveTyped
<1>4. SoFar' = << >>
  <2> DEFINE a == Before(start')
  <2>1. SoFar' = SubSeq(archive, a + 1, a + 1 - 1)
    BY <1>1, <1>2, SameArchive
  <2>2. a + 1 \in Int /\ a + 1 - 1 \in Int /\ a + 1 - 1 < a + 1
    BY <1>3
  <2> HIDE DEF a
  <2>3. QED
    BY <2>1, <2>2, SubSeqEmpty
<1>5. honest => all_records = << >> /\ answer # "ParseError"
  BY <1>1 DEF HonestInv, Gathered
<1>6. QED
  BY <1>1, <1>2, <1>4, <1>5 DEF HonestInv, Asking, Gathered

LEMMA HonestStep ==
  ASSUME PagingInv, Split!TypeOK, Split!Partition, Split!TypeOK', Split!Partition',
         Served, HonestInv, [Next]_vars
  PROVE  Served' /\ HonestInv'
<1>1. archive' = archive /\ honest' = honest
  BY DEF Next, Work, Call, SplitDates, GetData, Page, GetDataFails, Return, vars, server
<1>2. Served'
  BY <1>1 DEF Served, InDateOrder
<1> SUFFICES HonestInv'
  BY <1>2
<1>3. ASSUME NEW from \in Dates, NEW to \in Dates, NEW limit \in Limits \cup {NoLimit},
             NEW include \in WithMetadata, Call(from, to, limit, include)
      PROVE  HonestInv'
  <2>1. /\ all_records' = << >>
        /\ \/ phase' = "split" /\ answer' = "none"
           \/ phase' = "answered" /\ answer' = "InvalidRequest"
    BY <1>3 DEF Call, Answer, PagingInv, Answers
  <2>2. QED
    BY <2>1 DEF HonestInv, Asking, Gathered
<1>4. CASE SplitDates
  <2>1. /\ status' \in {"done", "out_of_range", "splitting"}
        /\ phase = "split" /\ all_records' = all_records
    BY <1>4 DEF SplitDates, Splitter!SplitOn, Splitter!LastChunk, Splitter!MoreChunks
  <2>2. CASE status' = "done"
    BY <1>4, <2>2, SplitDone
  <2>3. CASE status' = "out_of_range"
    <3>1. phase' = "answered" /\ answer' = "InvalidRequest"
      BY <1>4, <2>3 DEF SplitDates, Answer
    <3>2. QED
      BY <3>1 DEF HonestInv, Asking, Gathered
  <2>4. CASE status' = "splitting"
    <3>1. phase' = "split" /\ answer' = answer /\ answer = "none"
      BY <1>4, <2>1, <2>4 DEF SplitDates, PagingInv
    <3>2. QED
      BY <1>1, <2>1, <3>1 DEF HonestInv, Asking, Gathered
  <2>5. QED
    BY <2>1, <2>2, <2>3, <2>4
<1>5. CASE GetData
  <2>1. CASE honest
    BY <1>5, <2>1, HonestPageStep
  <2>2. CASE ~honest
    BY <1>1, <2>2 DEF HonestInv
  <2>3. QED
    BY <2>1, <2>2
<1>6. CASE GetDataFails
  <2>1. phase' = "answered" /\ answer' = "GetDataError"
    BY <1>6 DEF GetDataFails, Answer
  <2>2. QED
    BY <2>1 DEF HonestInv, Asking, Gathered
<1>7. CASE Return
  <2>1. phase' = "idle" /\ answer' = "none"
    BY <1>7 DEF Return
  <2>2. QED
    BY <2>1 DEF HonestInv, Asking, Gathered
<1>8. CASE UNCHANGED vars
  <2>1. UNCHANGED <<start, end, ranges, phase, params, chunk, current_offset, all_records,
                    answer, archive, honest>>
    BY <1>8 DEF vars, splitting, server
  <2>2. SoFar' = SoFar /\ ChunkData' = ChunkData /\ Between(start, end)' = Between(start, end)
    BY <2>1, SameArchive DEF SoFar, ChunkData
  <2>3. QED
    BY <2>1, <2>2 DEF HonestInv, Asking, Gathered
<1>9. QED
  BY <1>3, <1>4, <1>5, <1>6, <1>7, <1>8 DEF Next, Work

LEMMA AlwaysHonest == Spec => [](PagingInv /\ HonestInv)
<1>1. Init => PagingInv /\ Served /\ HonestInv
  <2> SUFFICES ASSUME Init PROVE PagingInv /\ Served /\ HonestInv
    OBVIOUS
  <2>1. Served
    <3>1. CASE archive \in Archives
      BY <3>1, PagingAssumption DEF Served
    <3>2. CASE archive = << >>
      BY <3>2, PagingAssumption DEF Served, InDateOrder
    <3>3. QED
      BY <3>1, <3>2 DEF Init
  <2>2. PagingInv
    BY PagingAssumption DEF Init, PagingInv, Answers
  <2>3. HonestInv
    BY DEF Init, HonestInv, Asking, Gathered
  <2>4. QED
    BY <2>1, <2>2, <2>3
<1>2. /\ PagingInv /\ Split!TypeOK /\ Split!Partition /\ Split!TypeOK' /\ Split!Partition'
      /\ Served /\ HonestInv /\ [Next]_vars
      => PagingInv' /\ Served' /\ HonestInv'
  BY PagingStep, HonestStep
<1>3. QED
  BY <1>1, <1>2, AlwaysSplit, PTL DEF Spec

\* From a server that is honest and sends metadata, an answer with records is
\* all of them, each once and in order, for every archive, limit, page size and
\* split of the dates (get_data_all, has_more, next_offset).
THEOREM AnswersAreComplete == Spec => []CompleteAndOrdered
<1>1. HonestInv => CompleteAndOrdered
  BY DEF HonestInv, Gathered, CompleteAndOrdered
<1>2. QED
  BY <1>1, AlwaysHonest, PTL

\* An honest server, whether or not it sends metadata, is never asked for an
\* empty page and never taken for one whose pages do not advance.
THEOREM NoPageIsWasted == Spec => []NoWastedPage
<1>1. PagingInv /\ HonestInv => NoWastedPage
  BY DEF PagingInv, HonestInv, Asking, NoWastedPage
<1>2. QED
  BY <1>1, AlwaysHonest, PTL
=============================================================================
