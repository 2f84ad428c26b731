----------------------------- MODULE GetDataAll ------------------------------
(* ncei::CDOClient::get_data_all (src/api/cdo_client.cpp): the dates are split *)
(* by module DateRange, and every chunk is read page by page until the         *)
(* metadata that the server sends with a page say that there is no more.       *)
(*                                                                             *)
(* get_data is one step, a page asked for and what came back: how it paces and *)
(* retries is module CdoClient's business.  The server is not this program's.  *)
(* An honest one answers from its archive and may send less than it was asked  *)
(* for, as long as its metadata say so; another one sends any metadata at all. *)
(*                                                                             *)
(* An operator Name_Flaw is Name with the flaw that its suffix tells, for the  *)
(* model checker to put in Name's place.                                       *)
EXTENDS IntegerBounds, Sequences

CONSTANTS
  FirstDay, LastDay, Malformed, Dates,  \* DateRange
  MaxDays,       \* the default max_days of split_date_range
  Archives,      \* what a server may hold: sequences of Record
  Limits,        \* the limits that callers pass
  NoLimit,       \* an empty limit
  DefaultLimit,  \* the 1000 asked for when there is none
  PageCap,       \* the most that the server sends at a time
  WithMetadata,  \* the include_metadata that callers pass
  WildNumbers,   \* what the metadata of a server that is not honest may hold
  Int32Max

Record == [day : Int, id : Nat]

\* The server sends its records in the order of their days.
InDateOrder(records) ==
  \A i, j \in 1..Len(records) : i <= j => records[i].day <= records[j].day

ASSUME PagingAssumption ==
  /\ MaxDays \in Nat
  /\ Limits \subseteq Int
  /\ NoLimit \notin Int
  /\ DefaultLimit \in Nat \ {0}
  /\ PageCap \in Nat \ {0}
  /\ WithMetadata \subseteq BOOLEAN
  /\ Int32Max \in Nat \ {0}
  /\ WildNumbers \subseteq -1..Int32Max
  /\ \A records \in Archives :
        records \in Seq(Record) /\ Len(records) <= Int32Max /\ InDateOrder(records)

VARIABLES
  status, start, end, max_days, chunk_start, ranges,  \* DateRange
  phase,           \* "idle", "split", "ask" or "answered"
  params,          \* the caller's limit and include_metadata
  chunk,           \* the index of the chunk that is being read
  current_offset,
  all_records,
  answer,          \* "none", "records", or the error
  archive,         \* the server's: its records in the order in which it sends them
  honest           \* whether it is an honest one

Splitter == INSTANCE DateRange WITH ChunkSizes <- {MaxDays}

ASSUME SplitterAssumption == Splitter!CalendarAssumption

splitting == <<status, start, end, max_days, chunk_start, ranges>>
server == <<archive, honest>>
vars == <<splitting, phase, params, chunk, current_offset, all_records, answer, server>>

Init ==
  /\ Splitter!Init
  /\ phase = "idle"
  /\ params = [limit |-> NoLimit, include_metadata |-> TRUE]
  /\ chunk = 0
  /\ current_offset = 0
  /\ all_records = << >>
  /\ answer = "none"
  /\ \/ honest = TRUE /\ archive \in Archives
     \/ honest = FALSE /\ archive = << >>
----------------------------------------------------------------------------
(* The server.                                                                *)
NoMetadata == [offset |-> 0, count |-> 0, limit |-> 25]  \* ResultSetMetadata{}

\* How many records are of an earlier day: they come before the others.
Before(day) ==
  CHOOSE n \in 0..Len(archive) :
     \A k \in 1..Len(archive) : archive[k].day < day <=> k <= n

\* The records of the days from one to another.
Between(from, to) == SubSeq(archive, Before(from) + 1, Before(to + 1))

ChunkData == Between(ranges[chunk][1], ranges[chunk][2])

Asked == IF params.limit = NoLimit THEN DefaultLimit ELSE params.limit

HonestPage(limit) ==
  SubSeq(ChunkData, current_offset, Lesser(current_offset + limit - 1, Len(ChunkData)))

\* With nothing to send the service answers {}, without any metadata.
HonestMetadata(limit) ==
  IF params.include_metadata /\ ChunkData # << >>
    THEN [offset |-> current_offset, count |-> Len(ChunkData), limit |-> limit]
    ELSE NoMetadata
----------------------------------------------------------------------------
(* CDOResponse.                                                               *)
HasMore_Strict(m) == m.offset >= 0 /\ m.limit > 0 /\ Greater(m.offset, 1) + m.limit < m.count
HasMore_OneMore(m) == m.offset >= 0 /\ m.limit > 0 /\ Greater(m.offset, 1) + m.limit <= m.count + 1
HasMore(m) ==
  /\ m.offset >= 0
  /\ m.limit > 0
  /\ Greater(m.offset, 1) + m.limit <= m.count

NextOffset(m) ==
  Greater(1, Lesser(Int32Max, Greater(m.offset, 1) + Greater(m.limit, 0)))
----------------------------------------------------------------------------
(* get_data_all.                                                              *)
Answer(what) == phase' = "answered" /\ answer' = what

Call(from, to, limit, include) ==
  /\ phase = "idle"
  /\ Splitter!Split(from, to, MaxDays)
  /\ params' = [limit |-> limit, include_metadata |-> include]
  /\ all_records' = << >>
  /\ IF status' = "splitting"
       THEN phase' = "split" /\ UNCHANGED answer
       ELSE Answer("InvalidRequest")
  /\ UNCHANGED <<chunk, current_offset, server>>

SplitDates ==
  /\ phase = "split"
  /\ Splitter!SplitOn
  /\ CASE status' = "done" -> phase' = "ask" /\ chunk' = 1 /\ current_offset' = 1
                              /\ UNCHANGED answer
       [] status' = "out_of_range" -> Answer("InvalidRequest")
                                      /\ UNCHANGED <<chunk, current_offset>>
       [] OTHER -> UNCHANGED <<phase, answer, chunk, current_offset>>
  /\ UNCHANGED <<params, all_records, server>>

GetDataFails ==
  /\ phase = "ask"
  /\ Answer("GetDataError")
  /\ UNCHANGED <<splitting, params, chunk, current_offset, all_records, server>>

DidNotAdvance(m) == HasMore(m) /\ NextOffset(m) <= current_offset

GoesOn(m, results) ==
  HasMore(m) /\ results # << >> /\ NextOffset(m) > current_offset

TurnPage_Forgotten(m) == current_offset
TurnPage_ByLimit(m) == current_offset + Asked
TurnPage_OneBitLess(m) == 1 + ((NextOffset(m) - 1) % ((Int32Max \div 2) + 1))
TurnPage(m) == NextOffset(m)

\* Records of a server that is not honest are counted on the page they come
\* on, and not kept: nothing is promised about them.
Collect(results) == all_records' = IF honest THEN all_records \o results ELSE << >>

NextChunk ==
  IF chunk < Len(ranges)
    THEN chunk' = chunk + 1 /\ current_offset' = 1 /\ UNCHANGED <<phase, answer>>
    ELSE Answer("records") /\ UNCHANGED <<chunk, current_offset>>

Stuck(m) ==
  /\ DidNotAdvance(m)
  /\ Answer("ParseError")
  /\ UNCHANGED <<chunk, current_offset, all_records>>

Page(m, results) ==
  /\ phase = "ask"
  /\ \/ Stuck(m)
     \/ /\ ~DidNotAdvance(m)
        /\ Collect(results)
        /\ IF GoesOn(m, results)
             THEN current_offset' = TurnPage(m) /\ UNCHANGED <<chunk, phase, answer>>
             ELSE NextChunk
  /\ UNCHANGED <<splitting, params, server>>

\* A limit is passed on as it is.  Less than one record is nothing to ask for,
\* and no page comes from an honest server then.
GetData ==
  \/ /\ honest
     /\ Asked >= 1
     /\ LET limit == Lesser(Asked, PageCap)
        IN  Page(HonestMetadata(limit), HonestPage(limit))
  \/ /\ ~honest
     /\ \E m \in [offset : WildNumbers, count : WildNumbers, limit : WildNumbers],
           results \in {<< >>, <<"record">>} : Page(m, results)

\* The caller has the answer.
Return ==
  /\ phase = "answered"
  /\ phase' = "idle"
  /\ answer' = "none"
  /\ \/ Splitter!Taken
     \/ status = "idle" /\ UNCHANGED splitting
  /\ UNCHANGED <<params, chunk, current_offset, all_records, server>>

Work == SplitDates \/ GetData \/ GetDataFails

Next ==
  \/ \E from, to \in Dates, limit \in Limits \cup {NoLimit}, include \in WithMetadata :
        Call(from, to, limit, include)
  \/ Work
  \/ Return

Spec == Init /\ [][Next]_vars

\* get_data comes back, with a page or with an error.
FairSpec == Spec /\ WF_vars(Work)
----------------------------------------------------------------------------
TypeOK ==
  /\ Splitter!TypeOK
  /\ phase \in {"idle", "split", "ask", "answered"}
  /\ params \in [limit : Limits \cup {NoLimit}, include_metadata : BOOLEAN]
  /\ phase = "ask" => status = "done" /\ chunk \in 1..Len(ranges)
  /\ current_offset \in 0..Int32Max
  /\ phase = "ask" => current_offset >= 1
  /\ answer \in {"none", "records", "InvalidRequest", "GetDataError", "ParseError"}
  /\ (answer # "none") <=> (phase = "answered")

\* From a server that sends metadata, an answer with records is all of them,
\* each once and in order, whatever the limit, wherever the dates were split
\* and however little the server sends at a time (get_data_all, has_more).
CompleteAndOrdered ==
  honest /\ params.include_metadata /\ answer = "records"
    => all_records = Between(start, end)

\* The same without the condition: what the client promises, whether or not it
\* was told to leave the metadata out.
FetchesAllPages == honest /\ answer = "records" => all_records = Between(start, end)

\* An honest server is never taken for one whose pages do not advance, and is
\* never asked for a page that would be empty, at exact multiples of the limit
\* neither: every page costs a token and a unit of quota.
NoWastedPage ==
  honest => /\ answer # "ParseError"
            /\ phase = "ask" /\ current_offset > 1 => current_offset <= Len(ChunkData)

\* Whatever the server sends, each page that is asked for lies after the one
\* before it: the loop never goes back and never asks for a page twice.
PagesAdvance ==
  [][phase = "ask" /\ phase' = "ask"
       => \/ chunk' = chunk /\ current_offset' > current_offset
          \/ chunk' = chunk + 1 /\ current_offset' = 1]_vars

\* The call comes back, also from a server that always claims to have more.
CallEnds == (phase \in {"split", "ask"}) ~> (phase = "answered")
=============================================================================
