# ncei-cpp in TLA+

This directory specifies ncei-cpp: who may send a request and when, what is tried
again, how a long query is cut up and put together, how an answer comes over the
wire, and what is read in it. TLC checks the specifications on small instances,
TLAPS proves the theorems for every instance. Paths below are relative to the
repository.

## The system

ncei-cpp is a client library for the climate services of NCEI. It keeps no files
and starts no threads; its concurrency is that of the applications that share
its thread-safe parts, of the clocks, and of the servers.

| Component | State | Operations | What makes it correct |
|---|---|---|---|
| `RateLimiter` (`src/core/rate_limit.cpp`) | whole tokens, instant of the last refill, the day and its count of requests, under a mutex | `try_acquire`, `acquire`, `acquire_for`, `reset`, two observers | pace, daily quota, honest observers, bounded waits, whatever the interleaving |
| Retry loop (`include/ncei/retry.hpp`) | attempt counter, delay | `with_retry`, `RetryingClient` | bounded attempts, only retryable outcomes retried, delays in their band |
| `CDOClient::do_get` (`src/api/cdo_client.cpp`) | a limiter, a policy, a transport | quota check, token, transfer, inside the retry loop | every request sent has been paid for; quota errors are true |
| Date splitting (`src/core/date_range.cpp`) | the loop's day and the chunks made | `split_date_range`, on strings | the chunks partition the range and are as few as can be |
| Paging (`get_data_all`, `include/ncei/pagination.hpp`) | chunk, offset, records so far | one call over many requests | complete and ordered, always advancing, finite |
| `LruCache` (`include/ncei/cache.hpp`) | list and map, under a mutex | `get`, `put`, `invalidate`, `clear` | list and map in step, nothing expired returned, least recent evicted |
| `HttpClient` (`src/http/client.cpp`) | one easy handle of libcurl's, and a share in the runtime | construction, moves, destruction, `get` and two callbacks | libcurl outlives its handles; an answer is of the last response alone, its body whole and within the limit; headers go nowhere else |
| The three clients (`src/api`) | transport, policy, limiter; none once moved from | nineteen operations besides `get_data_all`: check, request, retry, status, answer | the server reads what was asked, the caller what happened |
| Errors (`src/core/error.cpp`) | none | `Error::from_response` | code, status and message are the last response's |
| `DelimitedParser` (`src/core/csv_parser.cpp`) | none | `parse`, `parse_line`, `parse_header` | two scanners agree on quotes |
| Readers (`src/models`) | none | `deserialize` of series and of data points | what the document publishes, or an error |

How they meet: `get_data_all` calls `split_date_range` and then, page by page,
`get_data`; that and the other endpoints call `do_get`; `do_get` hands
`with_retry` a function that asks the limiter's observer for quota, blocks in
`acquire` for a token, and calls `HttpClient::get`. The other two clients put
`with_retry` directly around `HttpClient::get`. A response that is not 200 goes to
`Error::from_response`, one that is to a reader, and the readers of text to the
`DelimitedParser`. The cache stands by itself; applications put answers into it.

What is hard here, and hardly tested: threads that interleave in the limiter
while two clocks run, one of which may be set back; lazy bookkeeping (refill,
midnight) that is recomputed in three places; quota, token and request that
belong to different moments; retries that must pay again; counters and
boundaries (eight bits of attempts, the last day of the calendar, offsets that
count from one, a limit on a body that is tested chunk by chunk); one handle
whose options and callbacks serve every call; objects that go in any order at the
end of the process; servers that send what they like, in any pieces.
`PROJECT.json` lists these hazards line by line.

## Modules

| Module | Models | Relation |
|---|---|---|
| `IntegerBounds` | `std::min`, `std::max`, `std::clamp` | helper |
| `TokenBucket` | what the limiter promises: a fluid bucket and a quota per day | abstract specification |
| `RateLimiter` | the limiter and the threads in it | implements `TokenBucket` |
| `Retry` | `with_retry` and the delays | |
| `RetriedGet` | what `do_get` and `fetch` of the three clients have in common: `with_retry` around `HttpClient::get` | instantiates `Retry` |
| `CdoClient` | `do_get` | extends `RetriedGet`, composes it and `RateLimiter` |
| `DateRange` | `split_date_range` on day numbers | the specification of `DateStrings` |
| `Calendar` | `parse_date`, `format_date`, `days_between`, `add_days`; the calendar of `std::chrono` | helper |
| `DateStrings` | `split_date_range` on strings | implements `DateRange` |
| `GetDataAll` | `get_data_all`, `has_more`, `next_offset`, an external server | composes `DateRange` |
| `Cache` | what a lookup may find: nothing, or what was last put, in time | abstract specification |
| `LruCache` | the cache and the clock | implements `Cache` |
| `HttpClients` | the lives of clients, easy handles and the libcurl runtime | |
| `HttpTransfer` | `HttpClient::get` and its callbacks; libcurl and an external server | on top of `HttpClients` |
| `Requests` | `detail::encode`, the query builders, and what a server reads | helper |
| `Errors` | `Error::from_response` | helper |
| `Endpoints` | the operations of the three clients | extends `RetriedGet`, composes it, `Requests` and `Errors` |
| `Numbers` | `trim`, the readers of numbers, the markers of missing values | helper |
| `Json` | values of a JSON body, and the lookups in an object | helper |
| `DelimitedParser` | the scanners for records and for fields | helper |
| `DataPoints` | one observation, from a row or from an object | helper |
| `Readers` | the readers, a row or a value a step | uses the four above |
| `*Proofs` | theorems about the module of that name; `ClientProofs` about `CdoClient`, `Requests` and `Endpoints` | extend it |
| `MC*` | constants for TLC | extend it |

Operators with a suffix (`RefilledAt_DropsRemainder`) are deliberately wrong
variants of the operator without it. The specifications do not use them; put in
its place, each makes one property fail, which shows that the property notices.

### RateLimiter

`tokens`, `last_refill`, `daily_requests_used` and `day_start` are the fields of
the class; `now` is the steady clock, `today` the day that the system clock
shows. `try_acquire` holds the mutex throughout, so an attempt is one step:
`TryGranted`, `TryQuotaRefused` or `TryEmpty`, with the check for midnight and
the refill inside. The attempts within one call of the code read each clock once
more; a reading later in the critical section is the reading of a slightly later
step, since nobody else can look in between. `acquire` and `acquire_for` hold
nothing between attempt, look at the clock and sleep, so these are steps of
their own (`pc`). `log`, `spent` and `late` are history.

The refinement maps the bucket's `level` to the whole tokens' worth of time plus
the time since the last refill, up to the brim. Whole tokens, the lazy refill and
the lazy check for midnight are details that lose and add nothing.

### Retry

A call runs `LoopHead`, then `Operated` with any outcome, then `Awake`, in turn.
The two real numbers of the policy are percentages and the delay is held as an
exact fraction, so the rounding to milliseconds is the code's. Each delay that
the random jitter can produce is a possible step. The rounding errors of
`double` itself are left out.

### RetriedGet and CdoClient

`RetriedGet` holds the variables of the loop and the errors that an attempt may end
with; `CdoClient` and `Endpoints` extend it. The variables of `CdoClient` are those of
its two parts, the loop and the limiter. `step` says
where in the retried function the thread is. The clocks may move between any
two steps, also between the grant and the sending of the request. One thread
uses the client, as `HttpClient` demands (`include/ncei/http_client.hpp`).

`do_get` asks for quota before it blocks, so that the thread never sits out the
day in `acquire`; a midnight between the two only gives more. Only a system clock
that is set back would make the earlier question worthless: the two properties
that speak of the quota say so, and are checked and proved without it.

### DateRange, Calendar and DateStrings

In `DateRange` a date is the number of its day, and a string that `parse_date`
refuses is `Malformed`. `DateStrings` has the strings: whether one has ten
characters with dashes in their places, and what `from_chars` reads in each of
the three fields. Each turn of its loop reads two dates and writes two, as in the
code; `Calendar` gives `std::chrono`'s calendar, in which year 0 and year 10000
exist, while `to_sys_days` accepts neither. The run `date_strings` shows that the
one implements the other, so that what is proved of day numbers holds of strings.

### GetDataAll

`get_data` is one step, with a page or an error as its outcome. An honest server
sends the records of its archive between the two dates, from the offset on, at
most `PageCap` of them, with metadata that say so; any other server may send any
metadata. For the latter, records are only counted on their page, so that an
endless loop would be a cycle of states.

### LruCache

`order` is `order_` with the most recently used key first, `map` is `map_`. The
iterator kept in an entry is the place of its key in `order`, which is well
defined only as long as list and map agree: that is `ListMatchesMap`. Every
operation holds the mutex throughout and is one step. A `get` that cannot copy
the value for its caller has moved the entry all the same (`HitThrows`); a `put`
that cannot allocate the entry unlinks the key again (`PutThrows`). A `put` into
a cache that is switched off does nothing, a step of no variable. `latest` and
`since` are history: what was last put under a key, and which keys were used
since its own last use.

The abstract `Cache` may forget anything at any time, so the refinement says
that no lookup is stale; `RecentlyUsedStays` says what is not forgotten.

### HttpClients and HttpTransfer

`runtime` and `holders` are the `CurlRuntime` of `runtime()` and the shared
pointers to it, of the static and of each `Impl`; `impl_`, `config` and `curl` are
the members of that name. Any thread makes, moves, assigns over and destroys
clients; a destructor is three steps, and the static goes at the end of the
process, before or after the last client.

A call of `get` is followed through `step`: the checks and early returns, the list
of headers, `curl_easy_reset`, one `setopt` after another in the order of the code,
the transfer with a callback a step, and the checks after it. `options` tells for
each option whether this call has set it or an earlier one: before the reset any
option may be as any earlier call left it, and what has not been set now is never
relied upon. libcurl and the server are external: interim responses, redirects,
header lines, trailers, and a body in any pieces, each line and byte known by the
number of its response and its place there, and each line by what `header_callback`
asks of it: whether it starts with `HTTP/`, and whether it has a colon; an option that is refused, an
allocation that fails, a connection that breaks, or silence. Bodies and the limit
are counted in a `size_t` of small width, whose subtraction wraps. A client serves
one call at a time, and calls on different clients share only the runtime, so one
call at a time is followed while all other objects live their lives around it.

### Requests, Errors and Endpoints

Each operation is three steps and more: `Ask` (its checks and its request, or the
error of a client that was moved from), the steps of `Retry` with a status and a
body for each attempt, and the answer. Transport and limiter are seen by their
results, which `HttpTransfer` and `CdoClient` produce. Texts are sequences of
`Characters`, where a word of the API's own (a key, a segment of a path, a number)
counts as one; in a URL each stands raw or escaped, and `encode` leaves the
`Unreserved` ones raw, among which no delimiter is (`RequestsAssumption`). A struct
of parameters is a function of the keys that are set, each with a text or, for the
vectors, a sequence of texts; the keys are listed in the order of the code, which
is all that the three query builders differ in, but for the fields that they write
without `encode` and the two ways to write a vector. `ArgumentsAssumption` says
that arguments are of the types the operations take. The
properties compare what a server reads in the URL with what the caller asked for,
and what the caller gets with what the server sent last. A body is JSON or not,
with the fields that errors have; of what it can be read as, the kinds count.

### Numbers, Json, DelimitedParser, DataPoints and Readers

Texts are sequences of the characters that the code tells apart, where a whole
numeral or name counts as one character. The two scanners are stated by the places
of quotes, delimiters and ends of lines: where a record ends, where a field closes,
which quotes stay. `Readers` is a machine that takes a turn of a loop a step: it
cuts a body into rows, goes through rows or JSON values one by one, and assigns the
caller's variable or returns an error. Every document of the instance carries what
it publishes, written down independently of how it is read, and at the end the two
are compared. JSON itself is read by the glaze library, which is external; the
order of the fields of an object is the library's.

## Runs

| Run | Question | Instance |
|---|---|---|
| `rate_limiter` | does the shared limiter implement the bucket, are quota and observers exact, do bounded waits end | two threads, three configurations, five instants, two days, the clock set back |
| `rate_window` | is the documented 5 requests a second kept in every second | one thread, default settings; fails (see below) |
| `retry` | are attempts, delays and results disciplined | eight policies, a two-bit counter |
| `cdo_client` | is every request paid for and every quota error true | one thread, six instants, two days, waits of up to two instants, at most five requests |
| `date_range` | do the chunks partition the range | all pairs of eight days, sizes -1 to 8 |
| `date_strings` | does the splitting of strings implement that of day numbers | eight dates at both ends of the calendar and around leap days that are and are not, eight strings that are none; chunks of a day, a month, a year, a century and around the whole calendar |
| `get_data_all` | is the result complete, does paging advance and end | four days, up to two records a day, limits from none and zero to four, pages of one to three, hostile metadata from a set of six numbers |
| `get_data_all_no_metadata` | does paging need the metadata | as above, with `include_metadata` false; fails (see below) |
| `lru_cache` | do list and map agree, does the right entry go, is nothing stale returned | three keys, two values, capacities 0 to 2, lifetimes 0 to 2, four instants |
| `http_transfer` | does libcurl outlive its handles, is an answer the last response within the limit, do headers stay, does a call return | two clients, two `Impl`s, four configurations; three responses of two lines of any kind (the status line is the first) and three bytes, one redirect followed |
| `endpoints` | does the server read what was asked, and the caller what happened | every operation with awkward texts, lists and numbers; two attempts, six statuses, bodies in every format of errors and none |
| `readers` | do both scanners agree, is what is read what is published | all texts of up to five characters, tables of up to two by two written in every style, documents of each feed |

Bounds. Two threads suffice to interleave every pair of steps; the proofs cover
any number. Five instants hold a burst, a partial refill and a refill to the
brim at intervals of two and three, and a nap of two that overshoots a deadline.
Two days hold one midnight and one step back across it. A counter of two bits
meets its limit with a policy of three attempts. Chunks of two days out of four
and one to three records a page give exact multiples, remainders and empty
chunks. Three keys for two places make every eviction a choice, and four instants
let an entry of lifetime one expire, be put again and expire again; keys are
interchangeable in the specification and so are values, and nothing is checked
of liveness, so the run takes them as symmetric. Two clients on two `Impl`s let one
be destroyed, moved or assigned over while the other is in a call; three responses
are an interim one, a redirect and the last; a second line is enough to drop the
first from the headers, to come after it, or to be dropped with it by the next
response; a limit of two for bodies of three bytes is met exactly, passed by one
and passed at once, and a timeout of
three seconds is more than a `long` of the instance holds. Two attempts are enough
for an answer of the first to be mistaken for one of the second. Five characters
open, escape and close a quote with one to spare. Six chunks are the most that a
call of `date_strings` makes, and all pairs of dates are tried under that
(`MaxChunks`). `MaxNow`, `LastDay` of the clocks, `MaxFetches`, `MaxResponses`,
`MaxLines` and `MaxBytes` are the other bounds that no code has.

Fairness. `RateLimiter` assumes that time passes and that each thread that is
inside a call keeps being scheduled and gets the mutex; nobody must call, and no
day must end. `Retry` assumes that operations come back (each transfer has a
timeout of libcurl's) and sleeps end. `DateRange` and `GetDataAll` assume that
the code runs on. `HttpTransfer` assumes that the client's own steps are taken and
that libcurl minds its timeout; a server owes nothing, not even an answer. A
timeout of 0 is none, and one below 0 is refused by libcurl as an option, so
`GetReturns` speaks of positive ones. `CdoClient`, `DateStrings`, `LruCache`,
`Endpoints` and `Readers` are checked for safety only.

Deadlock is checked in all runs but three: `cdo_client` stops when its clock
reaches its bound, `http_transfer` when the process has ended or a server is silent
in a call without a timeout, and `readers` when the body has been read.

### Where code and documents differ

- `rate_window`: a full bucket empties at once and refills meanwhile, so the
  default settings allow six requests in 200 ms and nearly ten in a second.
  `include/ncei/rate_limit.hpp` and the README speak of 5 requests a second.
  `RateBound` states, and `LimiterKeepsThePace` proves, what holds instead.
- `get_data_all_no_metadata`: with `include_metadata` false the service sends no
  metadata, whose defaults claim that there is no more, so `get_data_all`
  returns the first page of each chunk as if it were everything. The README says
  that all pages are fetched transparently. With metadata, it is so
  (`CompleteAndOrdered`).

### Other facts of the code that the models keep

No document says otherwise, so these are no divergences.

- A marker of a missing value counts only in a text. The number -9999 in the JSON
  of the climate-at-a-glance feed is a value like any other.
- A row of the daily sea-ice feed whose month is blank but whose day is not gets
  the period of its year and day ("2024-02" for the second).
- In a data point a JSON number becomes a text with six decimals, the columns of a
  collection are those of its first object, and a coordinate that is a JSON string
  is read as 0.
- `header_callback` tells a status line by its first five characters and goes on to
  look for a colon in it. So a status line with a colon in its reason phrase is the
  first entry of `headers`, and a header line or a trailer that starts with `HTTP/`
  drops those before it. `AnswerIsTheLastResponse` says which lines are headers;
  for an ordinary response they are its header lines.
- `acquire` does not queue: with several threads in it, one may lose every token to
  the others. Only calls with a deadline are promised an end (`BoundedWaitEnds`).
- `get_data_all` passes a limit of zero or less on. The model takes it that an
  honest server then answers with an error.

## Proofs

| Module | Theorem | Says |
|---|---|---|
| `RateLimiterProofs` | `TypeCorrect`, `QuotaIsExact`, `ObserversAreHonest`, `DeadlinesHold` | invariants of the limiter |
| | `LimiterIsATokenBucket` | the limiter implements the bucket |
| | `BucketKeepsItsPromise` | the abstract bucket keeps pace and quota |
| | `LimiterKeepsThePace` | the pace, inherited through the refinement |
| `RetryProofs` | `RetryTyped`, `RetriesAreDisciplined` | types and discipline of the retry loop |
| | `DelaysKeepTheBand` | every sleep lies in the jitter's band around the capped exponential |
| `ClientProofs` | `RequestsArePaid` | each request has a token of its own, granted after the request before it |
| | `RequestsKeepThePace` | the limiter's pace, carried over to what the server sees |
| | `QuotaErrorsAreTrue`, `NeverSleepsForTheQuota` | quota errors are true, and nobody sits out the day, if the system clock is not set back |
| | `ClientTyped`, `DoGetIsTheRetryLoop` | types of the whole; `do_get` implements the retry loop and has its discipline and its delays |
| | `RequestsAreRead` | the server reads in every request of the three clients the path and the fields asked for, and no others |
| | `AnswersTellWhatHappened` | an operation's answer tells what came of its last attempt and of no other |
| `DateRangeProofs` | `SplitTyped`, `SplitIsAPartition`, `SplitStaysInCalendar`, `SplitIsCoarsest` | the chunks partition the range, are as few as can be, and `add_days` never leaves the calendar |
| `DateStringsProofs` | `SplittingStringsIsSplittingDays` | the splitting of strings implements that of days, for all strings and all dates of the years 1 to 9999 |
| | `StringsArePartitioned` | so the strings returned partition the range as coarsely as can be, and `out_of_range` is never thrown |
| `GetDataAllProofs` | `PagingTyped`, `PagesAlwaysAdvance` | only chunks that there are and offsets that fit are asked for; no metadata make paging stand still or go back |
| | `AnswersAreComplete` | from an honest server that sends metadata, every record comes once and in order |
| | `NoPageIsWasted` | such a server is never asked for an empty page but as the first of a chunk |
| `LruCacheProofs` | `TypeCorrect`, `ListAndMapAgree`, `LeastRecentlyUsedGoes` | invariants of the cache |
| | `LruCacheIsACache` | the cache implements the abstract one |
| `HttpTransferProofs` | `LivesTyped`, `RuntimeOutlives` | of `HttpClients` alone: libcurl is cleaned up after the last handle is closed, and not before |
| | `CallsTyped`, `HandlesCloseFirst` | the same with calls going on |
| | `WholeAndAlone`, `LimitIsKept`, `HeadersAreNotForwarded` | an answer is of the last response alone, its body whole and within the limit, its headers the lines that `header_callback` should keep, and headers of the caller's stay with the server that was asked |

They assume only the named assumptions of the modules, which TLC evaluates in
the runs: among them that the code's own sanitized settings are numbers of the
right kind, that `Poll` and `DefaultInterval` are positive, and that limits fit
their types. Threads, policies, dates, servers, clients and times are arbitrary.
Where a module composes others, its assumptions name theirs, and the theorems of
the parts are used through INSTANCE, their assumptions proved at that place:
`ClientProofs` uses the limiter's and the retry loop's, `DateStringsProofs` and
`GetDataAllProofs` the splitting's.

Induction. The library's induction theorems take an operator, which none of the
provers can instantiate. Where one is needed it is restated for a set: a set of
naturals that is not empty has a least element, from the well-foundedness of the
naturals, and the least number that is not in the set leads to a contradiction.
From this come that a recursive function over `0..n` has the values its definition
gives (`RecursionOver`), and induction over sequences: a set with the empty sequence
in it, and with every sequence that is one longer than one in it, holds them all
(`SequenceInduction`). What such a function computes of an argument is then a
lemma about a set of arguments.

The pace. `RateBound` speaks of all pairs of grants and is not inductive. The
bucket's invariant adds that for every grant the level now is at most what the
brim, less the grants since, plus the time since leaves; a grant needs a full
interval in the bucket, and that closes the argument. The limiter inherits it,
since every step of the limiter is a step of the bucket or none.

The quota. `QuotaExact` needs that the counter is the number of grants billed to
`day_start`, that later days are untouched, and that without a limit the
counter may saturate.

The delays. The loop of `calculate_retry_delay`, which multiplies and caps in
turn, is a recursive function. That such a function has values at all, each given
by the one before, is by induction over the attempts (`RecursionUpTo`); that
capping in every turn comes to the same as capping once at the end is
`BackoffIsNominal`: with a multiplier of at least one a delay that has reached the
cap stays there, and with a smaller one no delay after the first, which is clamped,
comes near it. The band is then one statement about the delay drawn
(`DelaysInBand`), and stays true of the delays slept.

The requests of `do_get`. `PaidInv` ties the place of the thread in the retried
function to the two histories: grants and requests are equally many, or one grant
is still to be used. The pace of requests follows from that of grants, since each
request comes no earlier than its grant and no later than the next. For the quota, `DayInv` says that
the day of the limiter is never ahead of the system clock's, and `Waiting` that the
thread in `acquire` has quota for as long as it is there, and naps only without a
token. Steps of the limiter, of the transfer and of the clocks leave the retry
loop alone, and all others are steps of `Retry`: so `do_get` implements the loop
(`LoopRefined`), and what is proved of the loop is not proved again.

The requests of the operations. The invariant, `CallInv`, is a fact of each
operation alone, as a call keeps its operation: the work is in what the server
reads. `FlattenSeq` and `Split` are recursive functions; unfolded, they put the
sequences one after the other and cut at each delimiter (`FlattenAppend`,
`SplitAround`), so that splitting what was joined gives the parts back, where no
part holds the delimiter (`SplitJoined`). Escaping is what makes this true of texts
(`EncodeReads`): every delimiter in a text is escaped, and an escaped character is
never read as a delimiter. So a URL is read as its path and its pairs, a pair as its
key and its value, and the values of a key are gathered of the pairs that have it,
one after the other; a field that is not set, or an empty list, leaves no pair. The
three query builders differ in the struct only (`StructReads`), since no key comes
twice in the order of its fields.

The answers of the operations. Every step of an operation is a step of the loop or
none (`OperationsRefined`), so the loop's invariant holds: among other things, that
it returns the outcome of its last attempt. `Told` says which response that was,
while the operation waits for the loop: the status and the body served last are
those of the last outcome, if it was a response, and nothing has been served before
the first. Then the answer is made of it in one step (`ConcludeTold`), where a message
of two texts is empty only if both are, which is why a status that no text explains is
named instead.

The splitting. Between two turns of the loop the next chunk begins right after
the last one, inside the range (`Underway`); with more than `max_days` left, the
day after the next chunk is still in the range, so that `add_days` cannot throw.
That there are no fewer chunks possible needs that each turn but the last takes a
full chunk (`FullSoFar`); the rest is a lemma on quotients.

The strings. The formula for the day on which a year begins makes a year 365 days
and its leap day long, and its months fill it without a gap. So no two dates have
the same day (`DatesAreUnique`), and every day has one: its year is one of three
after a quotient by the 146097 days of 400 years, and then a month of the year has
it. That makes the choice in `from_sys_days` a single date, and the years 1 to 9999
exactly the days that `add_days` stays in (`CalendarIsYears`). What is left is to
read every step through the days that its strings mean.

Paging. `PagingInv` says that the chunk asked for is one of those that the
splitting made, and which values an answer has; the dates come from the theorems
about the splitting. For completeness the records so far are those of the days
before the chunk and, of the chunk, those before the offset (`Gathered`). An archive in
the order of its days makes the records between two days an interval of it
(`BetweenSelects`), intervals of chunks that meet are one interval, and a page takes
the interval on to the next offset. This assumes of an honest server that it
sends its records in the order of their days, as `PagingAssumption` says: `get_data_all`
does not sort, so without that nothing could be said of the order of an answer.

The cache. `RecentlyUsedStays` counts keys used since; it needs that the list is
sorted by use, stated without times: a key nearer the front is among the keys
used since the last use of each key behind it (`Ordered`). The key that is
evicted is the last, so all others that the cache holds, `max_entries` of them,
were used since. Unlinking, linking in front and dropping the last key each keep
`Ordered`, and every operation is made of these three.

The transport. `LivesInv`: who has an open handle holds the runtime, and the
static holds it until the process exits. `CallInv`: while a call performs, all its
options have been set by itself, its handle is there, and its sink holds exactly
what the server has sent of the response that arrives (of its lines those that are
headers, which `LineKept` carries on from line to line), or the server has sent more
than the limit and the sink has been told so.

Only model-checked:

- liveness (`BoundedWaitEnds`, `CallReturns`, `SplitEnds`, `CallEnds`, `GetReturns`),
  as fairness and ENABLED are out of the prover's reach;
- `ParsedAsWritten`, as far as it is about tables, and `AnswerAsPublished`: the
  documents of the instance carry what they publish beside
  how they are written, and for arbitrary documents nothing relates the two.
  What `ParsedAsWritten` says of other texts, that no letter is lost, is checked for all
  of up to five characters; the scanners are stated by places and the parity of the
  quotes before them, and a proof would have to count those.

## Not modelled

- Decoding of the CDO models: glaze reads them by reflection from lists of fields;
  the code has no control of its own there. A body is readable as a kind or not.
- Equality and hash of `CoordinateKey`: keys of the cache are model values.
- `is_absolute_url` and the joining of `base_url` and path in `HttpClient::get`: a
  path is valid or not.
- Truncation of messages to 256 bytes and `correlation_id` in errors; titles and
  units of series.
- `DataSearchParams`, `RetryResult` and `date_range_exceeds`, which nothing in the
  library uses.
- Rounding errors of `double`, in delays and in values.
- Formatting, examples, tools and build files: no logic of the library.

## What could come next

1. The transport and the limiter of `CdoClient` in one module with `HttpTransfer`,
   so that a request sent is a transfer performed.
2. An order of the records within a day, so that `CompleteAndOrdered` says more of
   servers that send them in no particular one.
