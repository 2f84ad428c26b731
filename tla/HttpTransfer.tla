---------------------------- MODULE HttpTransfer -----------------------------
(* HttpClient::get and the callbacks libcurl makes into it                    *)
(* (src/http/client.cpp), on clients that live as in module HttpClients.  A   *)
(* client serves one call at a time and keeps its object for as long (the     *)
(* class is not thread-safe); calls on different clients share nothing but    *)
(* the runtime, so that one call at a time is followed.                       *)
(*                                                                            *)
(* libcurl and the server are external.  What they send is numbered: a line   *)
(* or a byte is the number of the response it belongs to and its place there, *)
(* where the status line is the first line.  libcurl delivers an interim      *)
(* response's and a followed redirect's lines, but no body of theirs; an      *)
(* option refused, memory that runs out and a broken connection can come at   *)
(* any point.                                                                 *)
(*                                                                            *)
(* An operator Name_Flaw is Name with the flaw that its suffix tells, for the *)
(* model checker to put in Name's place.                                      *)
EXTENDS HttpClients, IntegerBounds, SequencesExt

CONSTANTS
  MaxRedirects,   \* CURLOPT_MAXREDIRS
  LongMax,        \* numeric_limits<long>::max()
  SizeMax,        \* numeric_limits<size_t>::max()
  MaxResponses,   \* bound: responses to one call
  MaxLines,       \* bound: lines of one response, the status line included
  MaxBytes        \* bound: bytes of one response

ClientConfig ==
  [valid : BOOLEAN,         \* no CR, LF or NUL in user_agent and accept
   timeout : Int,
   max_response_bytes : 0..SizeMax,
   extra_headers : Seq(BOOLEAN)]   \* whether each is valid

ASSUME TransferAssumption ==
  /\ Null \notin Client
  /\ Configs \subseteq ClientConfig
  /\ {MaxRedirects, LongMax, SizeMax, MaxResponses, MaxLines, MaxBytes} \subseteq Nat

\* What get sets on the handle, in that order; a callback and its data, and the
\* two options of verify_ssl, count as one.
OptionOrder ==
  <<"URL", "PROTOCOLS_STR", "REDIR_PROTOCOLS_STR", "WRITEDATA", "HEADERDATA", "HTTPHEADER",
    "TIMEOUT", "NOSIGNAL", "USERAGENT", "ACCEPT_ENCODING", "FOLLOWLOCATION", "MAXREDIRS",
    "SSL_VERIFY">>

VARIABLES
  caller,      \* the client whose get is running, or Null
  step,        \* what get does next; "idle" between two calls
  options,     \* for the caller's handle, which are set: "now" or "earlier"
  sink,        \* ResponseSink
  wire,        \* the response that arrives, and what became of the transfer
  returned     \* what the call returns

callVars == <<caller, step, options, sink, wire, returned>>
vars == <<lifeVars, callVars>>

Settings == config[impl_[caller]]

Unset == [o \in ToSet(OptionOrder) |-> "unset"]

EmptySink == [body |-> << >>, headers |-> << >>, overflowed |-> FALSE]

\* code: of curl_easy_perform; requests: sent so far; number: of the response;
\* lines, offered: what the server sent of its lines and its body.
NothingYet ==
  [stage |-> "asked", code |-> "none", requests |-> 1, number |-> 0, status |-> "none",
   lines |-> << >>, offered |-> 0]

Error(code) == [kind |-> "error", code |-> code]

Init ==
  /\ LivesInit
  /\ caller = Null
  /\ step = "idle"
  /\ options = Unset
  /\ sink = EmptySink
  /\ wire = NothingYet
  /\ returned = Error("none")
----------------------------------------------------------------------------
Return(result) ==
  /\ step' = "returned"
  /\ returned' = result

\* The options that a call on the handle leaves when it set the first n.
SetFirst(n, when) ==
  [o \in DOMAIN options |->
     IF \E p \in 1..n : OptionOrder[p] = o THEN when ELSE options[o]]

Usable_IfNotMovedFrom(c) == impl_[c] \in Impl
Usable(c) == impl_[c] \in Impl /\ curl[impl_[c]] # "null"

\* get up to its first early returns.  Earlier calls on the handle may have
\* left options set; the sink and the header list that some point to are gone.
Get(c, valid_path) ==
  /\ step = "idle"
  /\ impl_[c] # NoObject
  /\ caller' = c
  /\ \E n \in 0..Len(OptionOrder) : options' = SetFirst(n, "earlier")
  /\ UNCHANGED <<sink, wire>>
  /\ IF ~Usable(c)
       THEN Return(Error("NetworkError"))
     ELSE IF ~(valid_path /\ config[impl_[c]].valid /\ config[impl_[c]].timeout >= 0)
       THEN Return(Error("InvalidRequest"))
     ELSE step' = "headers" /\ UNCHANGED returned

\* The list of headers: Accept, and then the caller's own one by one, up to the
\* first that is invalid; memory may run out at each that is not.
BuildHeaders ==
  LET extra == Settings.extra_headers
  IN  /\ step = "headers"
      /\ \/ /\ ToSet(extra) \subseteq {TRUE}
            /\ step' = "reset"
            /\ UNCHANGED returned
         \/ FALSE \in ToSet(extra) /\ Return(Error("InvalidRequest"))
         \/ Return(Error("NetworkError"))
      /\ UNCHANGED <<caller, options, sink, wire>>

\* The new sink, and curl_easy_reset.
Reset ==
  /\ step = "reset"
  /\ step' = "configure"
  /\ sink' = EmptySink
  /\ options' = Unset
  /\ UNCHANGED <<caller, wire, returned>>

\* The chain of curl_easy_setopt: it ends at the first that libcurl refuses.
RefusedIsFatal_Ignored(n) == n = 0
RefusedIsFatal(n) == n < Len(OptionOrder)

Configure ==
  /\ step = "configure"
  /\ \E n \in 0..Len(OptionOrder) :
        /\ options' = SetFirst(n, "now")
        /\ IF RefusedIsFatal(n)
             THEN Return(Error("NetworkError")) /\ UNCHANGED wire
             ELSE /\ step' = "perform"
                  /\ wire' = NothingYet
                  /\ UNCHANGED returned
  /\ UNCHANGED <<caller, sink>>
----------------------------------------------------------------------------
(* curl_easy_perform: what the wire brings, and the callbacks.                *)
Performing == step = "perform" /\ wire.stage # "ended"

Ended(code) == [wire EXCEPT !.stage = "ended", !.code = code]

\* The number that CURLOPT_TIMEOUT is given (long may be narrower than the
\* seconds are), and the one that CURLOPT_FOLLOWLOCATION is.
Timeout_Wraps == Settings.timeout % (LongMax + 1)
Timeout == Lesser(Settings.timeout, LongMax)

FollowLocation_Always == TRUE
FollowLocation == Settings.extra_headers = << >>

Redirected ==
  wire.status = "redirect" /\ options["FOLLOWLOCATION"] = "now" /\ FollowLocation

\* What libcurl hands to a callback reaches the sink that its option points to.
Into(option, s) == IF options[option] = "now" THEN s ELSE sink

\* What header_callback asks of a line: whether it starts with "HTTP/", and
\* whether there is a colon in it.  The status line always does the former.
Line == [http : BOOLEAN, colon : BOOLEAN]

\* header_callback.  A line that starts with "HTTP/" clears the headers, which
\* does not keep it from becoming one: any line with a colon does.
HeaderCallback_Keeping(s, line, entry) ==
  [s EXCEPT !.headers = IF line.colon THEN Append(@, entry) ELSE @]

HeaderCallback(s, line, entry) ==
  LET earlier == IF line.http THEN << >> ELSE s.headers
  IN  [s EXCEPT !.headers = IF line.colon THEN Append(earlier, entry) ELSE earlier]

\* write_callback; the difference is unsigned.
TooLarge_AfterTheFact(bytes) ==
  LET limit == Settings.max_response_bytes
  IN  limit > 0 /\ Len(sink.body) > limit
TooLarge(bytes) ==
  LET limit == Settings.max_response_bytes
  IN  limit > 0 /\ bytes > (limit - Len(sink.body)) % (SizeMax + 1)

OnBytes(s, bytes) ==
  [s EXCEPT !.body = @ \o [k \in 1..bytes |-> <<wire.number, wire.offered + k>>]]

StatusLine ==
  /\ Performing
  /\ wire.stage = "asked"
  /\ wire.number < MaxResponses
  /\ \E status \in {"interim", "redirect", "final"}, line \in {l \in Line : l.http} :
        /\ wire' = [wire EXCEPT !.stage = "head", !.number = @ + 1, !.status = status,
                                !.lines = <<line>>, !.offered = 0]
        /\ sink' = Into("HEADERDATA", HeaderCallback(sink, line, <<wire.number + 1, 1>>))
  /\ UNCHANGED <<caller, step, options, returned>>

\* A header line, or after the body a trailer.
HeaderLine ==
  /\ Performing
  /\ wire.stage \in {"head", "body"}
  /\ Len(wire.lines) < MaxLines
  /\ \E line \in Line :
        /\ wire' = [wire EXCEPT !.lines = Append(@, line)]
        /\ sink' = Into("HEADERDATA",
                        HeaderCallback(sink, line, <<wire.number, Len(wire.lines) + 1>>))
  /\ UNCHANGED <<caller, step, options, returned>>

\* The blank line, of which header_callback makes nothing: libcurl waits for
\* the next response, follows a redirect as often as it may, or goes on to the
\* body.
EndOfHead ==
  /\ Performing
  /\ wire.stage = "head"
  /\ wire' = CASE wire.status = "interim" -> [wire EXCEPT !.stage = "asked"]
               [] Redirected ->
                    IF wire.requests <= MaxRedirects
                      THEN [wire EXCEPT !.stage = "asked", !.requests = @ + 1]
                      ELSE Ended("TOO_MANY_REDIRECTS")
               [] OTHER -> [wire EXCEPT !.stage = "body"]
  /\ UNCHANGED <<caller, step, options, sink, returned>>

Chunk(bytes) ==
  /\ Performing
  /\ wire.stage = "body"
  /\ wire.offered + bytes <= MaxBytes
  /\ IF TooLarge(bytes)
       THEN /\ sink' = Into("WRITEDATA", [sink EXCEPT !.overflowed = TRUE])
            /\ wire' = [Ended("WRITE_ERROR") EXCEPT !.offered = @ + bytes]
       ELSE /\ sink' = Into("WRITEDATA", OnBytes(sink, bytes))
            /\ wire' = [wire EXCEPT !.offered = @ + bytes]
  /\ UNCHANGED <<caller, step, options, returned>>

\* The server has sent the whole response.
Complete ==
  /\ Performing
  /\ wire.stage = "body"
  /\ wire' = Ended("OK")
  /\ UNCHANGED <<caller, step, options, sink, returned>>

\* The connection breaks, or a callback runs out of memory.
Break ==
  /\ Performing
  /\ wire' = Ended("FAILED")
  /\ UNCHANGED <<caller, step, options, sink, returned>>

\* libcurl gives up when the time is over; a timeout of zero is none.
TimesOut ==
  /\ Performing
  /\ options["TIMEOUT"] = "now" /\ Timeout > 0
  /\ wire' = Ended("OPERATION_TIMEDOUT")
  /\ UNCHANGED <<caller, step, options, sink, returned>>

\* get after curl_easy_perform.  libcurl may fail to tell the status.
Conclusion_ErrorFirst ==
  IF wire.code # "OK" THEN {Error("NetworkError")}
  ELSE IF sink.overflowed THEN {Error("InvalidRequest")}
  ELSE {[kind |-> "response", status |-> wire.status,
         body |-> sink.body, headers |-> sink.headers]}
Conclusion ==
  IF sink.overflowed THEN {Error("InvalidRequest")}
  ELSE IF wire.code # "OK" THEN {Error("NetworkError")}
  ELSE {Error("NetworkError"),
        [kind |-> "response", status |-> wire.status,
         body |-> sink.body, headers |-> sink.headers]}

Performed ==
  /\ step = "perform" /\ wire.stage = "ended"
  /\ \E result \in Conclusion : Return(result)
  /\ UNCHANGED <<caller, options, sink, wire>>

\* The caller takes the result, and get's own variables are gone.  What the
\* handle was told of them points nowhere from here on; Get says so.
Leave ==
  /\ step = "returned"
  /\ step' = "idle"
  /\ caller' = Null
  /\ options' = Unset
  /\ sink' = EmptySink
  /\ wire' = NothingYet
  /\ returned' = Error("none")
----------------------------------------------------------------------------
\* What the client itself does, once called.
Proceed == BuildHeaders \/ Reset \/ Configure \/ Performed \/ Leave

Arrive ==
  StatusLine \/ HeaderLine \/ EndOfHead \/ (\E bytes \in 1..MaxBytes : Chunk(bytes)) \/ Complete

Next ==
  \/ /\ \/ \E c \in Client, valid_path \in BOOLEAN : Get(c, valid_path)
        \/ Proceed \/ Arrive \/ Break \/ TimesOut
     /\ UNCHANGED lifeVars
  \/ /\ Lives
     /\ caller # Null => impl_'[caller] = impl_[caller]
     /\ UNCHANGED callVars

Spec == Init /\ [][Next]_vars

\* The client's own steps are taken, and libcurl minds its timeout; a server
\* owes nothing.
FairSpec ==
  /\ Spec
  /\ WF_vars(Proceed /\ UNCHANGED lifeVars)
  /\ WF_vars(TimesOut /\ UNCHANGED lifeVars)
----------------------------------------------------------------------------
TypeOK ==
  /\ LivesTypeOK
  /\ caller \in Client \cup {Null}
  /\ step \in {"idle", "headers", "reset", "configure", "perform", "returned"}
  /\ options \in [ToSet(OptionOrder) -> {"unset", "earlier", "now"}]
  /\ caller = Null <=> step = "idle"
  /\ step \notin {"idle", "returned"} => impl_[caller] \in Impl /\ curl[impl_[caller]] = "open"
  /\ wire.number <= MaxResponses

\* The call has got as far as curl_easy_perform.
Ran == step \in {"perform", "returned"} /\ options["SSL_VERIFY"] = "now"

\* The lines of a response that should be its headers: those with a colon from
\* the last line on that starts with "HTTP/".  Of an ordinary response, whose
\* status line has no colon and alone starts so, these are its header lines
\* with a colon, all of them.
HeaderPlaces(lines) ==
  {k \in DOMAIN lines : lines[k].colon /\ \A j \in DOMAIN lines : j > k => ~lines[j].http}

\* An answer is the last response and no other: every byte the server sent of
\* its body, and in order, each once, the lines that are headers, of which none
\* is of an interim response or redirect before it, nor of an earlier call
\* (get, the two callbacks).
AnswerIsTheLastResponse ==
  returned.kind = "response" =>
    /\ returned.body = [k \in 1..wire.offered |-> <<wire.number, k>>]
    /\ ToSet(returned.headers) = {<<wire.number, k>> : k \in HeaderPlaces(wire.lines)}
    /\ \A a, b \in DOMAIN returned.headers :
          a < b => returned.headers[a][2] < returned.headers[b][2]
    /\ returned.status = wire.status

\* A body is held up to the limit and no further, however it is cut into
\* chunks; one that the server takes past the limit ends the call with
\* InvalidRequest, which no policy retries, and a connection that breaks does
\* not (write_callback, the order of the checks after curl_easy_perform).
OversizeIsFinal ==
  LET limit == Settings.max_response_bytes
  IN  Ran =>
        /\ limit > 0 => Len(sink.body) <= limit
        /\ step = "returned" =>
             (returned = Error("InvalidRequest") <=> limit > 0 /\ wire.offered > limit)

\* A request that carries headers of the caller's, the token among them, goes
\* to the server that was asked and is never repeated to where a redirect
\* points (CURLOPT_FOLLOWLOCATION).
HeadersStayHome ==
  Ran /\ Settings.extra_headers # << >> => wire.requests = 1

\* A client with a timeout returns from every call, whatever the server does or
\* fails to do (CURLOPT_TIMEOUT; the seconds are clamped to what long holds).
GetReturns ==
  (step = "headers" /\ Settings.timeout > 0) ~> (step = "idle")
=============================================================================
