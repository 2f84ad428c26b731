--------------------------- MODULE HttpTransferProofs ---------------------------
(* Proofs about HttpClients and HttpTransfer, for any clients, objects,       *)
(* configurations, limits and servers.                                        *)
(*                                                                            *)
(* The lives (LivesInv): while anyone holds the runtime it is there, every    *)
(* Impl that has a handle holds it, and what a client points to is an Impl    *)
(* that is not dying.                                                         *)
(*                                                                            *)
(* A call (CallInv): what its sink holds is what the server has sent of the   *)
(* response that arrives (Received), and what it returns is the sink.         *)
EXTENDS HttpTransfer, SequenceTheorems, TLAPS

\* The static holds the runtime from its first use to the end of the process.
StaticHolds == exited \/ runtime = "none" \/ Static \in holders

LivesInv ==
  /\ LivesTypeOK
  /\ RuntimeOutlivesHandles
  /\ \A i \in Impl : i \in holders <=> curl[i] # "absent"
  /\ \A c \in Client : impl_[c] \in Impl =>
       curl[impl_[c]] \in {"open", "null"} /\ config[impl_[c]] \in Configs
  /\ StaticHolds

LEMMA LivesInitially == LivesInit => LivesInv
BY ClientsAssumption
   DEF LivesInit, LivesInv, LivesTypeOK, RuntimeOutlivesHandles, StaticHolds

\* A new client: nobody points to its Impl, and the runtime has not gone.
LEMMA ConstructKeeps ==
  ASSUME LivesInv, NEW c \in Client, NEW i \in Impl, NEW settings \in Configs,
         Construct(c, i, settings)
  PROVE  LivesInv'
<1> USE ClientsAssumption
<1>1. PICK status \in RuntimeStatus :
        /\ runtime' = status
        /\ curl' \in {[curl EXCEPT ![i] = h] :
                        h \in IF status = "ready" THEN {"open", "null"} ELSE {"null"}}
  BY DEF Construct
<1>2. PICK h \in {"open", "null"} : curl' = [curl EXCEPT ![i] = h] /\ (h = "open" => runtime' = "ready")
  BY <1>1
<1>3. /\ holders' = holders \cup {Static, i}
      /\ impl_' = [impl_ EXCEPT ![c] = i]
      /\ config' = [config EXCEPT ![i] = settings]
      /\ exited' = exited /\ ~exited
      /\ curl[i] = "absent"
  BY DEF Construct
<1>4. runtime' \in {"ready", "failed"} /\ (runtime # "none" => runtime' = runtime)
  BY <1>1, <1>3 DEF RuntimeStatus, LivesInv, LivesTypeOK, StaticHolds, RuntimeOutlivesHandles
<1>5. \A d \in Client : impl_[d] # i
  BY <1>3 DEF LivesInv
<1>6. LivesTypeOK'
  BY <1>2, <1>3, <1>4 DEF LivesInv, LivesTypeOK
<1>7. RuntimeOutlivesHandles'
  <2>1. \A j \in Impl : curl'[j] = "open" => runtime' = "ready"
    BY <1>2, <1>3, <1>4 DEF LivesInv, LivesTypeOK, RuntimeOutlivesHandles
  <2>2. \A a, b \in Client : impl_'[a] = impl_'[b] /\ a # b => impl_'[a] \notin Impl
    BY <1>3, <1>5 DEF LivesInv, LivesTypeOK, RuntimeOutlivesHandles
  <2>3. runtime' = "ready" <=> (holders' # {} /\ runtime' # "failed")
    BY <1>3, <1>4
  <2>4. QED
    BY <2>1, <2>2, <2>3 DEF RuntimeOutlivesHandles
<1>8. \A j \in Impl : j \in holders' <=> curl'[j] # "absent"
  BY <1>2, <1>3 DEF LivesInv, LivesTypeOK
<1>9. \A d \in Client : impl_'[d] \in Impl =>
        curl'[impl_'[d]] \in {"open", "null"} /\ config'[impl_'[d]] \in Configs
  BY <1>2, <1>3, <1>5 DEF LivesInv, LivesTypeOK
<1>10. QED
  BY <1>3, <1>6, <1>7, <1>8, <1>9 DEF LivesInv, StaticHolds

\* Pointers move: no two clients come to point to the same Impl.
LEMMA MovesKeep ==
  ASSUME LivesInv, NEW c \in Client,
         Destroy(c) \/ \E d \in Client : MoveConstruct(c, d) \/ MoveAssign(c, d)
  PROVE  LivesInv'
<1> USE ClientsAssumption
<1>1. CASE Destroy(c)
  BY <1>1 DEF Destroy, LivesInv, LivesTypeOK, RuntimeOutlivesHandles, StaticHolds
<1>2. ASSUME NEW d \in Client, MoveConstruct(c, d) \/ MoveAssign(c, d)
      PROVE  LivesInv'
  <2>1. /\ impl_' = [impl_ EXCEPT ![d] = impl_[c], ![c] = Null]
        /\ UNCHANGED <<runtime, holders, exited, config, curl>>
    BY <1>2 DEF MoveConstruct, MoveAssign
  <2>2. \A e \in Client : impl_'[e] = IF e = c THEN Null ELSE IF e = d THEN impl_[c] ELSE impl_[e]
    BY <2>1 DEF LivesInv, LivesTypeOK
  <2>3. LivesTypeOK'
    BY <2>1 DEF LivesInv, LivesTypeOK
  <2>4. RuntimeOutlivesHandles'
    <3>1. ASSUME NEW a \in Client, NEW b \in Client, a # b, impl_'[a] = impl_'[b]
          PROVE  impl_'[a] \notin Impl
      <4>1. impl_[a] = impl_[b] => impl_[a] \notin Impl
        BY <3>1 DEF LivesInv, RuntimeOutlivesHandles
      <4>2. impl_[a] = impl_[c] /\ a # c => impl_[a] \notin Impl
        BY DEF LivesInv, RuntimeOutlivesHandles
      <4>3. impl_[b] = impl_[c] /\ b # c => impl_[b] \notin Impl
        BY DEF LivesInv, RuntimeOutlivesHandles
      <4>4. QED
        BY <2>2, <3>1, <4>1, <4>2, <4>3
    <3>2. \A i \in Impl : curl'[i] = "open" => runtime' = "ready"
      BY <2>1 DEF LivesInv, RuntimeOutlivesHandles
    <3>3. runtime' = "ready" <=> (holders' # {} /\ runtime' # "failed")
      BY <2>1 DEF LivesInv, RuntimeOutlivesHandles
    <3>4. QED
      BY <3>1, <3>2, <3>3 DEF RuntimeOutlivesHandles
  <2>5. \A i \in Impl : i \in holders' <=> curl'[i] # "absent"
    BY <2>1 DEF LivesInv
  <2>6. \A e \in Client : impl_'[e] \in Impl =>
          curl'[impl_'[e]] \in {"open", "null"} /\ config'[impl_'[e]] \in Configs
    <3>1. ASSUME NEW e \in Client, impl_'[e] \in Impl
          PROVE  curl[impl_'[e]] \in {"open", "null"} /\ config[impl_'[e]] \in Configs
      <4>1. \E f \in Client : impl_'[e] = impl_[f]
        BY <2>2, <3>1
      <4>2. QED
        BY <3>1, <4>1 DEF LivesInv
    <3>2. QED
      BY <2>1, <3>1
  <2>7. StaticHolds'
    BY <2>1 DEF LivesInv, StaticHolds
  <2>8. QED
    BY <2>3, <2>4, <2>5, <2>6, <2>7 DEF LivesInv
<1>3. QED
  BY <1>1, <1>2

LEMMA CloseHandleKeeps ==
  ASSUME LivesInv, NEW i \in Impl, CloseHandle(i)
  PROVE  LivesInv'
<1> USE ClientsAssumption
<1>1. /\ curl' = [curl EXCEPT ![i] = "closed"]
      /\ config' = [config EXCEPT ![i] = Null]
      /\ UNCHANGED <<runtime, holders, exited, impl_>>
      /\ i \in holders
      /\ \A c \in Client : impl_[c] # i
  BY DEF CloseHandle, Dying, Pointed
<1>2. QED
  BY <1>1 DEF LivesInv, LivesTypeOK, RuntimeOutlivesHandles, StaticHolds

\* Somebody lets the runtime go: only the last one cleans it up, and an Impl
\* does so when its handle is closed.
LEMMA LetGoKeeps ==
  ASSUME LivesInv, NEW holder \in holders, LetGo(holder),
         \A j \in Impl : curl'[j] = IF j = holder THEN "absent" ELSE curl[j],
         curl' \in [Impl -> {"absent", "null", "open", "closed"}],
         holder \in Impl => curl[holder] = "closed",
         impl_' = impl_, config' = config,
         holder = Static => exited',
         exited' \in BOOLEAN, exited => exited'
  PROVE  LivesInv'
<1> USE ClientsAssumption
<1>1. /\ holders' = holders \ {holder}
      /\ runtime' = IF holders' = {} /\ runtime = "ready" THEN "cleaned" ELSE runtime
  BY DEF LetGo
<1>2. runtime \in {"ready", "failed"}
  BY DEF LivesInv, LivesTypeOK, RuntimeOutlivesHandles
<1>3. LivesTypeOK'
  BY <1>1, <1>2 DEF LivesInv, LivesTypeOK
<1>4. \A j \in Impl : j \in holders' <=> curl'[j] # "absent"
  BY <1>1 DEF LivesInv
<1>5. RuntimeOutlivesHandles'
  <2>1. \A j \in Impl : curl'[j] = "open" => runtime' = "ready"
    BY <1>1, <1>4 DEF LivesInv, RuntimeOutlivesHandles
  <2>2. runtime' = "ready" <=> (holders' # {} /\ runtime' # "failed")
    BY <1>1, <1>2
  <2>3. QED
    BY <2>1, <2>2 DEF LivesInv, RuntimeOutlivesHandles
<1>6. \A c \in Client : impl_'[c] \in Impl =>
        curl'[impl_'[c]] \in {"open", "null"} /\ config'[impl_'[c]] \in Configs
  BY DEF LivesInv
<1>7. StaticHolds'
  BY <1>1, <1>2 DEF LivesInv, StaticHolds
<1>8. QED
  BY <1>3, <1>4, <1>5, <1>6, <1>7 DEF LivesInv

LEMMA LivesPreserved == LivesInv /\ [Lives]_lifeVars => LivesInv'
<1> USE ClientsAssumption
<1>1. ASSUME LivesInv, Lives PROVE LivesInv'
  <2>1. CASE \E c \in Client : \E i \in Impl, settings \in Configs : Construct(c, i, settings)
    BY <1>1, <2>1, ConstructKeeps
  <2>2. CASE \E c \in Client : Destroy(c) \/ \E d \in Client : MoveConstruct(c, d) \/ MoveAssign(c, d)
    BY <1>1, <2>2, MovesKeep
  <2>3. CASE \E i \in Impl : CloseHandle(i)
    BY <1>1, <2>3, CloseHandleKeeps
  <2>4. ASSUME NEW i \in Impl, ReleaseRuntime(i) PROVE LivesInv'
    <3>1. /\ i \in holders /\ LetGo(i)
          /\ curl[i] = "closed" /\ curl' = [curl EXCEPT ![i] = "absent"]
          /\ UNCHANGED <<exited, impl_, config>>
      BY <2>4 DEF ReleaseRuntime, Dying
    <3>2. /\ \A j \in Impl : curl'[j] = IF j = i THEN "absent" ELSE curl[j]
          /\ curl' \in [Impl -> {"absent", "null", "open", "closed"}]
      BY <1>1, <3>1 DEF LivesInv, LivesTypeOK
    <3>3. i # Static /\ exited' \in BOOLEAN
      BY <1>1, <3>1 DEF LivesInv, LivesTypeOK
    <3>4. QED
      BY <1>1, <3>1, <3>2, <3>3, LetGoKeeps
  <2>5. CASE Exit
    <3>1. CASE Static \in holders
      <4>1. LetGo(Static) /\ exited' = TRUE /\ UNCHANGED <<impl_, config, curl>>
        BY <2>5, <3>1 DEF Exit
      <4>2. /\ \A j \in Impl : curl'[j] = IF j = Static THEN "absent" ELSE curl[j]
            /\ curl' \in [Impl -> {"absent", "null", "open", "closed"}]
        BY <1>1, <4>1 DEF LivesInv, LivesTypeOK
      <4>3. QED
        BY <1>1, <3>1, <4>1, <4>2, LetGoKeeps
    <3>2. CASE Static \notin holders
      BY <1>1, <2>5, <3>2 DEF Exit, LivesInv, LivesTypeOK, RuntimeOutlivesHandles, StaticHolds
    <3>3. QED
      BY <3>1, <3>2
  <2>6. QED
    BY <1>1, <2>1, <2>2, <2>3, <2>4, <2>5 DEF Lives
<1>2. ASSUME LivesInv, UNCHANGED lifeVars PROVE LivesInv'
  BY <1>2 DEF lifeVars, LivesInv, LivesTypeOK, RuntimeOutlivesHandles, StaticHolds
<1>3. QED
  BY <1>1, <1>2

\* A client that keeps its Impl through a step keeps handle and config.
LEMMA OthersLeaveItAlone ==
  ASSUME LivesInv, [Lives]_lifeVars, NEW c \in Client,
         impl_[c] \in Impl, impl_'[c] = impl_[c]
  PROVE  curl'[impl_[c]] = curl[impl_[c]] /\ config'[impl_[c]] = config[impl_[c]]
<1> USE ClientsAssumption
<1> DEFINE i == impl_[c]
<1>1. curl[i] \in {"open", "null"} /\ i \in Pointed
  BY DEF LivesInv, Pointed
<1> HIDE DEF i
<1>2. CASE \E d \in Client : \E j \in Impl, settings \in Configs : Construct(d, j, settings)
  BY <1>1, <1>2 DEF Construct, LivesInv, LivesTypeOK, i
<1>3. CASE \E d \in Client : Destroy(d) \/ \E e \in Client : MoveConstruct(d, e) \/ MoveAssign(d, e)
  BY <1>3 DEF Destroy, MoveConstruct, MoveAssign
<1>4. CASE \E j \in Impl : CloseHandle(j)
  BY <1>1, <1>4 DEF CloseHandle, Dying, LivesInv, LivesTypeOK, i
<1>5. CASE \E j \in Impl : ReleaseRuntime(j)
  BY <1>1, <1>5 DEF ReleaseRuntime, Dying, LivesInv, LivesTypeOK, i
<1>6. CASE Exit
  BY <1>6 DEF Exit
<1>7. CASE UNCHANGED lifeVars
  BY <1>7 DEF lifeVars
<1>8. QED
  BY <1>2, <1>3, <1>4, <1>5, <1>6, <1>7 DEF Lives, i

\* The objects stay what they are declared to be (the members of HttpClient,
\* Impl and CurlRuntime).
THEOREM LivesTyped == LivesSpec => []LivesTypeOK
<1>1. LivesInv => LivesTypeOK
  BY DEF LivesInv
<1>2. QED
  BY <1>1, LivesInitially, LivesPreserved, PTL DEF LivesSpec

\* libcurl is cleaned up after the last easy handle is closed and not before,
\* whatever the order in which clients and the static go (Impl::global).
THEOREM RuntimeOutlives == LivesSpec => []RuntimeOutlivesHandles
<1>1. LivesInv => RuntimeOutlivesHandles
  BY DEF LivesInv
<1>2. QED
  BY <1>1, LivesInitially, LivesPreserved, PTL DEF LivesSpec
----------------------------------------------------------------------------
\* The first m bytes of the n-th response.
Sent(n, m) == [k \in 1..m |-> <<n, k>>]

\* The headers hold what they should of these lines of the n-th response.
Kept(headers, n, lines) ==
  /\ ToSet(headers) = {<<n, k>> : k \in HeaderPlaces(lines)}
  /\ \A a, b \in DOMAIN headers : a < b => headers[a][2] < headers[b][2]

Codes == {"none", "OK", "FAILED", "WRITE_ERROR", "TOO_MANY_REDIRECTS", "OPERATION_TIMEDOUT"}

Wires == [stage : {"asked", "head", "body", "ended"}, code : Codes, requests : Nat,
          number : 0..MaxResponses, status : {"none", "interim", "redirect", "final"},
          lines : Seq(Line), offered : Nat]

Sinks == [body : Seq(Nat \X Nat), headers : Seq(Nat \X Nat), overflowed : BOOLEAN]

CallTyped ==
  /\ caller \in Client \cup {Null}
  /\ step \in {"idle", "headers", "reset", "configure", "perform", "returned"}
  /\ caller = Null <=> step = "idle"
  /\ options \in [ToSet(OptionOrder) -> {"unset", "earlier", "now"}]
  /\ sink \in Sinks
  /\ wire \in Wires

\* While a call runs, its client has its handle.
HandleThere ==
  step \notin {"idle", "returned"} => impl_[caller] \in Impl /\ curl[impl_[caller]] = "open"

OptionsInStep ==
  /\ step = "idle" => options = Unset
  /\ options["SSL_VERIFY"] = "now" => step \in {"perform", "returned"} /\ impl_[caller] \in Impl
  /\ step = "configure" => options = Unset /\ sink = EmptySink
  /\ step = "perform" => \A o \in ToSet(OptionOrder) : options[o] = "now"

Received ==
  LET limit == Settings.max_response_bytes
  IN  /\ wire.stage \in {"asked", "head"} => wire.offered = 0
      /\ wire.stage # "ended" => ~sink.overflowed
      /\ Kept(sink.headers, wire.number, wire.lines)
      /\ ~sink.overflowed => /\ sink.body = Sent(wire.number, wire.offered)
                             /\ limit > 0 => wire.offered <= limit
      /\ sink.overflowed => /\ limit > 0 /\ wire.offered > limit
                            /\ Len(sink.body) <= limit
      /\ Settings.extra_headers # << >> => wire.requests = 1

Answered ==
  /\ step # "returned" => returned.kind = "error"
  /\ returned.kind = "response" =>
       /\ Ran /\ ~sink.overflowed
       /\ returned.body = sink.body
       /\ returned.headers = sink.headers
       /\ returned.status = wire.status
  /\ step = "returned" /\ Ran => (returned = Error("InvalidRequest") <=> sink.overflowed)

CallInv ==
  /\ LivesInv
  /\ CallTyped
  /\ HandleThere
  /\ OptionsInStep
  /\ Ran => Received
  /\ Answered
----------------------------------------------------------------------------
LEMMA SentIsSeq ==
  ASSUME NEW n \in Nat, NEW m \in Nat
  PROVE  Sent(n, m) \in Seq(Nat \X Nat) /\ Len(Sent(n, m)) = m
BY DEF Sent

LEMMA NothingSent == \A n : Sent(n, 0) = << >>
BY DEF Sent

LEMMA NothingKept == \A n : Kept(<< >>, n, << >>)
BY DEF Kept, HeaderPlaces, ToSet

\* The headers once header_callback has had a line more.
WithLine(headers, line, entry) ==
  LET earlier == IF line.http THEN << >> ELSE headers
  IN  IF line.colon THEN Append(earlier, entry) ELSE earlier

\* A line more: what it drops of the headers no longer should be one, and what
\* it adds comes after all others.
LEMMA LineKept ==
  ASSUME NEW n \in Nat, NEW lines \in Seq(Line), NEW line \in Line,
         NEW headers \in Seq(Nat \X Nat), line.http \/ Kept(headers, n, lines)
  PROVE  LET more == WithLine(headers, line, <<n, Len(lines) + 1>>)
         IN  more \in Seq(Nat \X Nat) /\ Kept(more, n, Append(lines, line))
<1> DEFINE m == Len(lines)
           entry == <<n, m + 1>>
           earlier == IF line.http THEN << >> ELSE headers
           places == IF line.http THEN {} ELSE HeaderPlaces(lines)
           all == Append(lines, line)
           more == WithLine(headers, line, entry)
<1>1. /\ m \in Nat /\ DOMAIN lines = 1..m /\ DOMAIN all = 1..(m + 1)
      /\ \A k \in 1..m : all[k] = lines[k]
      /\ all[m + 1] = line
  OBVIOUS
<1>2. HeaderPlaces(all) = places \cup (IF line.colon THEN {m + 1} ELSE {})
  <2>1. places \subseteq 1..m
    BY <1>1 DEF HeaderPlaces
  <2>2. ASSUME NEW k \in 1..m PROVE k \in HeaderPlaces(all) <=> k \in places
    <3>1. k \in DOMAIN lines /\ k \in DOMAIN all /\ all[k] = lines[k]
          /\ m + 1 \in DOMAIN all /\ m + 1 > k
      BY <1>1
    <3>2. CASE line.http
      <4>1. k \notin HeaderPlaces(all)
        BY <1>1, <3>1, <3>2 DEF HeaderPlaces
      <4>2. QED
        BY <3>2, <4>1
    <3>3. CASE ~line.http
      <4>1. ASSUME NEW j \in DOMAIN all, j > k
            PROVE  \/ j \in DOMAIN lines /\ all[j] = lines[j]
                   \/ ~all[j].http
          <5>1. j \in 1..m \/ j = m + 1
            BY <1>1
          <5>2. CASE j = m + 1
            BY <1>1, <3>3, <5>2
          <5>3. CASE j \in 1..m
            BY <1>1, <5>3
          <5>4. QED
            BY <5>1, <5>2, <5>3
      <4>2. \A j \in DOMAIN lines : j \in DOMAIN all /\ all[j] = lines[j]
        BY <1>1
      <4> HIDE DEF all, m
      <4>3. k \in HeaderPlaces(all) <=> k \in HeaderPlaces(lines)
        BY <3>1, <4>1, <4>2 DEF HeaderPlaces
      <4>4. QED
        BY <3>3, <4>3
    <3>4. QED
      BY <3>2, <3>3
  <2>3. m + 1 \in HeaderPlaces(all) <=> line.colon
    BY <1>1 DEF HeaderPlaces
  <2>4. HeaderPlaces(all) \subseteq 1..(m + 1)
    BY <1>1 DEF HeaderPlaces
  <2>5. \A k \in 1..(m + 1) : k \in 1..m \/ k = m + 1
    BY <1>1
  <2> HIDE DEF m, places, all
  <2>6. m + 1 \notin 1..m
    BY <1>1
  <2>7. QED
    BY <2>1, <2>2, <2>3, <2>4, <2>5, <2>6
<1>3. /\ earlier \in Seq(Nat \X Nat)
      /\ ToSet(earlier) = {<<n, k>> : k \in places}
      /\ \A a, b \in DOMAIN earlier : a < b => earlier[a][2] < earlier[b][2]
  BY DEF Kept, ToSet
<1>4. \A a \in DOMAIN earlier : earlier[a][2] \in 1..m
  <2>1. \A a \in DOMAIN earlier : \E k \in places : earlier[a] = <<n, k>>
    BY <1>3 DEF ToSet
  <2>2. places \subseteq 1..m
    BY <1>1 DEF HeaderPlaces
  <2>3. QED
    BY <2>1, <2>2
<1>5. CASE ~line.colon
  BY <1>2, <1>3, <1>5 DEF Kept, WithLine
<1>6. CASE line.colon
  <2>1. more = Append(earlier, entry)
    BY <1>6 DEF WithLine
  <2> HIDE DEF earlier, places, all, more, m
  <2>2. entry \in Nat \X Nat /\ entry[2] = m + 1
    BY <1>1
  <2>3. /\ more \in Seq(Nat \X Nat) /\ Len(more) = Len(earlier) + 1
        /\ DOMAIN earlier = 1..Len(earlier) /\ DOMAIN more = 1..(Len(earlier) + 1)
        /\ \A a \in 1..Len(earlier) : more[a] = earlier[a]
        /\ more[Len(earlier) + 1] = entry
    BY <1>3, <2>1, <2>2
  <2>4. ToSet(more) = ToSet(earlier) \cup {entry}
    <3>1. \A a \in 1..(Len(earlier) + 1) : a \in 1..Len(earlier) \/ a = Len(earlier) + 1
      BY <1>3
    <3>2. 1..Len(earlier) \subseteq 1..(Len(earlier) + 1) /\ Len(earlier) + 1 \in 1..(Len(earlier) + 1)
      BY <1>3
    <3>3. QED
      BY <2>3, <3>1, <3>2 DEF ToSet
  <2>5. ToSet(more) = {<<n, k>> : k \in HeaderPlaces(all)}
    BY <1>2, <1>3, <1>6, <2>4
  <2>6. ASSUME NEW a \in DOMAIN more, NEW b \in DOMAIN more, a < b
        PROVE  more[a][2] < more[b][2]
    <3>0. /\ Len(earlier) \in Nat
          /\ a \in 1..(Len(earlier) + 1) /\ b \in 1..(Len(earlier) + 1)
      BY <1>3, <2>3, <2>6
    <3>1. a \in 1..Len(earlier) /\ (b \in 1..Len(earlier) \/ b = Len(earlier) + 1)
      BY <2>6, <3>0
    <3>2. CASE b \in 1..Len(earlier)
      BY <1>3, <2>3, <2>6, <3>1, <3>2
    <3>3. CASE b = Len(earlier) + 1
      <4>1. more[b] = entry /\ more[a] = earlier[a] /\ earlier[a][2] \in 1..m
        BY <1>4, <2>3, <3>1, <3>3
      <4>2. QED
        BY <1>1, <2>2, <4>1
    <3>4. QED
      BY <3>1, <3>2, <3>3
  <2>7. QED
    BY <2>3, <2>5, <2>6 DEF Kept, all, more, m
<1>7. QED
  BY <1>5, <1>6

\* What header_callback leaves in the sink of this call.
LEMMA CallbackKeeps ==
  ASSUME sink \in Sinks, NEW line, NEW entry,
         WithLine(sink.headers, line, entry) \in Seq(Nat \X Nat)
  PROVE  LET s == HeaderCallback(sink, line, entry)
         IN  /\ s \in Sinks
             /\ s.headers = WithLine(sink.headers, line, entry)
             /\ s.body = sink.body /\ s.overflowed = sink.overflowed
<1>1. HeaderCallback(sink, line, entry)
        = [sink EXCEPT !.headers = WithLine(sink.headers, line, entry)]
  BY DEF HeaderCallback, WithLine
<1>2. QED
  BY <1>1 DEF Sinks

LEMMA ConcatAt ==
  ASSUME NEW S, NEW a \in Seq(S), NEW b \in Seq(S)
  PROVE  /\ a \o b \in Seq(S)
         /\ Len(a \o b) = Len(a) + Len(b)
         /\ \A k \in 1..Len(a) : (a \o b)[k] = a[k]
         /\ \A k \in 1..Len(b) : (a \o b)[Len(a) + k] = b[k]
OBVIOUS

LEMMA SentMore ==
  ASSUME NEW n \in Nat, NEW m \in Nat, NEW b \in Nat
  PROVE  Sent(n, m) \o [k \in 1..b |-> <<n, m + k>>] = Sent(n, m + b)
<1> DEFINE S == Nat \X Nat
           a == Sent(n, m)
           more == [k \in 1..b |-> <<n, m + k>>]
           all == Sent(n, m + b)
<1>1. more \in Seq(S) /\ Len(more) = b /\ \A k \in 1..b : more[k] = <<n, m + k>>
  OBVIOUS
<1>2. a \in Seq(S) /\ Len(a) = m /\ \A k \in 1..m : a[k] = <<n, k>>
  BY DEF Sent
<1>3. m + b \in Nat
  OBVIOUS
<1>4. all \in Seq(S) /\ Len(all) = m + b /\ \A k \in 1..(m + b) : all[k] = <<n, k>>
  BY <1>3, SentIsSeq DEF Sent
<1> HIDE DEF S, a, more, all
<1>0. a \in Seq(S) /\ more \in Seq(S)
  BY <1>1, <1>2
<1>5. /\ a \o more \in Seq(S)
      /\ Len(a \o more) = Len(a) + Len(more)
      /\ \A k \in 1..Len(a) : (a \o more)[k] = a[k]
      /\ \A k \in 1..Len(more) : (a \o more)[Len(a) + k] = more[k]
  BY <1>0, ConcatAt
<1>6. \A k \in 1..(m + b) : (a \o more)[k] = <<n, k>>
  <2>1. SUFFICES ASSUME NEW k \in 1..(m + b)
                 PROVE  (a \o more)[k] = <<n, k>>
    OBVIOUS
  <2>2. CASE k <= m
    <3>1. k \in 1..Len(a)
      BY <1>2, <2>2
    <3>2. QED
      BY <1>2, <1>5, <3>1
  <2>3. CASE ~(k <= m)
    <3>1. k - m \in 1..b /\ m + (k - m) = k
      BY <2>3
    <3>2. (a \o more)[m + (k - m)] = more[k - m]
      BY <1>1, <1>2, <1>5, <3>1
    <3>3. QED
      BY <1>1, <3>1, <3>2
  <2>4. QED
    BY <2>2, <2>3
<1>7. Len(a \o more) = m + b
  BY <1>1, <1>2, <1>5
<1>8. a \o more = all
  BY <1>4, <1>5, <1>6, <1>7, SeqEqual
<1>9. QED
  BY <1>8 DEF a, more, all

\* What is left of the limit does not wrap round while the limit is kept.
LEMMA NoWrap ==
  ASSUME NEW max \in Nat, NEW a \in 0..max
  PROVE  a % (max + 1) = a
OBVIOUS
----------------------------------------------------------------------------
LEMMA OptionNames ==
  /\ Len(OptionOrder) = 13
  /\ DOMAIN OptionOrder = 1..13
  /\ {"SSL_VERIFY", "WRITEDATA", "HEADERDATA"} \subseteq ToSet(OptionOrder)
  /\ \A p \in 1..12 : OptionOrder[p] # "SSL_VERIFY"
<1>1. Len(OptionOrder) = 13
  BY DEF OptionOrder
<1>2. /\ OptionOrder[13] = "SSL_VERIFY" /\ OptionOrder[4] = "WRITEDATA"
      /\ OptionOrder[5] = "HEADERDATA"
  BY DEF OptionOrder
<1>3. DOMAIN OptionOrder = 1..13
  BY DEF OptionOrder
<1>4. {"SSL_VERIFY", "WRITEDATA", "HEADERDATA"} \subseteq ToSet(OptionOrder)
  BY <1>2, <1>3 DEF ToSet
<1>5. \A p \in 1..12 : OptionOrder[p] # "SSL_VERIFY"
  <2>1. \A p \in 1..12 : p \in {1, 2, 3, 4, 5, 6, 7, 8, 9, 10, 11, 12}
    OBVIOUS
  <2>2. \A p \in {1, 2, 3, 4, 5, 6, 7, 8, 9, 10, 11, 12} : OptionOrder[p] # "SSL_VERIFY"
    BY DEF OptionOrder
  <2>3. QED
    BY <2>1, <2>2
<1>6. QED
  BY <1>1, <1>3, <1>4, <1>5

LEMMA SettingSome ==
  ASSUME NEW n \in 0..Len(OptionOrder), NEW when \in {"earlier", "now"}, options = Unset
  PROVE  /\ SetFirst(n, when) \in [ToSet(OptionOrder) -> {"unset", "earlier", "now"}]
         /\ n < Len(OptionOrder) => SetFirst(n, when)["SSL_VERIFY"] # "now"
         /\ when = "earlier" => SetFirst(n, when)["SSL_VERIFY"] # "now"
         /\ n = Len(OptionOrder) => \A o \in ToSet(OptionOrder) : SetFirst(n, when)[o] = when
<1>1. DOMAIN options = ToSet(OptionOrder) /\ \A o \in ToSet(OptionOrder) : options[o] = "unset"
  BY DEF Unset
<1>2. \A o \in ToSet(OptionOrder) :
        SetFirst(n, when)[o] = IF \E p \in 1..n : OptionOrder[p] = o THEN when ELSE "unset"
  BY <1>1 DEF SetFirst
<1>3. SetFirst(n, when) \in [ToSet(OptionOrder) -> {"unset", "earlier", "now"}]
  BY <1>1 DEF SetFirst
<1>4. n < Len(OptionOrder) => \A p \in 1..n : OptionOrder[p] # "SSL_VERIFY"
  BY OptionNames
<1>5. n = Len(OptionOrder) => \A o \in ToSet(OptionOrder) : \E p \in 1..n : OptionOrder[p] = o
  BY OptionNames DEF ToSet
<1>6. QED
  BY <1>2, <1>3, <1>4, <1>5, OptionNames
----------------------------------------------------------------------------
LEMMA StartTyped ==
  /\ EmptySink \in Sinks
  /\ NothingYet \in Wires
  /\ Unset \in [ToSet(OptionOrder) -> {"unset", "earlier", "now"}]
<1>1. EmptySink \in Sinks
  BY DEF EmptySink, Sinks
<1>2. NothingYet \in Wires
  <2>1. MaxResponses \in Nat
    BY TransferAssumption
  <2>2. 0 \in 0..MaxResponses /\ 0 \in Nat /\ 1 \in Nat
    BY <2>1
  <2>3. QED
    BY <2>2 DEF NothingYet, Wires, Codes
<1>3. Unset \in [ToSet(OptionOrder) -> {"unset", "earlier", "now"}]
  BY DEF Unset
<1>4. QED
  BY <1>1, <1>2, <1>3

LEMMA CallInitially == Init => CallInv
<1> SUFFICES ASSUME Init PROVE CallInv
  OBVIOUS
<1> USE DEF Init, Error
<1>1. LivesInv
  BY LivesInitially
<1>2. options = Unset /\ Unset["SSL_VERIFY"] = "unset"
  BY OptionNames DEF Unset
<1>3. CallTyped
  BY StartTyped DEF CallTyped
<1>4. HandleThere /\ OptionsInStep /\ Answered /\ ~Ran
  BY <1>2 DEF HandleThere, OptionsInStep, Answered, Ran
<1>5. QED
  BY <1>1, <1>3, <1>4 DEF CallInv

\* Early returns of a call that has not got to curl_easy_perform.
LEMMA GetKeeps ==
  ASSUME CallInv, NEW c \in Client, NEW valid_path \in BOOLEAN, Get(c, valid_path),
         UNCHANGED lifeVars
  PROVE  CallInv'
<1>1. /\ step = "idle" /\ options = Unset /\ impl_[c] # NoObject
      /\ caller' = c /\ UNCHANGED <<sink, wire>>
  BY DEF Get, CallInv, OptionsInStep
<1>2. PICK n \in 0..Len(OptionOrder) : options' = SetFirst(n, "earlier")
  BY DEF Get
<1>3. /\ options' \in [ToSet(OptionOrder) -> {"unset", "earlier", "now"}]
      /\ options'["SSL_VERIFY"] # "now"
  BY <1>1, <1>2, SettingSome
<1>4. \/ step' = "returned" /\ returned'.kind = "error"
      \/ step' = "headers" /\ returned' = returned /\ Usable(c)
  BY DEF Get, Return, Error
<1>5. UNCHANGED <<impl_, curl, runtime, holders, exited, config>> /\ LivesInv'
  BY LivesPreserved DEF lifeVars, CallInv
<1>6. Usable(c) => impl_[c] \in Impl /\ curl[impl_[c]] = "open"
  BY DEF Usable, CallInv, LivesInv
<1>7. CallTyped'
  BY <1>1, <1>3, <1>4, TransferAssumption DEF CallInv, CallTyped
<1>8. HandleThere'
  BY <1>1, <1>4, <1>5, <1>6 DEF HandleThere
<1>9. OptionsInStep' /\ ~Ran'
  BY <1>3, <1>4 DEF OptionsInStep, Ran
<1>10. Answered'
  BY <1>1, <1>4, <1>9 DEF CallInv, Answered, Ran
<1>11. QED
  BY <1>5, <1>7, <1>8, <1>9, <1>10 DEF CallInv

\* The steps before curl_easy_perform: none of them is on a call that ran.
LEMMA PreparingKeeps ==
  ASSUME CallInv, BuildHeaders \/ Reset, UNCHANGED lifeVars
  PROVE  CallInv'
<1>1. /\ step \in {"headers", "reset"} /\ caller' = caller /\ wire' = wire
      /\ caller \in Client
  BY DEF BuildHeaders, Reset, CallInv, CallTyped
<1>2. UNCHANGED <<impl_, curl, runtime, holders, exited, config>> /\ LivesInv'
  BY LivesPreserved DEF lifeVars, CallInv
<1>3. \/ step' = "returned" /\ returned'.kind = "error" /\ UNCHANGED <<options, sink>>
      \/ step' = "reset" /\ UNCHANGED <<returned, options, sink>>
      \/ step' = "configure" /\ options' = Unset /\ sink' = EmptySink /\ returned' = returned
  <2>1. CASE BuildHeaders
    <3>1. /\ UNCHANGED <<options, sink>>
          /\ \/ step' = "reset" /\ UNCHANGED returned
             \/ Return(Error("InvalidRequest"))
             \/ Return(Error("NetworkError"))
      BY <2>1 DEF BuildHeaders
    <3>2. QED
      BY <3>1 DEF Return, Error
  <2>2. CASE Reset
    BY <2>2 DEF Reset
  <2>3. QED
    BY <2>1, <2>2
<1>4. options["SSL_VERIFY"] # "now" /\ Unset["SSL_VERIFY"] # "now"
  BY <1>1, OptionNames DEF CallInv, OptionsInStep, Unset
<1>5. CallTyped'
  BY <1>1, <1>3, StartTyped DEF CallInv, CallTyped
<1>6. HandleThere'
  BY <1>1, <1>2, <1>3 DEF CallInv, HandleThere
<1>7. OptionsInStep' /\ ~Ran'
  BY <1>3, <1>4 DEF OptionsInStep, Ran
<1>8. Answered'
  BY <1>1, <1>3, <1>7 DEF CallInv, Answered, Ran
<1>9. QED
  BY <1>2, <1>5, <1>6, <1>7, <1>8 DEF CallInv

\* A call gets to curl_easy_perform with all options set, and an empty sink.
LEMMA ConfigureKeeps ==
  ASSUME CallInv, Configure, UNCHANGED lifeVars
  PROVE  CallInv'
<1>1. /\ step = "configure" /\ options = Unset /\ sink = EmptySink
      /\ UNCHANGED <<caller, sink>>
      /\ caller \in Client
  BY DEF Configure, CallInv, OptionsInStep, CallTyped
<1>2. PICK n \in 0..Len(OptionOrder) :
        /\ options' = SetFirst(n, "now")
        /\ \/ n < Len(OptionOrder) /\ Return(Error("NetworkError")) /\ UNCHANGED wire
           \/ n = Len(OptionOrder) /\ step' = "perform" /\ wire' = NothingYet /\ UNCHANGED returned
  BY OptionNames DEF Configure, RefusedIsFatal
<1>3. /\ options' \in [ToSet(OptionOrder) -> {"unset", "earlier", "now"}]
      /\ n < Len(OptionOrder) => options'["SSL_VERIFY"] # "now"
      /\ n = Len(OptionOrder) => \A o \in ToSet(OptionOrder) : options'[o] = "now"
  BY <1>1, <1>2, SettingSome
<1>4. UNCHANGED <<impl_, curl, runtime, holders, exited, config>> /\ LivesInv'
  BY LivesPreserved DEF lifeVars, CallInv
<1>5. impl_[caller] \in Impl /\ curl[impl_[caller]] = "open"
  BY <1>1 DEF CallInv, HandleThere
<1>6. CASE n < Len(OptionOrder)
  <2>1. step' = "returned" /\ returned'.kind = "error" /\ wire' = wire
    BY <1>2, <1>6 DEF Return, Error
  <2>2. CallTyped'
    BY <1>1, <1>3, <2>1 DEF CallInv, CallTyped
  <2>3. HandleThere' /\ OptionsInStep' /\ ~Ran'
    BY <1>3, <1>6, <2>1 DEF HandleThere, OptionsInStep, Ran
  <2>4. Answered'
    BY <2>1, <2>3 DEF Answered
  <2>5. QED
    BY <1>4, <2>2, <2>3, <2>4 DEF CallInv
<1>7. CASE n = Len(OptionOrder)
  <2>1. step' = "perform" /\ wire' = NothingYet /\ returned' = returned
    BY <1>2, <1>7, OptionNames
  <2>2. CallTyped'
    BY <1>1, <1>3, <2>1, StartTyped, ClientsAssumption DEF CallInv, CallTyped
  <2>3. HandleThere' /\ OptionsInStep'
    BY <1>1, <1>3, <1>4, <1>5, <1>7, <2>1 DEF HandleThere, OptionsInStep
  <2>4. Received'
    <3>1. wire' = NothingYet /\ sink' = EmptySink
      BY <1>1, <2>1
    <3>2. Settings'.max_response_bytes \in 0..SizeMax
      BY <1>1, <1>4, <1>5, TransferAssumption
         DEF Settings, CallInv, LivesInv, ClientConfig
    <3>3. QED
      BY <3>1, <3>2, NothingSent, NothingKept, TransferAssumption
         DEF Received, NothingYet, EmptySink
  <2>5. Answered'
    BY <1>1, <2>1 DEF CallInv, Answered
  <2>6. QED
    BY <1>4, <2>2, <2>3, <2>4, <2>5 DEF CallInv
<1>8. QED
  BY <1>2, <1>6, <1>7
----------------------------------------------------------------------------
\* While curl_easy_perform runs, every option is set, and it is the sink of
\* this call that the callbacks reach.
LEMMA Performing_ ==
  ASSUME CallInv, step = "perform"
  PROVE  /\ Received /\ Ran
         /\ impl_[caller] \in Impl
         /\ Settings \in ClientConfig
         /\ \A s : \A o \in {"WRITEDATA", "HEADERDATA"} : Into(o, s) = s
<1>1. impl_[caller] \in Impl /\ caller \in Client
  BY DEF CallInv, HandleThere, CallTyped
<1>2. \A o \in {"SSL_VERIFY", "WRITEDATA", "HEADERDATA"} : options[o] = "now"
  BY OptionNames DEF CallInv, OptionsInStep
<1>3. Ran /\ Received
  BY <1>2 DEF CallInv, Ran
<1>4. Settings \in ClientConfig
  BY <1>1, TransferAssumption DEF Settings, CallInv, LivesInv
<1>5. QED
  BY <1>1, <1>2, <1>3, <1>4 DEF Into

\* It is enough that what has arrived is what was received.
LEMMA ArrivalKeeps ==
  ASSUME CallInv, step = "perform", UNCHANGED lifeVars,
         UNCHANGED <<caller, step, options, returned>>,
         sink' \in Sinks, wire' \in Wires, Received'
  PROVE  CallInv'
<1>1. UNCHANGED <<impl_, curl, runtime, holders, exited, config>> /\ LivesInv'
  BY LivesPreserved DEF lifeVars, CallInv
<1>2. CallTyped' /\ HandleThere' /\ OptionsInStep'
  BY <1>1 DEF CallInv, CallTyped, HandleThere, OptionsInStep
<1>3. Answered'
  BY DEF CallInv, Answered
<1>4. QED
  BY <1>1, <1>2, <1>3 DEF CallInv

LEMMA SettingsStay ==
  ASSUME UNCHANGED lifeVars, UNCHANGED caller
  PROVE  Settings' = Settings
BY DEF lifeVars, Settings

LEMMA EndedTyped ==
  ASSUME wire \in Wires, NEW code \in Codes
  PROVE  /\ Ended(code) \in Wires
         /\ Ended(code).stage = "ended" /\ Ended(code).offered = wire.offered
         /\ Ended(code).number = wire.number /\ Ended(code).lines = wire.lines
         /\ Ended(code).requests = wire.requests
BY DEF Wires, Ended

LEMMA StatusLineKeeps ==
  ASSUME CallInv, StatusLine, UNCHANGED lifeVars
  PROVE  CallInv'
<1>1. /\ step = "perform" /\ wire.stage = "asked" /\ wire.number < MaxResponses
      /\ UNCHANGED <<caller, step, options, returned>>
  BY DEF StatusLine, Performing
<1>2. PICK status \in {"interim", "redirect", "final"}, line \in {l \in Line : l.http} :
        /\ wire' = [wire EXCEPT !.stage = "head", !.number = @ + 1, !.status = status,
                                !.lines = <<line>>, !.offered = 0]
        /\ sink' = HeaderCallback(sink, line, <<wire.number + 1, 1>>)
  <2>1. \A s : Into("HEADERDATA", s) = s
    BY <1>1, Performing_
  <2>2. QED
    BY <2>1 DEF StatusLine
<1>3. sink \in Sinks /\ wire \in Wires /\ Received
  BY <1>1, Performing_ DEF CallInv, CallTyped
<1>4. wire.number + 1 \in 0..MaxResponses /\ wire.number + 1 \in Nat
  BY <1>1, <1>3, TransferAssumption DEF Wires
<1>5. /\ sink' \in Sinks /\ Kept(sink'.headers, wire.number + 1, <<line>>)
      /\ sink'.body = sink.body /\ sink'.overflowed = sink.overflowed
  <2>1. << >> \in Seq(Line) /\ Len(<< >>) = 0 /\ Append(<< >>, line) = <<line>>
    OBVIOUS
  <2>2. sink.headers \in Seq(Nat \X Nat) /\ line \in Line /\ line.http
    BY <1>3 DEF Sinks
  <2>3. /\ WithLine(sink.headers, line, <<wire.number + 1, 0 + 1>>) \in Seq(Nat \X Nat)
        /\ Kept(WithLine(sink.headers, line, <<wire.number + 1, 0 + 1>>),
                wire.number + 1, <<line>>)
    BY <1>4, <2>1, <2>2, LineKept
  <2>4. 0 + 1 = 1
    OBVIOUS
  <2>5. QED
    BY <1>2, <1>3, <2>3, <2>4, CallbackKeeps
<1>6. /\ wire' \in Wires /\ wire'.stage = "head" /\ wire'.offered = 0
      /\ wire'.lines = <<line>> /\ wire'.number = wire.number + 1
      /\ wire'.requests = wire.requests
  <2>1. <<line>> \in Seq(Line)
    OBVIOUS
  <2>2. QED
    BY <1>2, <1>3, <1>4, <2>1 DEF Wires
<1>7. Received'
  <2>1. ~sink.overflowed /\ sink.body = << >> /\ wire.offered = 0
    BY <1>1, <1>3, NothingSent DEF Received
  <2>2. QED
    BY <1>1, <1>3, <1>5, <1>6, <2>1, NothingSent, SettingsStay DEF Received
<1>8. QED
  BY <1>1, <1>5, <1>6, <1>7, ArrivalKeeps

LEMMA HeaderLineKeeps ==
  ASSUME CallInv, HeaderLine, UNCHANGED lifeVars
  PROVE  CallInv'
<1>1. /\ step = "perform" /\ wire.stage \in {"head", "body"}
      /\ UNCHANGED <<caller, step, options, returned>>
  BY DEF HeaderLine, Performing
<1>2. PICK line \in Line :
        /\ wire' = [wire EXCEPT !.lines = Append(@, line)]
        /\ sink' = HeaderCallback(sink, line, <<wire.number, Len(wire.lines) + 1>>)
  <2>1. \A s : Into("HEADERDATA", s) = s
    BY <1>1, Performing_
  <2>2. QED
    BY <2>1 DEF HeaderLine
<1>3. sink \in Sinks /\ wire \in Wires /\ Received
  BY <1>1, Performing_ DEF CallInv, CallTyped
<1>4. wire.number \in Nat /\ wire.lines \in Seq(Line)
  BY <1>3, TransferAssumption DEF Wires
<1>5. /\ sink' \in Sinks /\ Kept(sink'.headers, wire.number, Append(wire.lines, line))
      /\ sink'.body = sink.body /\ sink'.overflowed = sink.overflowed
  <2>1. sink.headers \in Seq(Nat \X Nat) /\ Kept(sink.headers, wire.number, wire.lines)
    BY <1>3 DEF Sinks, Received
  <2>2. /\ WithLine(sink.headers, line, <<wire.number, Len(wire.lines) + 1>>)
              \in Seq(Nat \X Nat)
        /\ Kept(WithLine(sink.headers, line, <<wire.number, Len(wire.lines) + 1>>),
                wire.number, Append(wire.lines, line))
    BY <1>4, <2>1, LineKept
  <2>3. QED
    BY <1>2, <1>3, <2>2, CallbackKeeps
<1>6. /\ wire' \in Wires /\ wire'.stage = wire.stage /\ wire'.offered = wire.offered
      /\ wire'.number = wire.number /\ wire'.requests = wire.requests
      /\ wire'.lines = Append(wire.lines, line)
  <2>1. Append(wire.lines, line) \in Seq(Line)
    BY <1>4
  <2>2. QED
    BY <1>2, <1>3, <2>1 DEF Wires
<1>7. Received'
  BY <1>1, <1>3, <1>5, <1>6, SettingsStay DEF Received
<1>8. QED
  BY <1>1, <1>5, <1>6, <1>7, ArrivalKeeps

\* A redirect is followed only without headers of the caller's.
LEMMA EndOfHeadKeeps ==
  ASSUME CallInv, EndOfHead, UNCHANGED lifeVars
  PROVE  CallInv'
<1>1. /\ step = "perform" /\ wire.stage = "head"
      /\ UNCHANGED <<caller, step, options, sink, returned>>
  BY DEF EndOfHead, Performing
<1>2. sink \in Sinks /\ wire \in Wires /\ Received
  BY <1>1, Performing_ DEF CallInv, CallTyped
<1>3. \/ wire' = [wire EXCEPT !.stage = "asked"]
      \/ Redirected /\ wire' = [wire EXCEPT !.stage = "asked", !.requests = @ + 1]
      \/ wire' = Ended("TOO_MANY_REDIRECTS")
      \/ wire' = [wire EXCEPT !.stage = "body"]
  BY DEF EndOfHead
<1>4. /\ wire' \in Wires /\ wire'.offered = wire.offered /\ wire'.number = wire.number
      /\ wire'.lines = wire.lines
      /\ wire'.requests = wire.requests \/ Settings.extra_headers = << >>
  <2>1. CASE wire' = [wire EXCEPT !.stage = "asked"] \/ wire' = [wire EXCEPT !.stage = "body"]
    BY <1>2, <2>1 DEF Wires
  <2>2. CASE Redirected /\ wire' = [wire EXCEPT !.stage = "asked", !.requests = @ + 1]
    <3>1. Settings.extra_headers = << >>
      BY <2>2 DEF Redirected, FollowLocation
    <3>2. wire' = [wire EXCEPT !.stage = "asked", !.requests = @ + 1]
      BY <2>2
    <3>3. wire.requests + 1 \in Nat
      BY <1>2 DEF Wires
    <3>4. wire' \in Wires
      BY <1>2, <3>2, <3>3 DEF Wires
    <3>5. wire'.offered = wire.offered /\ wire'.number = wire.number /\ wire'.lines = wire.lines
      BY <1>2, <3>2 DEF Wires
    <3>6. QED
      BY <3>1, <3>4, <3>5
  <2>3. CASE wire' = Ended("TOO_MANY_REDIRECTS")
    <3>1. "TOO_MANY_REDIRECTS" \in Codes
      BY DEF Codes
    <3>2. QED
      BY <1>2, <2>3, <3>1, EndedTyped
  <2>4. QED
    BY <1>3, <2>1, <2>2, <2>3
<1>5. wire.offered = 0 /\ ~sink.overflowed
  BY <1>1, <1>2 DEF Received
<1>6. Received'
  BY <1>1, <1>2, <1>4, <1>5, SettingsStay DEF Received
<1>7. QED
  BY <1>1, <1>2, <1>4, <1>6, ArrivalKeeps

\* A chunk that still fits is kept; one that does not ends the transfer.
LEMMA ChunkKeeps ==
  ASSUME CallInv, NEW bytes \in 1..MaxBytes, Chunk(bytes), UNCHANGED lifeVars
  PROVE  CallInv'
<1> DEFINE limit == Settings.max_response_bytes
<1>1. /\ step = "perform" /\ wire.stage = "body"
      /\ UNCHANGED <<caller, step, options, returned>>
  BY DEF Chunk, Performing
<1>2. sink \in Sinks /\ wire \in Wires /\ Received /\ Settings \in ClientConfig
  BY <1>1, Performing_ DEF CallInv, CallTyped
<1>3. /\ SizeMax \in Nat /\ limit \in 0..SizeMax /\ bytes \in Nat
      /\ wire.number \in Nat /\ wire.offered \in Nat /\ wire.offered + bytes \in Nat
  BY <1>2, TransferAssumption DEF Wires, ClientConfig
<1>4. /\ ~sink.overflowed /\ sink.body = Sent(wire.number, wire.offered)
      /\ Len(sink.body) = wire.offered
      /\ limit > 0 => wire.offered <= limit
  <2>1. /\ ~sink.overflowed /\ sink.body = Sent(wire.number, wire.offered)
        /\ limit > 0 => wire.offered <= limit
    BY <1>1, <1>2 DEF Received
  <2>2. Len(Sent(wire.number, wire.offered)) = wire.offered
    BY <1>3, SentIsSeq
  <2>3. QED
    BY <2>1, <2>2
<1>5. TooLarge(bytes) <=> limit > 0 /\ wire.offered + bytes > limit
  <2>1. CASE limit > 0
    <3>1. limit - wire.offered \in 0..SizeMax
      BY <1>3, <1>4, <2>1
    <3>2. (limit - wire.offered) % (SizeMax + 1) = limit - wire.offered
      BY <1>3, <3>1, NoWrap
    <3>3. TooLarge(bytes) <=> bytes > limit - wire.offered
      BY <1>4, <2>1, <3>2 DEF TooLarge
    <3>4. QED
      BY <1>3, <2>1, <3>3
  <2>2. CASE ~(limit > 0)
    BY <2>2 DEF TooLarge
  <2>3. QED
    BY <2>1, <2>2
<1>6. CASE TooLarge(bytes)
  <2>1. /\ sink' = [sink EXCEPT !.overflowed = TRUE]
        /\ wire' = [Ended("WRITE_ERROR") EXCEPT !.offered = @ + bytes]
    BY <1>1, <1>6, Performing_ DEF Chunk
  <2>2. /\ sink' \in Sinks /\ wire' \in Wires
        /\ sink'.overflowed /\ sink'.body = sink.body /\ sink'.headers = sink.headers
        /\ wire'.stage = "ended" /\ wire'.offered = wire.offered + bytes
        /\ wire'.number = wire.number /\ wire'.lines = wire.lines
        /\ wire'.requests = wire.requests
    <3>1. /\ sink' \in Sinks /\ sink'.overflowed
          /\ sink'.body = sink.body /\ sink'.headers = sink.headers
      BY <1>2, <2>1 DEF Sinks
    <3>2. /\ Ended("WRITE_ERROR") \in Wires /\ Ended("WRITE_ERROR").stage = "ended"
          /\ Ended("WRITE_ERROR").offered = wire.offered
          /\ Ended("WRITE_ERROR").number = wire.number
          /\ Ended("WRITE_ERROR").lines = wire.lines
          /\ Ended("WRITE_ERROR").requests = wire.requests
      <4>1. "WRITE_ERROR" \in Codes
        BY DEF Codes
      <4>2. QED
        BY <1>2, <4>1, EndedTyped
    <3>3. /\ wire' \in Wires
          /\ wire'.stage = "ended" /\ wire'.offered = wire.offered + bytes
          /\ wire'.number = wire.number /\ wire'.lines = wire.lines
          /\ wire'.requests = wire.requests
      BY <1>3, <2>1, <3>2 DEF Wires
    <3>4. QED
      BY <3>1, <3>3
  <2>3. limit > 0 /\ wire.offered + bytes > limit /\ Len(sink.body) <= limit
    BY <1>4, <1>5, <1>6
  <2>4. Received'
    BY <1>1, <1>2, <2>2, <2>3, SettingsStay DEF Received
  <2>5. QED
    BY <1>1, <2>2, <2>4, ArrivalKeeps
<1>7. CASE ~TooLarge(bytes)
  <2>1. /\ sink' = [sink EXCEPT !.body = @ \o [k \in 1..bytes |-> <<wire.number, wire.offered + k>>]]
        /\ wire' = [wire EXCEPT !.offered = @ + bytes]
    BY <1>1, <1>7, Performing_ DEF Chunk, OnBytes
  <2>2. sink.body \o [k \in 1..bytes |-> <<wire.number, wire.offered + k>>]
          = Sent(wire.number, wire.offered + bytes)
    <3>1. Sent(wire.number, wire.offered) \o [k \in 1..bytes |-> <<wire.number, wire.offered + k>>]
            = Sent(wire.number, wire.offered + bytes)
      BY <1>3, SentMore
    <3>2. QED
      BY <1>4, <3>1
  <2>3. Sent(wire.number, wire.offered + bytes) \in Seq(Nat \X Nat)
    BY <1>3, SentIsSeq
  <2>4. /\ sink' \in Sinks /\ wire' \in Wires
        /\ sink'.overflowed = sink.overflowed /\ sink'.headers = sink.headers
        /\ sink'.body = Sent(wire.number, wire.offered + bytes)
        /\ wire'.stage = wire.stage /\ wire'.offered = wire.offered + bytes
        /\ wire'.number = wire.number /\ wire'.lines = wire.lines
        /\ wire'.requests = wire.requests
    BY <1>2, <1>3, <2>1, <2>2, <2>3 DEF Sinks, Wires
  <2>5. limit > 0 => wire.offered + bytes <= limit
    BY <1>3, <1>5, <1>7
  <2>6. Received'
    BY <1>1, <1>2, <1>4, <2>4, <2>5, SettingsStay DEF Received
  <2>7. QED
    BY <1>1, <2>4, <2>6, ArrivalKeeps
<1>8. QED
  BY <1>6, <1>7

\* The transfer ends, for whatever reason.
LEMMA EndKeeps ==
  ASSUME CallInv, Complete \/ Break \/ TimesOut, UNCHANGED lifeVars
  PROVE  CallInv'
<1>1. /\ step = "perform" /\ wire.stage # "ended"
      /\ UNCHANGED <<caller, step, options, sink, returned>>
      /\ \E code \in Codes : wire' = Ended(code)
  <2>1. /\ step = "perform" /\ wire.stage # "ended"
        /\ UNCHANGED <<caller, step, options, sink, returned>>
        /\ wire' = Ended("OK") \/ wire' = Ended("FAILED") \/ wire' = Ended("OPERATION_TIMEDOUT")
    BY DEF Complete, Break, TimesOut, Performing
  <2>2. QED
    BY <2>1 DEF Codes
<1>2. sink \in Sinks /\ wire \in Wires /\ Received
  BY <1>1, Performing_ DEF CallInv, CallTyped
<1>3. /\ wire' \in Wires /\ wire'.stage = "ended"
      /\ wire'.offered = wire.offered /\ wire'.number = wire.number
      /\ wire'.lines = wire.lines /\ wire'.requests = wire.requests
  BY <1>1, <1>2, EndedTyped
<1>4. Received'
  BY <1>1, <1>2, <1>3, SettingsStay DEF Received
<1>5. QED
  BY <1>1, <1>2, <1>3, <1>4, ArrivalKeeps

\* What the call returns is the sink, or an error: InvalidRequest if and only
\* if the sink overflowed.
LEMMA PerformedKeeps ==
  ASSUME CallInv, Performed, UNCHANGED lifeVars
  PROVE  CallInv'
<1>1. /\ step = "perform" /\ step' = "returned"
      /\ UNCHANGED <<caller, options, sink, wire>>
      /\ returned' \in Conclusion
  BY DEF Performed, Return
<1>2. /\ Ran /\ Received /\ impl_[caller] \in Impl
      /\ options["SSL_VERIFY"] = "now"
  <2>1. Ran /\ Received /\ impl_[caller] \in Impl
    BY <1>1, Performing_
  <2>2. QED
    BY <2>1 DEF Ran
<1>3. UNCHANGED <<impl_, curl, runtime, holders, exited, config>> /\ LivesInv'
  BY LivesPreserved DEF lifeVars, CallInv
<1>4. CallTyped'
  BY <1>1 DEF CallInv, CallTyped
<1>5. HandleThere' /\ OptionsInStep' /\ Ran'
  BY <1>1, <1>2, <1>3 DEF HandleThere, OptionsInStep, Ran
<1>6. Received'
  BY <1>1, <1>2, SettingsStay DEF Received
<1>7. Answered'
  <2>1. CASE sink.overflowed
    <3>1. returned' = Error("InvalidRequest")
      BY <1>1, <2>1 DEF Conclusion
    <3>2. QED
      BY <1>1, <1>5, <2>1, <3>1 DEF Answered, Error
  <2>2. CASE ~sink.overflowed
    <3>1. \/ returned' = Error("NetworkError")
          \/ returned' = [kind |-> "response", status |-> wire.status,
                          body |-> sink.body, headers |-> sink.headers]
      BY <1>1, <2>2 DEF Conclusion
    <3>2. returned' # Error("InvalidRequest")
      BY <3>1 DEF Error
    <3>3. returned'.kind = "response" => /\ returned'.body = sink.body
                                         /\ returned'.headers = sink.headers
                                         /\ returned'.status = wire.status
      BY <3>1 DEF Error
    <3>4. QED
      BY <1>1, <1>5, <2>2, <3>2, <3>3 DEF Answered
  <2>3. QED
    BY <2>1, <2>2
<1>8. QED
  BY <1>3, <1>4, <1>5, <1>6, <1>7 DEF CallInv

LEMMA LeaveKeeps ==
  ASSUME CallInv, Leave, UNCHANGED lifeVars
  PROVE  CallInv'
<1>1. /\ step' = "idle" /\ caller' = Null /\ options' = Unset
      /\ sink' = EmptySink /\ wire' = NothingYet /\ returned' = Error("none")
  BY DEF Leave
<1>2. LivesInv'
  BY LivesPreserved DEF CallInv
<1>3. CallTyped'
  BY <1>1, StartTyped DEF CallTyped
<1>4. Unset["SSL_VERIFY"] # "now"
  BY OptionNames DEF Unset
<1>5. HandleThere' /\ OptionsInStep' /\ ~Ran'
  BY <1>1, <1>4 DEF HandleThere, OptionsInStep, Ran
<1>6. Answered'
  BY <1>1 DEF Answered, Error
<1>7. QED
  BY <1>2, <1>3, <1>5, <1>6 DEF CallInv

\* Clients come and go while a call runs on one of them that stays.
LEMMA LivesKeep ==
  ASSUME CallInv, [Lives]_lifeVars, UNCHANGED callVars,
         caller # Null => impl_'[caller] = impl_[caller]
  PROVE  CallInv'
<1>1. UNCHANGED <<caller, step, options, sink, wire, returned>>
  BY DEF callVars
<1>2. LivesInv'
  BY LivesPreserved DEF CallInv
<1>3. CallTyped'
  BY <1>1 DEF CallInv, CallTyped
<1>4. ASSUME impl_[caller] \in Impl, step # "idle"
      PROVE  /\ impl_'[caller] = impl_[caller]
             /\ curl'[impl_[caller]] = curl[impl_[caller]]
             /\ Settings' = Settings
  <2>1. caller \in Client /\ caller # Null
    BY <1>4 DEF CallInv, CallTyped
  <2>2. impl_'[caller] = impl_[caller] /\ LivesInv
    BY <2>1 DEF CallInv
  <2>3. /\ curl'[impl_[caller]] = curl[impl_[caller]]
        /\ config'[impl_[caller]] = config[impl_[caller]]
    BY <1>4, <2>1, <2>2, OthersLeaveItAlone
  <2>4. Settings' = Settings
    BY <1>1, <2>2, <2>3 DEF Settings
  <2>5. QED
    BY <2>2, <2>3, <2>4
<1>5. HandleThere'
  BY <1>1, <1>4 DEF CallInv, HandleThere
<1>6. OptionsInStep'
  BY <1>1, <1>4 DEF CallInv, OptionsInStep
<1>7. ASSUME Ran' PROVE Received'
  <2>1. Ran /\ Received /\ impl_[caller] \in Impl /\ step # "idle"
    BY <1>1, <1>7 DEF CallInv, OptionsInStep, Ran
  <2>2. Settings' = Settings
    BY <1>4, <2>1
  <2>3. QED
    BY <1>1, <2>1, <2>2 DEF Received
<1>8. Answered'
  BY <1>1 DEF CallInv, Answered, Ran
<1>9. QED
  BY <1>2, <1>3, <1>5, <1>6, <1>7, <1>8 DEF CallInv

LEMMA NextKeeps == CallInv /\ [Next]_vars => CallInv'
<1>1. SUFFICES ASSUME CallInv, [Next]_vars PROVE CallInv'
  OBVIOUS
<1>2. CASE UNCHANGED lifeVars /\ \E c \in Client, valid_path \in BOOLEAN : Get(c, valid_path)
  BY <1>1, <1>2, GetKeeps
<1>3. CASE UNCHANGED lifeVars /\ Proceed
  BY <1>1, <1>3, PreparingKeeps, ConfigureKeeps, PerformedKeeps, LeaveKeeps DEF Proceed
<1>4. CASE UNCHANGED lifeVars /\ (Arrive \/ Break \/ TimesOut)
  BY <1>1, <1>4, StatusLineKeeps, HeaderLineKeeps, EndOfHeadKeeps, ChunkKeeps, EndKeeps
     DEF Arrive
<1>5. CASE Lives /\ (caller # Null => impl_'[caller] = impl_[caller]) /\ UNCHANGED callVars
  BY <1>1, <1>5, LivesKeep
<1>6. CASE UNCHANGED vars
  <2>1. UNCHANGED callVars /\ [Lives]_lifeVars /\ impl_' = impl_
    BY <1>6 DEF vars, lifeVars
  <2>2. QED
    BY <1>1, <2>1, LivesKeep
<1>7. QED
  BY <1>1, <1>2, <1>3, <1>4, <1>5, <1>6 DEF Next

LEMMA CallInvAlways == Spec => []CallInv
BY CallInitially, NextKeeps, PTL DEF Spec
----------------------------------------------------------------------------
\* Every client, call and response stays what it is declared to be, and a call
\* that runs has its handle (the checks at the top of get).
THEOREM CallsTyped == Spec => []TypeOK
<1>1. CallInv => TypeOK
  <2>1. SUFFICES ASSUME CallInv PROVE TypeOK
    OBVIOUS
  <2>2. LivesTypeOK /\ CallTyped /\ HandleThere
    BY <2>1 DEF CallInv, LivesInv
  <2>3. wire.number <= MaxResponses
    BY <2>2, TransferAssumption DEF CallTyped, Wires
  <2>4. QED
    BY <2>2, <2>3 DEF TypeOK, CallTyped, HandleThere
<1>2. QED
  BY <1>1, CallInvAlways, PTL

\* Calls, however they end, do not disturb the order in which easy handles are
\* closed and libcurl is cleaned up (Impl::global).
THEOREM HandlesCloseFirst == Spec => []RuntimeOutlivesHandles
<1>1. CallInv => RuntimeOutlivesHandles
  BY DEF CallInv, LivesInv
<1>2. QED
  BY <1>1, CallInvAlways, PTL

\* Whatever lines and chunks the responses of a call are made of, what it
\* returns is of the last of them alone: its body whole, and those of its lines
\* that are headers, in order (the two callbacks).
THEOREM WholeAndAlone == Spec => []AnswerIsTheLastResponse
<1>1. CallInv => AnswerIsTheLastResponse
  BY DEF CallInv, Answered, Received, Kept, Sent, AnswerIsTheLastResponse
<1>2. QED
  BY <1>1, CallInvAlways, PTL

\* For every limit and every cut into chunks, a body is held up to the limit,
\* and InvalidRequest says that it is larger (write_callback's subtraction).
THEOREM LimitIsKept == Spec => []OversizeIsFinal
<1>1. CallInv => OversizeIsFinal
  <2>1. SUFFICES ASSUME CallInv, Ran PROVE OversizeIsFinal
    BY DEF OversizeIsFinal
  <2> DEFINE limit == Settings.max_response_bytes
  <2>2. Received /\ wire \in Wires /\ sink \in Sinks
    BY <2>1 DEF CallInv, CallTyped
  <2>3. wire.number \in Nat /\ wire.offered \in Nat
    BY <2>2, TransferAssumption DEF Wires
  <2>4. limit > 0 => (sink.overflowed <=> wire.offered > limit)
    <3>1. impl_[caller] \in Impl /\ caller \in Client
      BY <2>1, ClientsAssumption, TransferAssumption
         DEF CallInv, OptionsInStep, CallTyped, Ran
    <3>2. Settings \in ClientConfig
      BY <2>1, <3>1, TransferAssumption DEF Settings, CallInv, LivesInv
    <3>3. limit \in Nat
      BY <3>2, TransferAssumption DEF ClientConfig
    <3>4. QED
      BY <2>2, <2>3, <3>3 DEF Received, Sinks
  <2>5. sink.overflowed => limit > 0
    BY <2>2 DEF Received
  <2>6. Len(Sent(wire.number, wire.offered)) = wire.offered
    BY <2>3, SentIsSeq
  <2>7. limit > 0 => Len(sink.body) <= limit
    BY <2>2, <2>6 DEF Received, Sinks
  <2>8. step = "returned" => (returned = Error("InvalidRequest") <=> sink.overflowed)
    BY <2>1 DEF CallInv, Answered
  <2>9. QED
    BY <2>2, <2>4, <2>5, <2>7, <2>8 DEF OversizeIsFinal, Sinks
<1>2. QED
  BY <1>1, CallInvAlways, PTL

\* With headers of the caller's no second request is sent, whatever the server
\* answers (CURLOPT_FOLLOWLOCATION).
THEOREM HeadersAreNotForwarded == Spec => []HeadersStayHome
<1>1. CallInv => HeadersStayHome
  BY DEF CallInv, Received, HeadersStayHome
<1>2. QED
  BY <1>1, CallInvAlways, PTL
=============================================================================
