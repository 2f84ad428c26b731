--------------------------- MODULE DelimitedParser ---------------------------
(* ncei::DelimitedParser (src/core/csv_parser.cpp): a text is cut into        *)
(* records by one scanner and each record into fields by another; both must   *)
(* read the quotes alike.  Characters are strings, of which only these count: *)
(* the double quote, the delimiter, and the two that end a line.              *)
(*                                                                            *)
(* The scanners are stated by what they stop at.  Where both quotes of a pair *)
(* are counted, a place is inside quotes if the number before it is odd; and  *)
(* a quote closes a field if it is the odd one of its run.                    *)
(*                                                                            *)
(* An operator Name_Flaw is Name with the flaw that its suffix tells, for the *)
(* model checker to put in Name's place.                                      *)
EXTENDS IntegerBounds, Numbers

Quote == "quote"

Quotes(text, first, last) == Cardinality({p \in first..last : text[p] = Quote})

\* next_record: where the record that begins at start ends, its newline included.
EndOfRecord_AtAnyNewline(text, start) ==
  LET ends == {p \in start..Len(text) : text[p] = NL}
  IN  IF ends = {} THEN Len(text) ELSE Min(ends)

EndOfRecord(text, start) ==
  LET ends == {p \in start..Len(text) : text[p] = NL /\ Quotes(text, start, p) % 2 = 0}
  IN  IF ends = {} THEN Len(text) ELSE Min(ends)

Without(text, suffix) ==
  IF text # << >> /\ Last(text) = suffix THEN Front(text) ELSE text

NextRecord(text, start) ==
  Without(Without(SubSeq(text, start, EndOfRecord(text, start)), NL), CR)

\* The place of the quote that closes the field opened at i; past the end of
\* the line if none does.
ClosingQuote(line, i) ==
  LET closing == {p \in i+1..Len(line) :
                    /\ line[p] = Quote
                    /\ p = Len(line) \/ line[p + 1] # Quote
                    /\ Quotes(line, i + 1, p) % 2 = 1}
  IN  IF closing = {} THEN Len(line) + 1 ELSE Min(closing)

\* Of two quotes within a field one stays.
Unescaped(line, first, last) ==
  LET kept == {p \in first..last : line[p] = Quote => Quotes(line, first, p) % 2 = 1}
  IN  [k \in 1..Cardinality(kept) |->
         line[CHOOSE p \in kept : Cardinality({q \in kept : q <= p}) = k]]

NextDelimiter(line, i, delim) ==
  LET found == {p \in i..Len(line) : line[p] = delim}
  IN  IF found = {} THEN Len(line) + 1 ELSE Min(found)

\* parse_line: one turn of its loop gives a field and where to go on; past
\* Len(line) + 1 the line is done.
FieldAt(line, i, delim) ==
  IF i <= Len(line) /\ line[i] = Quote
    THEN LET close == ClosingQuote(line, i)
         IN  [text |-> Unescaped(line, i + 1, Lesser(close - 1, Len(line))),
              next |-> IF close >= Len(line) THEN Len(line) + 2
                       ELSE IF line[close + 1] = delim THEN close + 2 ELSE close + 1]
    ELSE LET stop == NextDelimiter(line, i, delim)
         IN  [text |-> SubSeq(line, i, stop - 1), next |-> stop + 1]

ParseLine(line, delim) ==
  LET From[i \in 1..Len(line) + 2] ==
        IF i > Len(line) + 1 THEN << >>
        ELSE <<FieldAt(line, i, delim).text>> \o From[FieldAt(line, i, delim).next]
  IN  From[1]

ParseHeader(text, delim) == ParseLine(NextRecord(text, 1), delim)
=============================================================================
