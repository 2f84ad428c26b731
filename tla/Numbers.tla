------------------------------- MODULE Numbers -------------------------------
(* How cells of a text are read as numbers (src/models/climate_index.cpp and  *)
(* data_point.cpp).  A cell is a sequence of characters; of the digits of a   *)
(* number only the number counts, so a numeral is one character, whose value  *)
(* Numerals gives, and so is a word such as a missing marker.  Values are     *)
(* integers.                                                                  *)
(*                                                                            *)
(* What is read is a set of at most one value: none, if nothing is usable.    *)
EXTENDS Integers, Sequences, SequencesExt

CONSTANT Numerals      \* the value of each character that is a numeral

NL == "NL"
CR == "CR"
Blank == {" ", NL, CR}

\* trim, and the skipping of white space in front that std::stod does.
IsInk(c) == c \notin Blank

TrimFront(text) ==
  IF SelectInSeq(text, IsInk) = 0 THEN << >>
  ELSE SubSeq(text, SelectInSeq(text, IsInk), Len(text))

Trim(text) ==
  IF SelectInSeq(text, IsInk) = 0 THEN << >>
  ELSE SubSeq(text, SelectInSeq(text, IsInk), SelectLastInSeq(text, IsInk))

\* A marker such as -9999 is a numeral that has its sign already.
Signed(c)   == c \in {"+", "-"} \/ (c \in DOMAIN Numerals /\ Numerals[c] < 0)
Unsigned(c) == c \in DOMAIN Numerals /\ Numerals[c] >= 0

\* std::from_chars has to take the whole text, which has no plus sign.
FromChars(text) ==
  IF Len(text) = 1 /\ text[1] \in DOMAIN Numerals THEN {Numerals[text[1]]}
  ELSE IF Len(text) = 2 /\ text[1] = "-" /\ Unsigned(text[2]) THEN {-Numerals[text[2]]}
  ELSE {}

\* A plus sign is taken off first, and no other sign may follow it.
AsNumber(text) ==
  IF text # << >> /\ Head(text) = "+"
    THEN IF Len(text) > 1 /\ ~Signed(text[2]) THEN FromChars(Tail(text)) ELSE {}
    ELSE FromChars(text)

\* parse_value: a missing marker is no value.
MissingMarkers_Worded == {<< >>, <<"***">>, <<"NA">>}
MissingMarkers == {<< >>, <<"***">>, <<"-9999">>, <<"-99.99">>, <<"NA">>}

ParseValue(raw) ==
  IF Trim(raw) \in MissingMarkers THEN {} ELSE AsNumber(Trim(raw))

\* std::stod takes the number that the text begins with; 0 where it throws.
Stod(text) ==
  LET t == TrimFront(text)
      read == UNION {AsNumber(SubSeq(t, 1, n)) : n \in {1, 2} \cap 1..Len(t)}
  IN  IF read = {} THEN 0 ELSE CHOOSE v \in read : TRUE
=============================================================================
