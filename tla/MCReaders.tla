------------------------------ MODULE MCReaders ------------------------------
(* Readers for TLC.  The parser gets every text of up to five characters, and *)
(* tables of up to two rows and columns written with and without quotes, with *)
(* both ends of a line; each of the other readers gets documents written from *)
(* what they publish, with the banners, padding, markers and short rows that  *)
(* the feeds have.                                                            *)
EXTENDS Readers

MCNumerals ==
  [n \in {"0", "1", "2", "1979", "2024", "-9999", "-99.99", "1.000000"} |->
     CASE n = "0"    -> 0
       [] n \in {"1", "1.000000"} -> 1
       [] n = "2"    -> 2
       [] n = "1979" -> 1979
       [] n = "2024" -> 2024
       [] OTHER      -> -100]

\* The texts of up to n characters of a set.
Strings(chars, n) == UNION {[1..k -> chars] : k \in 0..n}

Document(text, publishes) == [body |-> text, published |-> publishes]
----------------------------------------------------------------------------
\* How a table is written: a cell that could be misread is quoted, or every
\* cell is; an empty line would be no row.
Join(texts, between) ==
  FoldLeftDomain(LAMBDA joined, i : joined \o (IF i = 1 THEN << >> ELSE between) \o texts[i],
                 << >>, texts)

Quoted(cell) ==
  <<Quote>> \o FlattenSeq([i \in 1..Len(cell) |->
                             IF cell[i] = Quote THEN <<Quote, Quote>> ELSE <<cell[i]>>])
            \o <<Quote>>

Risky(cell) == ToSet(cell) \cap {Quote, ",", NL, CR} # {}

WrittenRow(row, all) ==
  Join([i \in 1..Len(row) |-> IF all \/ Risky(row[i]) \/ row = << << >> >>
                                THEN Quoted(row[i]) ELSE row[i]], <<",">>)

Written(table, all, newline) ==
  Join([i \in 1..Len(table) |-> WrittenRow(table[i], all)], newline)

Cells == {<< >>, <<"a">>, <<Quote>>, <<",">>, <<NL>>, <<"a", Quote>>, <<CR>>}
Few   == {<< >>, <<"a">>, <<Quote, ",">>, <<CR, NL>>}

Tables ==
  {<<row>> : row \in Strings(Cells, 2) \ {<< >>}}
  \cup {<<row, below>> : row, below \in [1..2 -> Few] \cup [1..1 -> Few]}

WrittenTables ==
  UNION {{Document(Written(table, all, newline) \o final, table) :
            all \in BOOLEAN, final \in {<< >>, newline}} :
           table \in Tables, newline \in {<<NL>>, <<CR, NL>>}}

AnyTexts ==
  {Document(text, Nothing) : text \in Strings({Quote, ",", NL, CR, "a", "b"}, 5)}
----------------------------------------------------------------------------
\* What a cell that holds a value may look like, and what is none.
Values ==
  {[cell |-> <<"1">>, value |-> {1}], [cell |-> <<" ", "+", "2">>, value |-> {2}],
   [cell |-> <<"-", "1", " ">>, value |-> {-1}], [cell |-> <<"0">>, value |-> {0}],
   [cell |-> <<"+", "-", "1">>, value |-> {}], [cell |-> <<"***">>, value |-> {}],
   [cell |-> <<" ">>, value |-> {}], [cell |-> <<"NA">>, value |-> {}],
   [cell |-> <<"-99.99">>, value |-> {}], [cell |-> <<" ", "-9999">>, value |-> {}]}

Lines(table) == Written(table, FALSE, <<NL>>) \o <<NL>>

\* The points of those entries that have a value that counts; no such point is
\* an error.
Points(entries, Counts(_)) ==
  LET kept == SelectSeq(entries, LAMBDA e : \E v \in e.value : Counts(v))
  IN  IF kept = << >> THEN Nothing
      ELSE [i \in 1..Len(kept) |->
              [period |-> kept[i].period, value |-> CHOOSE v \in kept[i].value : TRUE]]

AnyValue(v) == TRUE
Positive(v) == v > 0

Series2 == {<<v>> : v \in Values} \cup {<<v, w>> : v, w \in Values}
Years == <<<<"1979">>, <<"2024">> >>

\* GISTEMP: a banner or none, the columns in one of two orders, the header
\* once more in the middle, and a row that ends too early; or no header.
GistempDocuments ==
  UNION {LET entries == [i \in 1..Len(series) |-> [period |-> Years[i], value |-> series[i].value]]
             Row(i) == IF reversed THEN <<series[i].cell, <<"a">>, Years[i]>>
                       ELSE <<Years[i], <<"a">>, series[i].cell>>
             head == IF reversed THEN <<<<"J-D">>, <<"Jan">>, <<"Year">> >>
                     ELSE <<<<"Year">>, <<"Jan">>, <<" ", "J-D">> >>
             data == FlattenSeq([i \in 1..Len(series) |-> <<Row(i), head, <<Years[i]>> >>])
         IN  {Document(Lines(<<<<<<"Land">> >>, head>> \o data), Points(entries, AnyValue)),
              Document(Lines(<<head>> \o data), Points(entries, AnyValue)),
              Document(Lines(data \o data), Points(Tail(entries) \o entries, AnyValue))} :
           series \in Series2, reversed \in BOOLEAN}

\* NSIDC: with or without a column for the month; the daily file has a row of
\* units under its header, and days.
SeaIceDocuments(monthly) ==
  UNION {LET dated(i) == IF month = << >> THEN Years[i]
                         ELSE Years[i] \o <<"-", IF Len(month) = 1 THEN "0" ELSE "1">>
                                \o <<Last(month)>> \o (IF monthly THEN << >> ELSE <<"-", "0", "2">>)
             entries == [i \in 1..Len(series) |-> [period |-> dated(i), value |-> series[i].value]]
             head == IF monthly THEN <<<<"year">>, <<" ", "mo">>, <<" ", "extent">> >>
                     ELSE <<<<"Year">>, <<"Month">>, <<"Extent">>, <<"Day">> >>
             Row(i) == <<Years[i], <<" ">> \o month, series[i].cell>>
                         \o (IF monthly THEN << >> ELSE <<IF month = << >> THEN << >> ELSE <<"2">> >>)
             units == IF monthly THEN << >> ELSE <<<<<<"YYYY">>, <<"MM">>, <<"km">>, <<"DD">> >> >>
         IN  {Document(Lines(<<head>> \o units \o [i \in 1..Len(series) |-> Row(i)]
                               \o <<<<Years[1]>> >>),
                       Points(entries, Positive))} :
           series \in Series2, month \in {<< >>, <<"2">>, <<"1", "2">>}}
  \cup {Document(<< >>, Nothing), Document(Lines(<<<<<<"a">> >> >>), Nothing)}

\* CAG: each year's value bare or as the departure of an object, a text or a
\* number; or anything else.
CagEntries ==
  (UNION {{[json |-> String(v.cell), value |-> v.value],
           [json |-> Object(<<Field(<<"rank">>, Number(1)), Field(<<"departure">>, String(v.cell))>>),
            value |-> v.value]} : v \in Values})
  \cup {[json |-> Number(2), value |-> {2}],
        [json |-> Object(<<Field(<<"departure">>, Number(2))>>), value |-> {2}],
        [json |-> Object(<<Field(<<"rank">>, Number(1))>>), value |-> {}],
        [json |-> OtherValue, value |-> {}]}

CagDocuments ==
  {Document(Object(<<Field(<<"description">>, Object(<< >>)),
                     Field(<<"data">>, Object([i \in 1..Len(series) |->
                                                 Field(Years[i], series[i].json)]))>>),
            Points([i \in 1..Len(series) |->
                      [period |-> Years[i], value |-> series[i].value]], AnyValue)) :
     series \in {<<e>> : e \in CagEntries} \cup {<<e, f>> : e, f \in CagEntries}}
  \cup {Document(json, Nothing) :
          json \in {OtherValue, Array(<< >>), Object(<< >>),
                    Object(<<Field(<<"data">>, Null)>>),
                    Object(<<Field(<<"data">>, Object(<< >>))>>)}}
----------------------------------------------------------------------------
\* Data points: cells with the value that a known column of numbers makes of
\* them, and the number that an attribute is.
PointCells ==
  {[cell |-> <<"1">>, double |-> 1, number |-> {1}],
   [cell |-> <<"-", "2", "a">>, double |-> -2, number |-> {}],
   [cell |-> <<"a", "1">>, double |-> 0, number |-> {}],
   [cell |-> << >>, double |-> 0, number |-> {}]}

PointColumns ==
  {<<<<"DATE">>, <<"LATITUDE">>, <<"TMAX">> >>, <<<<"TMAX">>, <<"ELEVATION">>, <<"TMIN">> >>}

Meant(column, c) ==
  CASE column \in Texts   -> c.cell
    [] column \in Doubles -> c.double
    [] OTHER              -> [text |-> c.cell, number |-> c.number]

\* What the cells of a row mean; the shorter of row and header counts.
MeantRow(columns, cells) ==
  LET covered == 1..Lesser(Len(columns), Len(cells))
  IN  [name \in {columns[i] : i \in covered} |->
         LET i == CHOOSE j \in covered : columns[j] = name IN Meant(name, cells[i])]

PointRows == {row \in Strings(PointCells, 4) : Len(row) \in {2, 3} \/ (Len(row) = 4 /\ row[3] = row[4])}

DelimitedDocuments(delim) ==
  {Document(Join([i \in 1..3 |-> Join(CASE i = 1 -> columns
                                        [] i = 2 -> [k \in 1..Len(row) |-> row[k].cell]
                                        [] OTHER -> <<<<"a">> >>, <<delim>>)], <<NL>>),
            [columns |-> columns,
             records |-> <<MeantRow(columns, row), MeantRow(columns, <<[cell |-> <<"a">>,
                                                    double |-> 0, number |-> {}]>>)>>]) :
     columns \in PointColumns, row \in PointRows}
  \cup {Document(<< >>, [columns |-> << >>, records |-> << >>])}

\* JSON: what a known column takes must have its type.
PointValues ==
  {[json |-> String(<<"1">>), text |-> <<"1">>, double |-> 0, number |-> {1}],
   [json |-> Number(1), text |-> << >>, double |-> 1, number |-> {1}],
   [json |-> Null, text |-> << >>, double |-> 0, number |-> {}],
   [json |-> OtherValue, text |-> << >>, double |-> 0, number |-> {}]}

MeantJson(column, v) ==
  CASE column \in Texts   -> v.text
    [] column \in Doubles -> v.double
    [] OTHER -> [text |-> CASE v.json.type = "number" -> <<"1.000000">>
                            [] v.json.type = "other"  -> <<"JSON">>
                            [] OTHER                  -> v.text,
                 number |-> v.number]

\* An object of the first columns, one for each value of a row.
JsonPoint(columns, row) ==
  [names |-> SubSeq(columns, 1, Len(row)),
   json |-> Object([i \in 1..Len(row) |-> Field(columns[i], row[i].json)]),
   meant |-> [name \in {columns[i] : i \in 1..Len(row)} |->
                LET i == CHOOSE j \in 1..Len(row) : columns[j] = name
                IN  MeantJson(name, row[i])]]

JsonPoints == {JsonPoint(columns, row) :
                 columns \in PointColumns, row \in [1..3 -> PointValues] \cup [1..1 -> PointValues]}

JsonCollection(points) == [columns |-> points[1].names,
                           records |-> [i \in 1..Len(points) |-> points[i].meant]]

JsonDocuments ==
  {Document(p.json, JsonCollection(<<p>>)) : p \in JsonPoints}
  \cup {Document(Array(<<p.json, q.json>>), JsonCollection(<<p, q>>)) :
          p \in JsonPoints, q \in {JsonPoint(columns, <<v>>) : columns \in PointColumns,
                                                               v \in PointValues}}
  \cup {Document(Array(<< >>), [columns |-> << >>, records |-> << >>]),
        Document(OtherValue, Nothing), Document(Null, Nothing)}

MCDocuments ==
  [r \in Readers |->
     CASE r = "table"               -> WrittenTables \cup AnyTexts
       [] r = "csv"                 -> DelimitedDocuments(",")
       [] r = "ssv"                 -> DelimitedDocuments(" ")
       [] r = "json"                -> JsonDocuments
       [] r = "CagSeries"           -> CagDocuments
       [] r = "GistempSeries"       -> GistempDocuments
       [] r = "SeaIceSeries monthly" -> SeaIceDocuments(TRUE)
       [] OTHER                     -> SeaIceDocuments(FALSE)]
=============================================================================
