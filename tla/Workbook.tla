------------------------------- MODULE Workbook -------------------------------
(***************************************************************************)
(* ExcelService: a sheet is a sequence of rows, a row a sequence of cells. *)
(* A cell holds a text, of which only the form matters: a label, a note, a *)
(* name, digits, a word or brackets, and which one it is.  Labels and keys *)
(* are taken after the normalization that compares them.                   *)
(***************************************************************************)
EXTENDS Integers, Sequences, FiniteSets, SequencesExt, FiniteSetsExt

CONSTANT MaxImportRows   \* MAX_IMPORT_ROWS

WorkbookAssumption == MaxImportRows \in Nat

Cell(form, of) == [form |-> form, of |-> of]
Blank == Cell("blank", "")
Note == Cell("note", "")
Label(key) == Cell("label", key)

IsBlank(cell) == cell.form = "blank"
IsRowEmpty(row) == \A i \in DOMAIN row : IsBlank(row[i])
CellAt(row, i) == IF i \in DOMAIN row THEN row[i] ELSE Blank

-----------------------------------------------------------------------------
(* exportToBuffer *)

\* What a value of a column becomes.  A masked text is another text; paise are
\* divided by 100 when they are a Number, and a BigInt is not one.
Formatted(column, raw, unmask) ==
  CASE raw.type = "none" -> Blank
    [] raw.type # "none" /\ column.mask /\ ~unmask -> Cell("masked", raw.of)
    [] raw.type # "none" /\ ~(column.mask /\ ~unmask) /\ column.type = "currency" ->
         IF raw.type = "bigint" THEN Blank ELSE Cell("rupees", raw.of)
    [] OTHER -> Cell(raw.type, raw.of)

\* The title, the filters and the summary fill a row each, with the cells of it
\* merged; an empty row is left above the header.
Heading(columns, filters, summary) ==
  LET lines == 1 + (IF filters THEN 1 ELSE 0) + (IF summary THEN 1 ELSE 0)
  IN  [i \in 1 .. lines |-> [c \in DOMAIN columns |-> Note]] \o << <<>> >>

Header(columns) == [c \in DOMAIN columns |-> Label(columns[c].label)]

ExportToBuffer(columns, rows, filters, summary, unmask) ==
  Heading(columns, filters, summary)
    \o <<Header(columns)>>
    \o [r \in DOMAIN rows |->
          [c \in DOMAIN columns |-> Formatted(columns[c], rows[r][columns[c].key], unmask)]]

-----------------------------------------------------------------------------
(* parseToRows *)

Rows(sheet) == {i \in DOMAIN sheet : ~IsRowEmpty(sheet[i])}

\* the first row that is not empty
HeaderRow(sheet) == Min(Rows(sheet))

\* eachCell passes over the empty cells: a label is counted among the labels, so
\* its place is its column only when no cell before it is empty.
LabelPlace(header, i) == Cardinality({j \in 1 .. i : ~IsBlank(header[j])})

Columns(sheet, key) ==
  LET header == sheet[HeaderRow(sheet)]
  IN  {LabelPlace(header, i) : i \in {c \in DOMAIN header : header[c] = Label(key)}}

\* Every column of the schema must be there, and the rows under the header, the
\* empty ones included, are at most MaxImportRows.
Refused(sheet, schema) ==
  \/ Rows(sheet) = {}
  \/ \E key \in schema : Columns(sheet, key) = {}
  \/ Len(sheet) - HeaderRow(sheet) > MaxImportRows

DataRows(sheet) == Rows(sheet) \ 1 .. HeaderRow(sheet)

\* rowIndex counts the rows that are not empty.
RowIndex(sheet, i) == Cardinality({j \in DataRows(sheet) : j <= i})

ReadCell(sheet, i, key) == CellAt(sheet[i], Min(Columns(sheet, key)))

\* Every column is required; a text is accepted as it is.
RowFaulty(sheet, i, schema) == \E key \in schema : IsBlank(ReadCell(sheet, i, key))

\* the k-th of a set of rows
Kth(rows, k) == CHOOSE i \in rows : Cardinality({j \in rows : j <= i}) = k

ParseToRows(sheet, schema) ==
  LET faulty == {i \in DataRows(sheet) : RowFaulty(sheet, i, schema)}
      complete == DataRows(sheet) \ faulty
      row(i) == [index |-> RowIndex(sheet, i), cells |-> [key \in schema |-> ReadCell(sheet, i, key)]]
  IN  [total |-> Cardinality(DataRows(sheet)),
       valid |-> [k \in 1 .. Cardinality(complete) |-> row(Kth(complete, k))],
       errors |-> UNION {{[index |-> RowIndex(sheet, i), column |-> key] :
                             key \in {c \in schema : IsBlank(ReadCell(sheet, i, c))}} : i \in faulty}]
=============================================================================
