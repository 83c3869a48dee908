---------------------------- MODULE PdfStatement ----------------------------
(***************************************************************************)
(* From a PDF statement to transactions                                    *)
(* (src/src/sentinelfi/connectors/pdf_connector.py): the tables of its     *)
(* pages, and, when they give nothing, what the optical character          *)
(* recognition reads on the rendered pages.                                *)
(*                                                                         *)
(* A table row is a sequence of cells.  A recognised line is               *)
(* [words, x, y]: its words, the left edge and the vertical centre of its  *)
(* box; lines under the confidence of 0.35 are already gone.  The words    *)
(* are [kind, value]: a "date", whose value is its day; a plain "amount",  *)
(* its value negative for a debit; a "priced" amount, with its currency; a *)
(* "glued" figure, with letters at one of its ends; the marks "dr" and "cr" *)
(* ("debit", "credit"); and text.  All but marks and text hold digits,     *)
(* which the pattern of an amount (_AMOUNT_PATTERN) finds in any of them.  *)
(* A page writes its dates in one form.  A digest of some fields is those  *)
(* fields.                                                                 *)
(***************************************************************************)
EXTENDS Integers, SequencesExt, Lists

CONSTANTS
    Documents,   \* [tables: pages of rows of cells, pages: pages of lines]
    Threshold,   \* lines at most this far apart continue a row (14 pixels)
    Rest         \* [<<word, part>> -> words]: the text of which words holds that
                 \* of another one, and what is left of it without

\* Words with digits.
Figure == {"date", "amount", "priced", "glued"}

\* Any other word is its own kind.
Word == [kind : Figure \cup STRING, value : Int]
Line == [words : Seq(Word), x : Int, y : Int]

\* A date or an amount stands in a word that has digits.
ConstantsAssumption ==
    /\ Threshold \in Nat
    /\ DOMAIN Rest \subseteq Word \X Word
    /\ \A held \in DOMAIN Rest : held[1].kind \in Figure /\ Rest[held] \in Seq(Word)
    /\ \A d \in Documents : d.tables \in Seq(Seq(Seq(Word))) /\ d.pages \in Seq(Seq(Line))

VARIABLES stage, doc, enable_ocr_fallback, ocr_installed, txs
vars == << stage, doc, enable_ocr_fallback, ocr_installed, txs >>

Init ==
    /\ doc \in Documents
    /\ enable_ocr_fallback \in BOOLEAN
    /\ ocr_installed \in BOOLEAN
    /\ stage = "received"
    /\ txs   = << >>

Abs(n) == IF n < 0 THEN -n ELSE n

----------------------------------------------------------------------------
(* Tables *)

Nothing == [kind |-> "empty", value |-> 0]

\* A row of at least three cells, a date, a description and an amount.
IsTableRow(row) ==
    /\ Len(row) >= 3
    /\ row[1].kind = "date" /\ row[2] # Nothing /\ row[3].kind \in {"amount", "priced"}

\* _parse_table_transactions: in a table only a negative amount is a debit, and
\* equal rows get equal ids.
TableTransaction(row) ==
    [tx_id       |-> << row[1], row[2], row[3].value >>,
     tx_date     |-> row[1].value,
     description |-> << row[2] >>,
     amount      |-> Abs(row[3].value),
     is_debit    |-> row[3].value < 0]

\* The first row of a page's table is its heading.
TableTransactions(tables) ==
    LET body(table) == AtPlaces(table, {i \in DOMAIN table : i > 1 /\ IsTableRow(table[i])})
        page(table) == [k \in DOMAIN body(table) |-> TableTransaction(body(table)[k])]
    IN  FlattenSeq([p \in DOMAIN tables |-> page(tables[p])])

----------------------------------------------------------------------------
(* Lines and rows of a recognised page *)

\* sorted(lines, key=y): stable, the recogniser's order decides between equals.
ByHeight(lines) == SortedBy(lines, [i \in DOMAIN lines |-> lines[i].y])

\* VARIANT: a line is compared with the first line of the row, not the last.
ContinuesFirst(row, line) == Abs(line.y - row[1].y) <= Threshold

Continues(row, line) == Abs(line.y - Last(row).y) <= Threshold

\* The line continues the last row or begins one.
AddLine(rows, line) ==
    IF rows # << >> /\ Continues(Last(rows), line)
    THEN Append(Front(rows), Append(Last(rows), line))
    ELSE Append(rows, << line >>)

\* _group_lines_by_row, before each row is ordered
GroupedRows(lines) ==
    LET sorted == ByHeight(lines)
        \* rows of the first n lines
        rows[n \in 0..Len(lines)] ==
            IF n = 0 THEN << >> ELSE AddLine(rows[n - 1], sorted[n])
    IN  rows[Len(lines)]

\* The words of a row from left to right.
RowWords(row) ==
    LET sorted == SortedBy(row, [i \in DOMAIN row |-> row[i].x])
    IN  FlattenSeq([k \in DOMAIN row |-> sorted[k].words])

----------------------------------------------------------------------------
(* _parse_row_text *)

Dates(words)   == AtPlaces(words, {i \in DOMAIN words : words[i].kind = "date"})
Figures(words) == AtPlaces(words, {i \in DOMAIN words : words[i].kind \in Figure})

\* The first date of the row, and the last digits in it: an amount, or the year
\* of a date that stands at the end or has no amount behind it.
IsRow(words) == Dates(words) # << >>
AmountOf(words) == Last(Figures(words)).value

\* The sign and the digits that _find_amount_match gives of a figure.
Fragment(word) == [kind |-> "amount", value |-> word.value]

\* text.replace(part, " ", 1): the first word that is the part, or holds it, gives
\* way to what is left of it.
Holds(word, part) == word = part \/ << word, part >> \in DOMAIN Rest
Left(word, part)  == IF word = part THEN << >> ELSE Rest[<< word, part >>]

Removed(words, part) ==
    LET holding == {i \in DOMAIN words : Holds(words[i], part)}
        first   == Min(holding)
    IN  IF holding = {} THEN words
        ELSE SubSeq(words, 1, first - 1) \o Left(words[first], part)
                 \o SubSeq(words, first + 1, Len(words))

DescriptionOf(words) ==
    Removed(Removed(words, Head(Dates(words))), Fragment(Last(Figures(words))))

Says(words, what) == \E i \in DOMAIN words : words[i].kind = what

IsDebit(words) ==
    IF AmountOf(words) >= 0 /\ Says(words, "cr") THEN FALSE
    ELSE AmountOf(words) < 0 \/ Says(words, "dr")

\* The n-th row of a page; the number is part of the id.
OcrTransaction(words, n) ==
    [tx_id       |-> << Head(Dates(words)).value, DescriptionOf(words), AmountOf(words), n >>,
     tx_date     |-> Head(Dates(words)).value,
     description |-> DescriptionOf(words),
     amount      |-> Abs(AmountOf(words)),
     is_debit    |-> IsDebit(words)]

\* _transactions_from_ocr_lines
PageTransactions(lines) ==
    LET rows == GroupedRows(lines)
        read == [n \in DOMAIN rows |-> OcrTransaction(RowWords(rows[n]), n)]
    IN  AtPlaces(read, {n \in DOMAIN rows : IsRow(RowWords(rows[n]))})

SeenKey(tx) == << tx.tx_date, tx.description, tx.amount, tx.is_debit >>

\* _parse_ocr_transactions: over all pages the first of the rows that say the same.
OcrTransactions(pages) ==
    LET s == FlattenSeq([p \in DOMAIN pages |-> PageTransactions(pages[p])])
    IN  AtPlaces(s, {i \in DOMAIN s : \A j \in 1..(i - 1) : SeenKey(s[j]) # SeenKey(s[i])})

----------------------------------------------------------------------------

\* load_transactions_from_pdf: one row in one table is enough to read no further.
Load ==
    /\ stage = "received"
    /\ txs' = IF TableTransactions(doc.tables) # << >> \/ ~enable_ocr_fallback
              THEN TableTransactions(doc.tables)
              ELSE IF ocr_installed THEN OcrTransactions(doc.pages)
              ELSE << >>
    /\ stage' = "loaded"
    /\ UNCHANGED << doc, enable_ocr_fallback, ocr_installed >>

Terminated == stage = "loaded" /\ UNCHANGED vars

Next == Load \/ Terminated

Spec == Init /\ [][Next]_vars

----------------------------------------------------------------------------
(* Properties *)

\* Type invariant.
TypeOK ==
    /\ stage \in {"received", "loaded"}
    /\ \A i \in DOMAIN txs : txs[i].amount \in Nat /\ txs[i].is_debit \in BOOLEAN

\* The reference for the rows of a page: lines belong together when a chain of
\* lines, each at most Threshold from the next, leads from one to the other.
Linked(lines, i, j) ==
    LET reach[n \in 0..Len(lines)] ==
            IF n = 0 THEN {i}
            ELSE reach[n - 1] \cup { k \in DOMAIN lines : \E m \in reach[n - 1] :
                                       Abs(lines[m].y - lines[k].y) <= Threshold }
    IN  j \in reach[Len(lines)]

\* The rows are exactly these components, whatever order the recogniser gives the
\* lines in and however far a slanted row drifts from where it began.
RowsAreComponents ==
    \A p \in DOMAIN doc.pages :
        LET lines == doc.pages[p]
        IN  { ToSet(GroupedRows(lines)[k]) : k \in DOMAIN GroupedRows(lines) }
                = { { lines[j] : j \in { k \in DOMAIN lines : Linked(lines, i, k) } } :
                      i \in DOMAIN lines }

\* The rows of all pages that have a date.
RowsOf(pages) ==
    { words \in UNION { { RowWords(GroupedRows(pages[p])[k]) : k \in DOMAIN GroupedRows(pages[p]) } :
                          p \in DOMAIN pages } : IsRow(words) }

\* Taking the date and the amount out leaves no mark that the row does not have,
\* as it would of "dr5.00".
LeavesNoMark(words) ==
    \A what \in {"dr", "cr"} : Says(DescriptionOf(words), what) => Says(words, what)

\* What is read from the pictures has identities of its own: the id leaves out the
\* side and numbers rows by page, and still no two transactions share one, for the
\* marks of the side stay in the description, and come from nowhere else.
OcrIdsAreUnique ==
    (/\ stage = "loaded" /\ TableTransactions(doc.tables) = << >>
     /\ \A words \in RowsOf(doc.pages) : LeavesNoMark(words)) =>
        \A i, j \in DOMAIN txs : i # j => txs[i].tx_id # txs[j].tx_id

\* A row of a date, a text without digits and a plain amount says the same whether
\* the table or the picture of the page is read: both take the sign for the side
\* and drop it from the amount.  Marks for debit and credit are an exception too:
\* only the picture's reading knows them.
TableAndOcrAgree ==
    \A p \in DOMAIN doc.tables : \A k \in DOMAIN doc.tables[p] :
        LET row == doc.tables[p][k]
            tx  == TableTransaction(row)
        IN  (/\ Len(row) = 3 /\ IsTableRow(row) /\ row[3].kind = "amount"
             /\ row[2].kind \notin {"dr", "cr"} \cup Figure)
                => /\ tx.tx_date  = Head(Dates(row)).value
                   /\ tx.amount   = Abs(AmountOf(row))
                   /\ tx.is_debit = IsDebit(row)
                   /\ tx.description = DescriptionOf(row)

\* A page reads as the statement says: its rows whole, apart, and by the picture as
\* by the table.
PageReadsAsPrinted == RowsAreComponents /\ OcrIdsAreUnique /\ TableAndOcrAgree
=============================================================================
