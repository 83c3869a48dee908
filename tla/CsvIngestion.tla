---------------------------- MODULE CsvIngestion ----------------------------
(***************************************************************************)
(* From a CSV statement to the transactions an audit works on:             *)
(* connectors/csv_connector.py and services/ingestion_service.py under     *)
(* src/src/sentinelfi.                                                     *)
(*                                                                         *)
(* A row is [tx_id, tx_date, description, amount, merchant] of cells.  An  *)
(* empty cell is Blank, which pandas reads as NaN: a number that is not    *)
(* smaller than zero, true in a condition, and "nan" once it is text.  How *)
(* a cell reads is given by the constants: DayOf a date cell (NoDay when   *)
(* it does not parse), ValueOf an amount (NoValue when it does not), Folded*)
(* the trimmed, lower-case description.  Encodings and the paths' check    *)
(* against the allowed roots are left out.                                 *)
(***************************************************************************)
EXTENDS Integers, Lists

CONSTANTS
    Statements,     \* files, each a sequence of rows
    DayOf,          \* [date cells -> day or NoDay]
    ValueOf,        \* [amount cells -> number, NaN or NoValue]
    Folded,         \* [description cells -> descriptions]
    FirstWord,      \* [descriptions -> the word that names a merchant-less row]
    Today,
    Blank, NoDay, NoValue, NaN, NoMerchant

\* Cells that read, read as numbers, an empty amount as NaN.
ConstantsAssumption ==
    /\ \A rows \in Statements :
          /\ rows \in Seq({rows[i] : i \in DOMAIN rows})
          /\ \A i \in DOMAIN rows :
                rows[i].tx_date \in DOMAIN DayOf /\ rows[i].amount \in DOMAIN ValueOf
    /\ \A cell \in DOMAIN DayOf : DayOf[cell] \in Int \cup {NoDay}
    /\ \A cell \in DOMAIN ValueOf : ValueOf[cell] \in Int \cup {NaN, NoValue}

VARIABLES stage, file, dedup_rows, loaded, normalized
vars == << stage, file, dedup_rows, loaded, normalized >>

Init ==
    /\ file \in Statements
    /\ dedup_rows \in BOOLEAN      \* csv_dedup_rows of the request, true by default
    /\ stage      = "received"
    /\ loaded     = << >>
    /\ normalized = << >>

----------------------------------------------------------------------------
(* load_transactions_from_csv *)

\* str() of a cell
Text(cell) == IF cell = Blank THEN "nan" ELSE cell

\* to_numeric(errors="coerce"): an amount that does not read is a NaN like an
\* empty one.
Coerced(cell) == IF ValueOf[cell] = NoValue THEN NaN ELSE ValueOf[cell]

\* What makes two rows one for the deduplication: day, amount and description.
\* For duplicated() one NaN equals another, and so do two dates that do not read.
DedupKey(r) == << DayOf[r.tx_date], Coerced(r.amount), Folded[Text(r.description)] >>

\* duplicated(keep="first")
Kept(rows) ==
    { i \in DOMAIN rows : \A j \in 1..(i - 1) : DedupKey(rows[j]) # DedupKey(rows[i]) }

Deduplicated(rows) == AtPlaces(rows, Kept(rows))

\* The row becomes a Transaction; a missing column is not an empty cell.
ToTransaction(r) ==
    [tx_id       |-> r.tx_id,
     tx_date     |-> DayOf[r.tx_date],
     description |-> Text(r.description),
     amount      |-> ValueOf[r.amount],
     merchant    |-> IF r.merchant = NoMerchant THEN NoMerchant ELSE Text(r.merchant)]

\* _parse_date(errors="raise") and float(): both raise.
Reads(r) == DayOf[r.tx_date] # NoDay /\ ValueOf[r.amount] # NoValue

Rows == IF dedup_rows THEN Deduplicated(file) ELSE file

\* The file loads as a whole or not at all.
Load ==
    /\ stage = "received"
    /\ IF \A i \in DOMAIN Rows : Reads(Rows[i])
       THEN /\ loaded' = [i \in DOMAIN Rows |-> ToTransaction(Rows[i])]
            /\ stage'  = "loaded"
       ELSE /\ stage'  = "refused"
            /\ UNCHANGED loaded
    /\ UNCHANGED << file, dedup_rows, normalized >>

----------------------------------------------------------------------------
(* normalize_transactions *)

Positive(amount) == amount = NaN \/ amount > 0

\* _validate_transaction: a NaN is not `<= 0`.
Valid(tx) == tx.description # "" /\ Positive(tx.amount) /\ tx.tx_date <= Today

Normalize ==
    /\ stage = "loaded"
    /\ normalized' = AtPlaces(loaded, {i \in DOMAIN loaded : Valid(loaded[i])})
    /\ stage'      = "normalized"
    /\ UNCHANGED << file, dedup_rows, loaded >>

Terminated == stage \in {"refused", "normalized"} /\ UNCHANGED vars

Next == Load \/ Normalize \/ Terminated

Spec == Init /\ [][Next]_vars

----------------------------------------------------------------------------
(* Properties *)

\* Type invariant.
TypeOK ==
    /\ stage \in {"received", "refused", "loaded", "normalized"}
    /\ \A i \in DOMAIN loaded : loaded[i].tx_date \in Int /\ loaded[i].amount \in Int \cup {NaN}
    /\ Len(normalized) <= Len(loaded) /\ Len(loaded) <= Len(file)

\* Row j of what is loaded is row i of the file, by day and description.
SameCharge(j, i) ==
    /\ loaded[j].tx_date = DayOf[file[i].tx_date]
    /\ Folded[loaded[j].description] = Folded[Text(file[i].description)]

\* Deduplication removes repetitions and, with one exception, nothing else: each
\* row of a file that loads is there by day, amount and description.  The
\* exception is a row whose amount does not read, which otherwise refuses the
\* file: it goes unseen when it repeats the day and description of an earlier
\* row with an empty amount.
NoChargeIsLost ==
    stage = "loaded" =>
        \A i \in DOMAIN file : \E j \in DOMAIN loaded :
            /\ SameCharge(j, i)
            /\ \/ loaded[j].amount = ValueOf[file[i].amount]
               \/ dedup_rows /\ ValueOf[file[i].amount] = NoValue /\ loaded[j].amount = NaN

\* Without the exception: every charge of a file that loads is there with its
\* amount.
EveryChargeIsThere ==
    stage = "loaded" =>
        \A i \in DOMAIN file : \E j \in DOMAIN loaded :
            SameCharge(j, i) /\ loaded[j].amount = ValueOf[file[i].amount]

\* Of rows that repeat each other the audit sees the first, so that the same file
\* gives the same transaction ids, and the order of the file is kept.
FirstOfEqualsIsSeen ==
    stage = "loaded" =>
        \E at \in [DOMAIN loaded -> DOMAIN file] :
            \A k \in DOMAIN loaded :
                /\ loaded[k] = ToTransaction(file[at[k]])
                /\ dedup_rows => \A j \in 1..(at[k] - 1) :
                                    DedupKey(file[j]) # DedupKey(file[at[k]])
                /\ \A l \in DOMAIN loaded : l < k => at[l] < at[k]

\* Rows without a description or without a positive amount are dropped.
InvalidRowsAreDropped ==
    stage = "normalized" =>
        \A i \in DOMAIN normalized :
            /\ normalized[i].amount # NaN
            /\ normalized[i].description # Text(Blank)

\* _merchant_key of the leak detection, for rows without UPI or known names.
MerchantKey(tx) ==
    IF tx.merchant = NoMerchant THEN FirstWord[Folded[tx.description]] ELSE tx.merchant

\* Charges that name no merchant are taken for one merchant's only if their
\* descriptions say so.
UnnamedStayApart ==
    stage = "normalized" =>
        \A i, j \in DOMAIN normalized :
            LET named(tx) == tx.merchant \notin {NoMerchant, Text(Blank)}
                a == normalized[i]
                b == normalized[j]
            IN  (~named(a) /\ ~named(b) /\ MerchantKey(a) = MerchantKey(b))
                    => FirstWord[Folded[a.description]] = FirstWord[Folded[b.description]]

\* Rows that repeat an earlier one go, and no others.
OnlyEqualsGo == NoChargeIsLost /\ FirstOfEqualsIsSeen
=============================================================================
