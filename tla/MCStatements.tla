---------------------------- MODULE MCStatements ----------------------------
(* Statements with values for its constants.                                *)
EXTENDS Statements

-----------------------------------------------------------------------------
(* Leaks: charges that meet in the detectors, one subscription at several   *)
(* prices and a tool with two tokens in its name.                           *)

MCTokens == {"google", "meet"}
MCFamilyOf == [key \in {"google", "meet", "zoom", "aws"} |-> IF key = "aws" THEN None ELSE "video"]

Zoom(amount, day) ==
  [amount |-> amount, day |-> day, debit |-> TRUE, category |-> "unknown",
   clues |-> <<"zoom", None, None>>, tokens |-> {}, word |-> "zoom", text |-> {"zoom"},
   marker |-> TRUE, bare |-> TRUE, hint |-> FALSE, billable |-> FALSE, invoice |-> FALSE,
   confidence |-> 45, review |-> TRUE]
Google(amount, day, names) ==
  [Zoom(amount, day) EXCEPT !.clues = <<None, None, None>>, !.tokens = names, !.text = names,
     !.word = "google", !.marker = FALSE, !.category = "business", !.billable = TRUE,
     !.confidence = 90, !.review = FALSE]

MCCharges ==
  {Zoom(49, 10), Zoom(640, 20), Zoom(640, 50), [Zoom(660, 80) EXCEPT !.marker = FALSE],
   Zoom(690, 110), [Zoom(900, 140) EXCEPT !.bare = FALSE],
   Google(5400, 5, {"google", "meet"}), Google(5400, 35, {"google"}),
   [Google(5400, 95, {"google"}) EXCEPT !.invoice = TRUE],
   [Google(800, 15, {}) EXCEPT !.clues[2] = "aws", !.category = "personal", !.hint = TRUE, !.debit = FALSE]}
-----------------------------------------------------------------------------
(* CSV: all files of up to two rows, and files of three rows of one merchant. *)

Cells == [tx_id : {"t1", "t2"}, tx_date : {"2026-02-01", "01/02/2026", "2026-03-01", "soon"},
          description : {"aws plan", "AWS plan", "rent", "", Blank},
          amount : {"100", "100.0", "0", "1,200", Blank}, merchant : {"zoom", Blank}]

Few == {r \in Cells : /\ r.tx_id = "t1" /\ r.merchant = "zoom"
                      /\ r.amount \in {"100", "100.0"}
                      /\ r.description \in {"aws plan", "AWS plan"}}

MCCsvFiles ==
  SeqOf({r \in Cells : r.tx_id = "t1" \/ r.merchant = Blank}, 1)
  \cup {<<a, b>> : a \in {r \in Cells : r.tx_id = "t1"},
                   b \in {r \in Cells : r.tx_id = "t2" /\ r.merchant = Blank}}
  \cup {[k \in 1 .. 3 |-> [s[k] EXCEPT !.tx_id = <<"t1", "t2", "t3">>[k]]] : s \in [1 .. 3 -> Few]}

MCDayOf ==
  [c \in {"2026-02-01", "01/02/2026", "2026-03-01", "soon"} |->
     CASE c = "soon" -> NoDay [] c = "2026-03-01" -> 29 [] OTHER -> 1]
MCValueOf ==
  [c \in {"100", "100.0", "0", "1,200", Blank} |->
     CASE c = Blank -> NaN [] c = "0" -> 0 [] c = "1,200" -> NoValue [] OTHER -> 100]
MCFolded ==
  [c \in {"aws plan", "AWS plan", "rent", "", "nan"} |-> IF c = "AWS plan" THEN "aws plan" ELSE c]
MCFirstWord == [c \in {"aws plan", "rent", "", "nan"} |-> IF c = "aws plan" THEN "aws" ELSE c]
-----------------------------------------------------------------------------
(* PDF: two-page statements, small tables, and up to three lines on a page. *)

D(n) == [kind |-> "date", value |-> n]
A(n) == [kind |-> "amount", value |-> n]
P(n) == [kind |-> "priced", value |-> n]
G(n) == [kind |-> "glued", value |-> n]
W(s) == [kind |-> s, value |-> 0]

Heading == <<W("Date"), W("Text"), W("Amount")>>
Tables ==
  {<< >>,
   <<<<Heading>>, <<Heading, <<D(1), W("rent"), A(-5)>>, <<D(1), W("rent"), A(-5)>>>>,
     <<Heading, <<D(2), W("rent"), A(5), W("dr")>>>>>>,
   <<<<Heading, <<D(2), W("fee"), A(5)>>, <<D(2), A(15), P(5)>>>>>>,
   <<<<Heading, <<D(1), W("empty"), A(5)>>, <<D(1), W("rent")>>>>>>}

Words == {<<D(1), W("rent")>>, <<A(-5)>>, <<A(5), W("dr")>>, <<W("rent"), A(5)>>, <<D(1)>>, <<W("cr")>>}
Lines == [words : Words, x : {0, 4}, y : {0, 2, 3}]
Fixed == [words : {<<D(1), W("rent")>>, <<A(5), W("dr")>>}, x : {0}, y : 0 .. 4]

\* Figures in words: "Rs.5" and "A15" hold 5, "dr7" a mark and 7, and 15 holds 5;
\* 1 is the last figure of the date of day 1, as of "2026-02-01".
MCRest ==
  (<<P(5), A(5)>> :> <<W("Rs.")>>) @@ (<<G(15), A(5)>> :> <<W("A1")>>)
  @@ (<<G(7), A(7)>> :> <<W("dr")>>) @@ (<<A(15), A(5)>> :> <<A(1)>>)
  @@ (<<D(1), A(1)>> :> <<W("2026-02")>>)

Odd == [words : {<<D(1), W("rent")>>, <<D(1), A(15), P(5)>>, <<A(5), G(15)>>, <<W("dr"), A(7)>>,
                 <<G(15)>>, <<G(7)>>, <<D(1)>>, <<A(5)>>},
        x : {0, 4}, y : {0}]

MCPdfDocuments ==
  [tables : {<< >>}, pages : {<<s, << >>>> : s \in SeqOf(Lines, 2)}]
  \cup [tables : {<< >>}, pages : {<<s>> : s \in [1 .. 3 -> Fixed]}]
  \cup [tables : Tables, pages : {<<s, s>> : s \in SeqOf(Lines, 1)}]
  \cup [tables : {<< >>}, pages : {<<<<a, b>>, <<a, c>>>> : a, b, c \in Odd}]
  \cup [tables : {<< >>},
        pages : {<<s, t>> : s, t \in {<<a, b>> : a \in {l \in Lines : l.x = 0 /\ l.y = 0},
                                                 b \in {l \in Lines : l.x = 4}}}]
-----------------------------------------------------------------------------
(* Requests: the threads of the limiter are alike.                          *)

Symmetry == Permutations(Threads)
=============================================================================
