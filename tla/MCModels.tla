------------------------------ MODULE MCModels ------------------------------
(* Models with two synchronous audits and one job, one trainer, a taxonomy   *)
(* of two categories, rows of every source, and probabilities in quarters.   *)
EXTENDS Models

CONSTANTS s1, s2, j1, server

R(source, text, category, label) ==
  [source |-> source, text |-> text, category |-> category, label |-> label]

MCRawRows == {R("transaction_ai", "dinner", "food", "food"),
              R("transaction_ai", "neft", "food", "food"),
              R("bootstrap", "dinner", "business", "business"),
              R("upi_seed", "neft", "", "maybe"),
              R("upi_seed", "neft", "", "personal"),
              R("andyrasika", "invoice", "supplies", ""),
              R("alok", "invoice", "utilities", ""),
              R("rajesh", "invoice", "housing", ""),
              R("rajesh", "invoice", "other", ""),
              R("feedback", "dinner", "feedback", "business"),
              R("feedback", "invoice", "feedback", "personal"),
              R("feedback", "neft", "feedback", "business")}

MCMatchOf ==
  [c \in {r.category : r \in MCRawRows} \cup {"upi_seed"} |->
     [t \in {r.text : r \in MCRawRows} |->
        CASE t = "dinner" -> "food" [] t = "invoice" -> "supplies" [] OTHER -> NoMatch]]

\* A steeper curve, a flatter one, and the falling one a bad fit may give.
MCCurves == {[p \in 0 .. 4 |-> IF p = 1 THEN 0 ELSE IF p = 3 THEN 4 ELSE p],
             [p \in 0 .. 4 |-> IF p = 0 THEN 1 ELSE IF p = 4 THEN 3 ELSE p],
             [p \in 0 .. 4 |-> 4 - p]}

MCLeaning == [c \in {"food", "supplies"} |-> IF c = "food" THEN "personal" ELSE "business"]
MCLabelOrder == <<"__fallback_business__", "__fallback_personal__", "food", "supplies">>
=============================================================================
