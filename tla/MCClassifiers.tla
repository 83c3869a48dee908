---------------------------- MODULE MCClassifiers ----------------------------
(* Classifiers with the default thresholds and a confidence in each of the   *)
(* bands they cut out, batches of two rows for the LLM, categories on both   *)
(* sides of every threshold of the rules, and rows like the gazetteer's.     *)
EXTENDS Classifiers, SequencesExt

CONSTANTS a, b, stray

\* LLM: statements of up to three rows, two of which may share an id, and
\* answers of up to two items.
MCStatements == {[i \in DOMAIN ids |-> [n |-> i, id |-> ids[i]]] : ids \in SeqOf({a, b}, 3)}
MCAnswers == SeqOf([id: {a, b, stray}, category: {"business", "personal"}], 2)
-----------------------------------------------------------------------------
(* Rules.                                                                   *)

MCOrder == <<"professional_services", "groceries", "investments">>
MCCategories == ToSet(MCOrder)
MCBaseCodes == ("9311" :> "professional_services") @@ ("6211" :> "investments")
MCBasePropensity ==
  [c \in MCCategories |->
    CASE c = "professional_services" -> 90 [] c = "groceries" -> 10 [] c = "investments" -> 60]

MCRuleOverrides ==
  {[codes |-> << >>, propensity |-> << >>],
   [codes |-> ("6211" :> "groceries"),
    propensity |-> ("groceries" :> 38) @@ ("investments" :> 65) @@ ("professional_services" :> None)],
   [codes |-> ("6211" :> "gone"), propensity |-> ("groceries" :> -20) @@ ("professional_services" :> 140)]}

MCVotes == {None, [side |-> "business", confidence |-> 840 * 66],
            [side |-> "personal", confidence |-> 840 * 90]}

\* The MCC meets every row, the other features meet each other.
MCRuleRows ==
  [tokens: {2, 9, 11},
   matches: [MCCategories -> 0 .. 1]
     \cup {[c \in MCCategories |-> IF c = d THEN 2 ELSE IF c = "groceries" THEN 1 ELSE 0] :
             d \in {"professional_services", "investments"}},
   words: [{"business", "personal"} -> {0, 2, 6}],
   rules: [{"business", "personal"} -> BOOLEAN],
   upi: {"none", "business", "personal", "p2p", "handle", "merchant"}, fast: {FALSE},
   vote: MCVotes, mcc: {None}, digits: {None}]
  \cup
  [tokens: {2, 11}, matches: [MCCategories -> 0 .. 1], words: [{"business", "personal"} -> {0, 2}],
   rules: [{"business", "personal"} -> {FALSE}], upi: {"business", "personal", "merchant"},
   fast: {TRUE}, vote: MCVotes, mcc: {None}, digits: {None}]
  \cup
  [tokens: {2}, matches: {[c \in MCCategories |-> 0]},
   words: [{"business", "personal"} -> {0, 2}], rules: [{"business", "personal"} -> {FALSE}],
   upi: {"none"}, fast: {FALSE}, vote: {None},
   mcc: {None, "5734", "5812", "9311", "6211", "1234"}, digits: {None, "5812", "2024"}]
-----------------------------------------------------------------------------
(* Merchants: one has a name of two words that another one's is a part of,  *)
(* and two rows have one id, as in data/gazetteer.                          *)

Name(words) == [words |-> words, marked |-> FALSE, short |-> FALSE]
MCGazetteer ==
  <<[merchant |-> 3, names |-> <<Name(<<"UBER", "EATS">>)>>],
    [merchant |-> 350, names |-> <<Name(<<"ICICI", "DIRECT">>)>>],
    [merchant |-> 335, names |-> <<Name(<<"UBER">>), [Name(<<"UBER">>) EXCEPT !.marked = TRUE]>>],
    [merchant |-> 350, names |-> <<Name(<<"GOOGLE">>)>>]>>

Text(words) == [i \in DOMAIN words |-> [mark |-> " ", word |-> words[i]]]
Marked(mark, word) == <<[mark |-> mark, word |-> word]>>
MCTexts ==
  {Text(<<"UBER", "EATS">>), Text(<<"UBER", "EATSS">>), Text(<<"GOOGLE", "UBERTRIP">>),
   Text(<<"ICICI", "DIRECT">>), Text(<<"ICICI", "DIRECT", "ORDER">>), Marked("*", "PAYTM"),
   Text(<<"GOOGLE">>) \o Marked("*", "PAY"), Text(<<"GOOGLE">>) \o Marked("*", "PAYMENT"),
   Text(<<"GOOGLE">>) \o Marked(" *", "PAY") \o Marked("*", "PAYTM")}
MCWords == {"UBER", "EATS", "EATSS", "UBERTRIP", "ICICI", "DIRECT", "ORDER",
            "GOOGLE", "GOOGLEMENT", "PAY", "PAYMENT", "PAYTM", "MENT", "TM"}
MCPayRest == ("PAY" :> "") @@ ("PAYMENT" :> "MENT") @@ ("PAYTM" :> "TM")
MCGlue ==
  [pair \in MCWords \X MCWords |-> IF pair = <<"GOOGLE", "MENT">> THEN "GOOGLEMENT" ELSE pair[1]]
MCTopKs == {-1, 2}
MCWithin ==
  {<<w, w>> : w \in {"UBER", "GOOGLE"}} \cup {<<"UBER", "UBERTRIP">>, <<"GOOGLE", "GOOGLEMENT">>}
-----------------------------------------------------------------------------
(* The cascade: statements of up to two rows.                               *)

Outcome(stage, category, percent) ==
  [by |-> stage, unknown |-> category = "unknown", confidence |-> percent]

MCMlOutcomes == {Outcome("ml", "known", c) : c \in {60, 71, 80, 90}}
MCSlmOutcomes ==
  {Outcome("slm", "unknown", 45)} \cup {Outcome("slm", "known", c) : c \in {66, 71, 80, 90}}
MCLlmOutcomes ==
  {Outcome("rule", "unknown", 50), Outcome("rule", "known", 78),
   Outcome("llm", "known", 60), Outcome("llm", "known", 90)}
=============================================================================
