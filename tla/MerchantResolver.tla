--------------------------- MODULE MerchantResolver ---------------------------
(***************************************************************************)
(* The merchant resolver of Sentinel-Fi (POST /v1/merchant/resolve): it    *)
(* loads a gazetteer of merchants and their aliases and looks for them in  *)
(* the text of a transaction, first exactly, then by words, and at last by *)
(* two measures of similarity, whose values are arbitrary here.            *)
(*                                                                         *)
(* A text is a sequence of words, each with the mark before it: "*" if a   *)
(* single asterisk or hyphen separates it from the word before, " *" if    *)
(* more does and the last of it is one of the two, " " for the others.     *)
(***************************************************************************)
EXTENDS Integers, Sequences, SequencesExt

CONSTANTS Gazetteer,   \* its rows in order: [merchant, names], names a sequence of
                       \* [words, marked, short] with the canonical name first:
                       \* does it contain one of * - / ., has it less than four letters
          Texts,       \* texts that are looked up: sequences of [mark, word], without
                       \* the words "INTL TRX"
          Words,
          PayRest,     \* what is left of words that begin with PAY; of PAY nothing, ""
          Glue,        \* [pairs of words -> words], the first and the second in one
          Within,      \* pairs of words of which the first is a part of the second
          Scores,      \* of the similarity measures, in percent
          Thresholds, TopKs

Names == UNION {ToSet(row.names) : row \in ToSet(Gazetteer)}
MerchantIds == {row.merchant : row \in ToSet(Gazetteer)}

\* What the constants have to be.
ConstantsAssumption ==
  /\ TopKs \subseteq Int
  /\ Scores \subseteq 0 .. 100 /\ Thresholds \subseteq Int
  /\ Gazetteer \in Seq([merchant: MerchantIds, names: Seq(Names) \ {<< >>}])
  /\ \A name \in Names : name.marked \in BOOLEAN /\ name.short \in BOOLEAN
  /\ DOMAIN PayRest \subseteq Words /\ \A w \in DOMAIN PayRest : PayRest[w] \in Words \cup {""}
  /\ "PAY" \in DOMAIN PayRest /\ PayRest["PAY"] = ""
  /\ Glue \in [Words \X Words -> Words]
  /\ Texts \subseteq Seq([mark: {" ", "*", " *"}, word: Words]) \ {<< >>}

VARIABLES
  text, threshold, top_k,  \* the query
  ratio, jaccard,   \* its similarity to each name
  answered,         \* is it answered
  answer            \* the matches

vars == <<text, threshold, top_k, ratio, jaccard, answered, answer>>

Init ==
  /\ text \in Texts /\ threshold \in Thresholds /\ top_k \in TopKs
  /\ ratio \in [Names -> Scores] /\ jaccard \in [Names -> Scores]
  /\ answered = FALSE /\ answer = << >>
-----------------------------------------------------------------------------
(* load.                                                                   *)

RowsOf(id) == {r \in DOMAIN Gazetteer : Gazetteer[r].merchant = id}
RowsWith(name) == {r \in DOMAIN Gazetteer : name \in ToSet(Gazetteer[r].names)}

\* merchants: of rows with the same id the last one stands.
NamesOf(id) == ToSet(Gazetteer[Max(RowsOf(id))].names)

\* alias_to_merchant: a name that comes again gets the later merchant, and
\* keeps its place in the dict.
TakenBy(name) == Gazetteer[Max(RowsWith(name))].merchant

FirstRow(name) == Min(RowsWith(name))
FirstAt(name) == LET names == Gazetteer[FirstRow(name)].names
                 IN  Min({i \in DOMAIN names : names[i] = name})
Before(a, b) ==
  \/ FirstRow(a) < FirstRow(b)
  \/ FirstRow(a) = FirstRow(b) /\ FirstAt(a) < FirstAt(b)

\* _clean: "PAY" and an asterisk or hyphen before it go, also from the beginning
\* of a longer word, and then nothing may stand between its rest and the word
\* before; the other marks become spaces.  "open": the next mark meets the word.
CleanPart(done, part) ==
  IF part.mark = " " \/ part.word \notin DOMAIN PayRest
  THEN [words |-> Append(done.words, part.word), open |-> TRUE]
  ELSE LET rest == PayRest[part.word]
           meets == part.mark = "*" /\ done.open /\ done.words # << >>
       IN  IF rest = "" THEN [words |-> done.words, open |-> meets]
           ELSE IF meets
           THEN [words |-> Append(Front(done.words), Glue[<<Last(done.words), rest>>]), open |-> TRUE]
           ELSE [words |-> Append(done.words, rest), open |-> TRUE]
Clean(parts) ==
  LET done[n \in 0 .. Len(parts)] ==
        IF n = 0 THEN [words |-> << >>, open |-> FALSE] ELSE CleanPart(done[n - 1], parts[n])
  IN  done[Len(parts)].words
-----------------------------------------------------------------------------
(* resolve.                                                                *)

Match(merchant, score, type) == [merchant |-> merchant, score |-> score, type |-> type]

\* An alias of four letters or more is part of a word.
InAWord(name, words) ==
  /\ ~name.marked /\ ~name.short
  /\ Len(name.words) = 1
  /\ \E i \in DOMAIN words : <<name.words[1], words[i]>> \in Within

\* Variant: an alias that is part of a word comes before one that is the text.
ExactMatchLast(words) ==
  LET inside == {name \in Names : InAWord(name, words)}
      same == {name \in Names : ~name.marked /\ name.words = words}
      First(names) == CHOOSE a \in names : \A b \in names \ {a} : Before(a, b)
  IN  IF inside # {} THEN <<Match(TakenBy(First(inside)), 85, "substring")>>
      ELSE IF same # {} THEN <<Match(TakenBy(First(same)), 100, "exact")>> ELSE << >>

\* Of such aliases the first in the order of the dict counts, the best or not.
ExactMatch(words) ==
  LET same == {name \in Names : ~name.marked /\ name.words = words}
      inside == {name \in Names : InAWord(name, words)}
      First(names) == CHOOSE a \in names : \A b \in names \ {a} : Before(a, b)
  IN  IF same # {} THEN <<Match(TakenBy(First(same)), 100, "exact")>>
      ELSE IF inside # {} THEN <<Match(TakenBy(First(inside)), 85, "substring")>> ELSE << >>

FuzzyAliasMatch ==
  {Match(TakenBy(name), ratio[name], "alias") : name \in {name \in Names : ratio[name] >= threshold}}

\* A merchant that has a trigram of the text in a name, be it in a row that no
\* longer stands.
Candidates ==
  {id \in MerchantIds : \E r \in RowsOf(id) : \E name \in ToSet(Gazetteer[r].names) : jaccard[name] > 0}

\* A merchant's best name counts, also one that another merchant has taken.
TrigramMatch ==
  LET Best(names) ==
        {name \in names : /\ jaccard[name] >= threshold
                          /\ \A other \in names : jaccard[other] <= jaccard[name]}
  IN  UNION {{Match(id, jaccard[name], "trigram") : name \in Best(NamesOf(id))} : id \in Candidates}

\* One match for each merchant, its best; the alias wins a tie.
BestPerMerchant(matches) ==
  {m \in matches : \A n \in matches : n.merchant = m.merchant =>
     \/ n.score < m.score
     \/ n.score = m.score /\ (n.type = m.type \/ m.type = "alias")}

\* The matches from the best to the worst; the order of equals is a set's.
Rankings(matches) ==
  {all \in SeqOf(matches, Len(Gazetteer)) :
     /\ ToSet(all) = matches
     /\ \A i, j \in DOMAIN all : i < j => all[i] # all[j] /\ all[i].score >= all[j].score}

\* The slice [:top_k], which for a negative one is all but the last so many.
FirstOf(all) ==
  SubSeq(all, 1, IF top_k < 0 THEN Len(all) + top_k ELSE Min({top_k, Len(all)}))

Resolve ==
  /\ ~answered /\ answered' = TRUE
  /\ LET exact == ExactMatch(Clean(text))
     IN  IF exact # << >> THEN answer' = exact
         ELSE \E all \in Rankings(BestPerMerchant(FuzzyAliasMatch \cup TrigramMatch)) :
                answer' = FirstOf(all)
  /\ UNCHANGED <<text, threshold, top_k, ratio, jaccard>>

Terminated == answered /\ UNCHANGED vars

Next == Resolve \/ Terminated

Spec == Init /\ [][Next]_vars
-----------------------------------------------------------------------------
(* Properties.                                                             *)

\* Type invariant: merchants that are in the gazetteer, one that was found by its
\* name or those that are similar enough, then at most top_k of them.
TypeOK ==
  answered => \A i \in DOMAIN answer :
    /\ answer[i].merchant \in MerchantIds
    /\ \/ answer[i].type \in {"exact", "substring"} /\ Len(answer) = 1
       \/ answer[i].score \in 0 .. 100 /\ answer[i].score >= threshold
    /\ answer[i].type \in {"alias", "trigram"} /\ top_k >= 0 => Len(answer) <= top_k

\* The names that are found in the text as such, whole or in a word of it.
Named(words) == {name \in Names : ~name.marked /\ (name.words = words \/ InAWord(name, words))}

\* A text that names a merchant is answered with one that it names, whatever the
\* similarity of the others, the threshold and top_k: so the order of the
\* gazetteer decides only between merchants that are both named, and a name that
\* is the whole text comes before one that is a part of it.
NamedIsAnswered ==
  answered => \A name \in Named(Clean(text)) :
    /\ Len(answer) = 1 /\ answer[1].score >= 85
    /\ \E winner \in Named(Clean(text)) :
         /\ answer[1].merchant = TakenBy(winner)
         /\ winner = name \/ Before(winner, name) \/ winner.words = Clean(text)
         /\ name.words = Clean(text) => winner.words = Clean(text) /\ answer[1].score = 100

\* The score of a merchant by the two measures together.
BestScore(id) ==
  LET own == {ratio[name] : name \in {name \in Names : TakenBy(name) = id}}
               \cup {jaccard[name] : name \in NamesOf(id)}
  IN  CHOOSE s \in own : \A t \in own : t <= s

\* A caller of /v1/merchant/resolve may take the first match of a text that names
\* nobody: no merchant is in the answer twice, each has the better of its two
\* scores, matches come best first, and no merchant that was left out would come
\* before them.  One that resembles the text in nothing is not asked for.
AnswerIsRanked ==
  answered /\ Named(Clean(text)) = {} =>
    /\ \A i, j \in DOMAIN answer : i < j =>
         answer[i].merchant # answer[j].merchant /\ answer[i].score >= answer[j].score
    /\ \A id \in MerchantIds :
         \/ BestScore(id) < threshold \/ BestScore(id) = 0
         \/ \E i \in DOMAIN answer : answer[i].merchant = id /\ answer[i].score = BestScore(id)
         \/ /\ Len(answer) >= top_k
            /\ \A i \in DOMAIN answer : answer[i].score >= BestScore(id)

\* A card acquirer's "*PAY" or "-PAY" at the end does not change who the merchant is.
PaySuffixIgnored ==
  answered /\ Last(text).mark # " " /\ Last(text).word = "PAY" =>
    ExactMatch(Clean(Front(text))) = ExactMatch(Clean(text))

\* The alias stands in the text, word for word.
StandsIn(name, words) ==
  \E i \in DOMAIN words : /\ i + Len(name.words) - 1 <= Len(words)
                          /\ SubSeq(words, i, i + Len(name.words) - 1) = name.words

\* The module's first lines: "1. Exact alias match (1.0 confidence)
\* 2. Substring / word-level match (0.85)".  A text in which an alias of
\* four letters or more stands gets a match of at least 0.85.
AliasInTextMatches ==
  answered => \A name \in Names :
    ~name.marked /\ ~name.short /\ StandsIn(name, Clean(text)) =>
      \E i \in DOMAIN answer : answer[i].score >= 85

\* tests/test_merchant_resolver.py:57 "assert matches[0].canonical_name ==": what
\* matches exactly is a name of the merchant in the answer.
ExactIsItsOwn ==
  answered => \A i \in DOMAIN answer : answer[i].type = "exact" =>
    \E name \in NamesOf(answer[i].merchant) : name.words = Clean(text)

\* No name is more similar to the text than the merchant in the answer is said to be.
BestIsAnswered ==
  answered /\ answer # << >> =>
    \A name \in Names : ratio[name] <= answer[1].score \/ TakenBy(name) = answer[1].merchant

\* The stages come in their order, each gives the best that it has.
ResolvedInOrder == NamedIsAnswered /\ AnswerIsRanked /\ PaySuffixIgnored
=============================================================================
