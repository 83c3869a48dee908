------------------------------ MODULE LeakAudit ------------------------------
(***************************************************************************)
(* The second half of an audit in Sentinel-Fi: the nodes of the audit      *)
(* graph behind finalize_classification.  leak_detector looks for six      *)
(* kinds of leaks in the classified rows, gst_sentinel for missing         *)
(* invoices, cleanup_planner turns findings into tasks, and                *)
(* build_audit_output sums everything up with a risk score.                *)
(*                                                                         *)
(* Amounts are whole rupees, impacts and tax credits are in hundredths of  *)
(* a rupee, confidences in percent.  What a description says is reduced to *)
(* the answers of the tests the code makes on it.                          *)
(***************************************************************************)
EXTENDS Integers, FiniteSetsExt, SequencesExt, Lists

CONSTANTS Charges,     \* the kinds of rows a statement may hold
          MaxRows,     \* bound on the rows of a statement
          MaxRepeats,  \* bound on the rows finalize_classification merged away
          Tokens,      \* leak_merchant_tokens
          FamilyOf,    \* the SaaS family of each merchant key, or None
          None

Percent == 0 .. 100
Keys == DOMAIN FamilyOf

\* clues: merchant column, UPI token and known phrase, each a key or None;
\* tokens: the merchant tokens in the text; word: its first word;
\* text: the keys that the text contains; marker, hint, billable, invoice:
\* whether it has a subscription marker, a business hint, something to
\* claim tax credit on, a GST invoice.
Charge == [amount: Nat \ {0}, day: Nat, debit: BOOLEAN,
           category: {"business", "personal", "unknown"},
           clues: [1 .. 3 -> Keys \cup {None}], tokens: SUBSET Tokens, word: Keys,
           text: SUBSET Keys, marker: BOOLEAN, bare: BOOLEAN, hint: BOOLEAN,
           billable: BOOLEAN, invoice: BOOLEAN,
           confidence: Percent, review: BOOLEAN]

Summary == [total_transactions: Nat, leak_count: Nat, total_leak_amount: Nat,
            missed_itc: Nat, risk_score: Percent, review_count: Nat]

ASSUME ConstantsAssumption ==
  /\ MaxRows \in Nat /\ MaxRepeats \in Nat
  /\ None \notin Keys /\ None \notin Summary
  /\ Tokens \subseteq Keys /\ IsFiniteSet(Tokens)
  /\ \A key \in Keys : FamilyOf[key] \in {"video", "chat", "docs", None}
  /\ Charges \subseteq Charge

VARIABLES
  tokens,    \* the order in which this process iterates over leak_merchant_tokens
  node,      \* the node that runs next
  rows,      \* classified_transactions: one row for each tx_id, which is its number
  repeats,   \* rows of the statement that shared their tx_id with one of them
  leaks, gst, tasks, summary

vars == <<tokens, node, rows, repeats, leaks, gst, tasks, summary>>

\* The row number i of a statement.
RowOf(i, c) == [field \in DOMAIN c \cup {"id"} |-> IF field = "id" THEN i ELSE c[field]]

Init ==
  /\ tokens \in SetToSeqs(Tokens)
  /\ node = "leak_detector"
  /\ \E len \in 0 .. MaxRows : \E charge \in [1 .. len -> Charges] :
       rows = [i \in 1 .. len |-> RowOf(i, charge[i])]
  /\ repeats \in 0 .. MaxRepeats
  /\ leaks = {} /\ gst = {} /\ tasks = {} /\ summary = None
-----------------------------------------------------------------------------
(* Helpers.                                                                *)

Larger(a, b) == IF a < b THEN b ELSE a

Ids(list) == {list[i].id : i \in DOMAIN list}
Spent(list) == SumFunction([i \in DOMAIN list |-> list[i].amount])

\* Variant: as the statement has them.
AsListed(list) == list

ByDay(list) == SortedBy(list, [i \in DOMAIN list |-> list[i].day])

Finding(type, severity, impact, list) ==
  [type |-> type, severity |-> severity, impact |-> impact, ids |-> Ids(list)]
-----------------------------------------------------------------------------
(* leak_detection_service.                                                 *)

\* _merchant_key: the first clue, else the first token of the set, in the
\* order of this process, else the first word.
MerchantKey(row) ==
  LET clues == Where(row.clues, LAMBDA clue : clue # None)
      found == Where(tokens, LAMBDA token : token \in row.tokens)
  IN  IF clues # << >> THEN Head(clues)
      ELSE IF found # << >> THEN Head(found) ELSE row.word

\* by_merchant.
Debits(list, key) == Where(list, LAMBDA row : row.debit /\ MerchantKey(row) = key)
Merchants(list) == {MerchantKey(list[i]) : i \in {i \in DOMAIN list : list[i].debit}}

\* Does the text have a subscription marker, or the merchant key itself?
Subscription(row, key) == row.marker \/ key \in row.text

\* _cluster_by_amount: in the order of amounts, each row joins the first
\* group whose mean is within 5 percent, or a rupee, of it.
Fits(row, group) ==
  LET n == Len(group)  sum == Spent(group)  off == row.amount * n - sum
  IN  20 * (IF off < 0 THEN - off ELSE off) <= Larger(20 * n, sum)
Join(groups, row) ==
  LET fitting == {g \in DOMAIN groups : Fits(row, groups[g])}
  IN  IF fitting = {} THEN Append(groups, <<row>>)
      ELSE [groups EXCEPT ![Min(fitting)] = Append(@, row)]
ClusterByAmount(list) ==
  LET sorted == SortedBy(list, [i \in DOMAIN list |-> list[i].amount])
      groups[n \in 0 .. Len(list)] ==
        IF n = 0 THEN << >> ELSE Join(groups[n - 1], sorted[n])
  IN  groups[Len(list)]

\* (mean * (n - 1) * 12, which comes out even for groups of up to four.)
DetectDuplicates(debits, key) ==
  LET group == ClusterByAmount(Where(debits, LAMBDA row :
                 row.amount > 300 /\ Subscription(row, key)))
  IN  {Finding("duplicate", "P1", 1200 * ((Spent(group[g]) * (Len(group[g]) - 1)) \div Len(group[g])), group[g]) :
         g \in {g \in DOMAIN group : Len(group[g]) >= 2}}

\* A charge and the first of the four before it, up to 60 days earlier,
\* that cost next to nothing.
DetectFreeTrials(debits, key) ==
  LET ordered == ByDay(debits)
      Trials(i) == {j \in Larger(1, i - 4) .. i - 1 :
                      /\ ordered[i].day - ordered[j].day <= 60
                      /\ 10 * ordered[j].amount <= Larger(500, ordered[i].amount)}
  IN  {Finding("trial", "P2", 1200 * ordered[i].amount, <<ordered[Min(Trials(i))], ordered[i]>>) :
         i \in {i \in DOMAIN ordered : /\ ordered[i].amount >= 199
                                       /\ Subscription(ordered[i], key)
                                       /\ Trials(i) # {}}}

DetectZombies(debits) ==
  LET recurring == Where(debits, LAMBDA row : row.amount > 199 /\ row.marker)
      zombies == Where(recurring, LAMBDA row : row.category = "unknown" /\ row.bare)
  IN  IF Len(recurring) >= 3 /\ Len(zombies) >= 2
      THEN {Finding("zombie", "P1", 100 * Spent(zombies), zombies)} ELSE {}

\* Twice the base price: the median of the earlier charges or, with three
\* charges only, the least of all.
TwiceBase(values) ==
  LET n == Len(values)
      earlier == SortedBy(SubSeq(values, 1, n - 1), SubSeq(values, 1, n - 1))
  IN  IF n > 3 THEN earlier[n \div 2] + earlier[(n + 1) \div 2] ELSE 2 * Min(Range(values))

DetectHikes(debits) ==
  LET ordered == Where(ByDay(debits), LAMBDA row : row.amount > 100)
      values == [i \in DOMAIN ordered |-> ordered[i].amount]
      rise == 2 * Last(values) - TwiceBase(values)
  IN  IF Len(values) >= 3 /\ 4 * rise >= TwiceBase(values)
      THEN {Finding("hike", "P2", 600 * rise, ordered)} ELSE {}

DetectSprawl(list) ==
  LET FamilyRows(fam) == Where(list, LAMBDA row : row.debit /\ FamilyOf[MerchantKey(row)] = fam)
  IN  {Finding("sprawl", "P2", 30 * Spent(FamilyRows(fam)), FamilyRows(fam)) :
         fam \in {fam \in {"video", "chat", "docs"} : Cardinality(Merchants(FamilyRows(fam))) >= 2}}

DetectTaxMiscategory(list) ==
  LET risky == Where(list, LAMBDA row : row.category = "personal" /\ row.hint)
  IN  IF risky # << >> THEN {Finding("tax", "P1", 100 * Spent(risky), risky)} ELSE {}

DetectMerchantLeaks(debits, key) ==
  DetectDuplicates(debits, key) \cup DetectFreeTrials(debits, key)
    \cup DetectZombies(debits) \cup DetectHikes(debits)

DetectLeaks(list) ==
  (UNION {DetectMerchantLeaks(Debits(list, key), key) : key \in Merchants(list)})
    \cup DetectSprawl(list) \cup DetectTaxMiscategory(list)
-----------------------------------------------------------------------------
(* GstSentinel.analyze, CleanupPlanner.plan, compute_risk_score.           *)

Analyze(list) ==
  {[id |-> row.id, invoice |-> row.invoice, itc |-> 18 * row.amount] :
     row \in {row \in ToSet(list) : row.category = "business" /\ row.debit /\ row.billable}}

\* The findings whose subscriptions someone is asked to cancel.
ToCancel == {"duplicate", "sprawl"}

Plan(found, gst_found) ==
  LET tax == {f \in found : f.type = "tax"}
      cancel == {f \in found : f.type \in ToCancel}
      missing == {g \in gst_found : ~g.invoice}
      Task(type, about) == IF about = {} THEN {} ELSE {[type |-> type, about |-> about]}
  IN  Task("ledger_reclass", tax) \cup Task("email_draft", cancel)
        \cup Task("invoice_fetch", {g.id : g \in missing}) \cup Task("gst_recon", missing)

Missed(gst_found) ==
  SumFunctionOnSet([g \in gst_found |-> g.itc], {g \in gst_found : ~g.invoice})
Impact(found) == SumFunction([f \in found |-> f.impact])
Reviews(list) == Cardinality({i \in DOMAIN list : list[i].review})
Confidence(list) == SumFunction([i \in DOMAIN list |-> list[i].confidence])

\* Variant: without the min.
RatioUncapped(part, whole) ==
  IF part >= whole THEN 1000 * (part \div whole) ELSE (part * 1000) \div whole

\* min(1, part / whole) in thousandths.
Ratio(part, whole) == IF part >= whole THEN 1000 ELSE (part * 1000) \div whole

\* Variant: the mean severity of the leaks.
MeanSeverity(found) ==
  SumFunction([f \in found |-> IF f.severity = "P1" THEN 100 ELSE 60])
    \div Larger(1, Cardinality(found))

Severity(found) == SumFunction([f \in found |-> IF f.severity = "P1" THEN 100 ELSE 60])

ComputeRiskScore(found, gst_found, list) ==
  LET n == Len(list)
      spend == Spent(Where(list, LAMBDA row : row.debit))
      score == 35 * Ratio(Severity(found), Larger(100, 8 * n))
             + 20 * Ratio(10 * Cardinality(found), Larger(10, 2 * n))
             + 20 * Ratio(Impact(found), Larger(100, 25 * spend))
             + 10 * Ratio(Missed(gst_found), Larger(100, 10 * spend))
             + 10 * Ratio(Reviews(list), n)
             + 5 * Ratio(100 * n - Confidence(list), 100 * n)
  IN  IF n = 0 THEN 0 ELSE (score + 500) \div 1000
-----------------------------------------------------------------------------
(* The nodes.                                                              *)

Visit(from, to) == node = from /\ node' = to /\ UNCHANGED <<tokens, rows, repeats>>

leak_detector ==
  /\ Visit("leak_detector", "gst_sentinel")
  /\ leaks' = DetectLeaks(rows)
  /\ UNCHANGED <<gst, tasks, summary>>

gst_sentinel ==
  /\ Visit("gst_sentinel", "cleanup_planner")
  /\ gst' = Analyze(rows)
  /\ UNCHANGED <<leaks, tasks, summary>>

cleanup_planner ==
  /\ Visit("cleanup_planner", "build_audit_output")
  /\ tasks' = Plan(leaks, gst)
  /\ UNCHANGED <<leaks, gst, summary>>

\* total_transactions counts the rows of the statement, all else the
\* classified ones.
build_audit_output ==
  /\ Visit("build_audit_output", "end")
  /\ summary' = [total_transactions |-> Len(rows) + repeats,
                 leak_count |-> Cardinality(leaks),
                 total_leak_amount |-> Impact(leaks),
                 missed_itc |-> Missed(gst),
                 risk_score |-> ComputeRiskScore(leaks, gst, rows),
                 review_count |-> Reviews(rows)]
  /\ UNCHANGED <<leaks, gst, tasks>>

Terminated == node = "end" /\ UNCHANGED vars

Next == leak_detector \/ gst_sentinel \/ cleanup_planner \/ build_audit_output \/ Terminated

Spec == Init /\ [][Next]_vars
-----------------------------------------------------------------------------
(* Properties.                                                             *)

Findings == [type: {"duplicate", "trial", "zombie", "hike", "sprawl", "tax"},
             severity: {"P1", "P2"}, impact: Nat, ids: SUBSET (1 .. MaxRows)]

\* Type invariant; with it the risk score of a complete audit is a percentage.
TypeOK ==
  /\ tokens \in SetToSeqs(Tokens)
  /\ node \in {"leak_detector", "gst_sentinel", "cleanup_planner", "build_audit_output", "end"}
  /\ \A i \in DOMAIN rows : rows[i].id = i
  /\ repeats \in 0 .. MaxRepeats
  /\ leaks \subseteq Findings
  /\ gst \subseteq [id: 1 .. MaxRows, invoice: BOOLEAN, itc: Nat]
  /\ \A t \in tasks : t.type \in {"ledger_reclass", "email_draft", "invoice_fetch", "gst_recon"}
  /\ node = "end" <=> summary # None
  /\ node = "end" => summary.risk_score \in Percent

Of(type) == {f \in leaks : f.type = type}

\* Clustering by a mean that moves as charges join loses nobody: two equal
\* charges of one merchant, either of which could be a subscription above
\* the minimum, end up in one duplicate finding, and no charge is in two.
EqualChargesAreDuplicates ==
  node # "leak_detector" => \A i, j \in DOMAIN rows :
    /\ i # j
    /\ rows[i].debit /\ rows[j].debit
    /\ MerchantKey(rows[i]) = MerchantKey(rows[j])
    /\ rows[i].amount = rows[j].amount /\ rows[i].amount > 300
    /\ \A row \in {rows[i], rows[j]} : row.marker \/ MerchantKey(row) \in row.text
    => /\ \E f \in Of("duplicate") : {i, j} \subseteq f.ids
       /\ \A f, g \in Of("duplicate") : i \in f.ids \cap g.ids => f = g

\* The charges of no merchant share a day.
NoTies == \A i, j \in DOMAIN rows :
  i # j /\ MerchantKey(rows[i]) = MerchantKey(rows[j]) => rows[i].day # rows[j].day

\* Statements list charges oldest or newest first, and the merge before
\* leak_detector lists them by classifier: the findings are the same for
\* any order, as long as no merchant charges twice on one day.
RowOrderDoesNotMatter ==
  node # "leak_detector" /\ NoTies => DetectLeaks(Reverse(rows)) = leaks

\* The latest charge of a price hike is a quarter above an earlier one, and
\* with more than three charges above half of the earlier ones; its impact
\* is less than a year of the latest charge.
HikeIsARise ==
  \A f \in Of("hike") :
    LET ordered == ByDay(Where(rows, LAMBDA row : row.id \in f.ids))
        n == Len(ordered)
        latest == ordered[n].amount
        risen == {i \in 1 .. n - 1 : 4 * latest >= 5 * ordered[i].amount}
    IN  /\ f.impact > 0 /\ f.impact < 1200 * latest
        /\ risen # {}
        /\ n > 3 => 2 * Cardinality(risen) >= n - 1

\* The tax credit the summary calls missed is that of the rows whose
\* invoices the plan wants fetched, and each of them is a debit booked as
\* business without one; a plan that fetches invoices reconciles them too.
MissedItcIsFetched ==
  node = "end" =>
    LET fetched == UNION {t.about : t \in {t \in tasks : t.type = "invoice_fetch"}}
    IN  /\ summary.missed_itc = SumFunctionOnSet([i \in DOMAIN rows |-> 18 * rows[i].amount], fetched)
        /\ \A i \in fetched : rows[i].debit /\ ~rows[i].invoice /\ rows[i].category = "business"
        /\ fetched # {} <=> \E t \in tasks : t.type = "gst_recon"

\* Every finding someone can write something about is in a task, and the
\* leaks that no task takes up are trials, zombies and price hikes.
TasksCoverLeaks ==
  node \in {"build_audit_output", "end"} =>
    LET about == UNION {t.about : t \in {t \in tasks : t.type \in {"ledger_reclass", "email_draft"}}}
    IN  {f.type : f \in leaks \ about} \subseteq {"trial", "zombie", "hike"} /\ about \subseteq leaks

\* A leak or a missing invoice never makes an audit look safer: without any
\* one of them the risk score would be no higher.
RiskIsMonotone ==
  node = "end" =>
    /\ \A f \in leaks : ComputeRiskScore(leaks \ {f}, gst, rows) <= summary.risk_score
    /\ \A g \in gst : ComputeRiskScore(leaks, gst \ {g}, rows) <= summary.risk_score

\* The findings do not hang on how the statement lists its charges: equal
\* ones, their order, and the ends of a price hike.
FindingsAreStable == EqualChargesAreDuplicates /\ RowOrderDoesNotMatter /\ HikeIsARise

\* What the later nodes make of findings and invoices goes together.
SumsGoTogether == MissedItcIsFetched /\ TasksCoverLeaks /\ RiskIsMonotone
=============================================================================
