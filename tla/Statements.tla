----------------------------- MODULE Statements -----------------------------
(* What comes in and what is found in it: RateLimiter lets requests in,      *)
(* CsvIngestion and PdfStatement read statements, LeakAudit looks for leaks *)
(* in one.  The four share a specification and not a state: each behaviour  *)
(* has work for one of them and leaves the others where they start.         *)
EXTENDS LeakAudit

-----------------------------------------------------------------------------
(* Leaks.                                                                   *)

LeaksIdle ==
  /\ rows = << >> /\ repeats = 0 /\ tokens = SetToSeq(Tokens)
  /\ node = "leak_detector"
  /\ leaks = {} /\ gst = {} /\ tasks = {} /\ summary = None
-----------------------------------------------------------------------------
(* CSV.                                                                     *)

CONSTANTS CsvFiles, Today, DayOf, ValueOf, Folded, FirstWord,
          Blank, NoDay, NoValue, NaN, NoMerchant

VARIABLES csv_stage, file, dedup_rows, loaded, normalized
csv_vars == <<csv_stage, file, dedup_rows, loaded, normalized>>

Csv == INSTANCE CsvIngestion WITH stage <- csv_stage, Statements <- CsvFiles

ASSUME CsvAssumption == Csv!ConstantsAssumption

CsvIdle == file = << >> /\ dedup_rows = TRUE /\ Csv!Init
-----------------------------------------------------------------------------
(* PDF.                                                                     *)

CONSTANTS PdfDocuments, Threshold, Rest

VARIABLES pdf_stage, doc, enable_ocr_fallback, ocr_installed, txs
pdf_vars == <<pdf_stage, doc, enable_ocr_fallback, ocr_installed, txs>>

Pdf == INSTANCE PdfStatement WITH stage <- pdf_stage, Documents <- PdfDocuments

ASSUME PdfAssumption == Pdf!ConstantsAssumption

PdfIdle ==
  /\ doc = [tables |-> << >>, pages |-> <<<< >>, << >>>>]
  /\ enable_ocr_fallback = FALSE /\ ocr_installed = FALSE
  /\ Pdf!Init
-----------------------------------------------------------------------------
(* Requests.                                                                *)

CONSTANTS Threads, Limit, Window, MaxDelay, MaxTime

VARIABLES backend, now, bucket, zset, pc, stamp, admitted
limiter_vars == <<backend, now, bucket, zset, pc, stamp, admitted>>

Limiter == INSTANCE RateLimiter

ASSUME LimiterAssumption == Limiter!ConstantsAssumption

LimiterIdle == backend = "memory" /\ Limiter!Init
-----------------------------------------------------------------------------
VARIABLE component  \* the one that has work

StatementsInit ==
  \/ component = "limiter" /\ LeaksIdle /\ CsvIdle /\ PdfIdle /\ Limiter!Init
  \/ component = "leaks" /\ LimiterIdle /\ CsvIdle /\ PdfIdle /\ Init
  \/ component = "csv" /\ LimiterIdle /\ LeaksIdle /\ PdfIdle /\ Csv!Init
  \/ component = "pdf" /\ LimiterIdle /\ LeaksIdle /\ CsvIdle /\ Pdf!Init

StatementsNext ==
  \/ component = "limiter" /\ Limiter!Next /\ UNCHANGED <<component, vars, csv_vars, pdf_vars>>
  \/ component = "leaks" /\ Next /\ UNCHANGED <<component, limiter_vars, csv_vars, pdf_vars>>
  \/ component = "csv" /\ Csv!Next /\ UNCHANGED <<component, limiter_vars, vars, pdf_vars>>
  \/ component = "pdf" /\ Pdf!Next /\ UNCHANGED <<component, limiter_vars, vars, csv_vars>>

StatementsSpec ==
  StatementsInit /\ [][StatementsNext]_<<component, limiter_vars, vars, csv_vars, pdf_vars>>

\* The type invariants of the four modules.
StatementsTypeOK == TypeOK /\ Limiter!TypeOK /\ Csv!TypeOK /\ Pdf!TypeOK

\* Neither limiter lets more through than its interleavings explain.
WindowsHold == Limiter!WindowsHold

\* The rows of a statement are read as they stand in it: deduplication takes
\* from a CSV file what repeats an earlier row and nothing else, an unreadable
\* amount counting as an empty one, and a page reads as it is printed.
RowsAreRead == Csv!OnlyEqualsGo /\ Pdf!PageReadsAsPrinted
=============================================================================
