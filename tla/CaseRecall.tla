----------------------------- MODULE CaseRecall -----------------------------
(***************************************************************************)
(* How the RAG service finds earlier cases like the one at hand, and what  *)
(* the agent gets: an exact, a pattern and a semantic recall, each with a  *)
(* read of its own of the case index, whose rows are replaced meanwhile.   *)
(* Scores are in thousandths, and every row of the index is taken to be    *)
(* human_verified.  Left open: what the semantic recall finds, and the     *)
(* order of hits that rank_key tells apart by their score only.  The table *)
(* has at most 80 rows, so that every read returns all of it.              *)
(***************************************************************************)
EXTENDS Naturals, Sequences, FiniteSets, Subsequences

CONSTANTS
  NumIndexed,        \* how many cases the index holds at most
  CaseRows,          \* rows a case may have, as the query sees them
  TopK,              \* how many hits are asked for
  MaxReplacements    \* bound: rows written during the search

ASSUME CaseRecallAssumptions ==
  /\ NumIndexed \in 1..80 /\ TopK \in Nat \ {0} /\ MaxReplacements \in Nat
  /\ CaseRows \subseteq [service : BOOLEAN, mode : BOOLEAN, taxonomy : BOOLEAN,
                         words : 0..1000, place : {0, 30, 40, 70}]

VARIABLES
  named,          \* the query names a service
  caseTable,      \* the rows of the index, the one written last first
  recall,         \* where the search is, and the hits it holds
  steady,         \* history: the cases whose row was not replaced since the search began
  patternRead,    \* history: the read of the pattern recall succeeded
  replacements

caseRecallVars == <<named, caseTable, recall, steady, patternRead, replacements>>

-----------------------------------------------------------------------------
(* Scores and ranks.  A row tells whether its service, failure mode and    *)
(* taxonomy are the query's, how many of its words are (words), and what   *)
(* the same cluster and namespace add (place).                             *)

If(b, n) == IF b THEN n ELSE 0
Smaller(m, n) == IF m <= n THEN m ELSE n

\* Of the service, if one is named, and with the failure mode, the taxonomy or enough words.
ExactCandidate(row) ==
  /\ named => row.service
  /\ row.mode \/ row.taxonomy \/ row.words >= 120

ExactScore(row) ==
  LET pattern == If(row.mode, 350) + If(row.taxonomy, 180)
  IN Smaller(760, 220 + pattern + Smaller((row.words * 28) \div 100, 180)
                    + If(pattern > 0 \/ row.words >= 180, row.place) + 50)

PatternScore_ModeOnly(row) == If(row.mode, 550) + If(row.service /\ row.mode, 80) + 50

\* The bonus of a verified row comes before the check that the score is above zero:
\* no row is left out.
PatternScore(row) ==
  LET pattern == If(row.mode, 550) + If(row.taxonomy, 250)
  IN Smaller(880, pattern + If(row.service /\ pattern > 0, 80) + 50)

\* The n rows of highest score, of those whose place has one, the first of equal ones.
Highest(rows, score, n) ==
  LET above(i, j) == score[i] > score[j] \/ (score[i] = score[j] /\ i < j)
  IN {rows[i] : i \in {j \in DOMAIN score : Cardinality({k \in DOMAIN score : above(k, j)}) < n}}

\* rank_key, but for the score that comes last in it.
RankKey(hit) ==
  LET row == hit.row
  IN If(row.service /\ (row.mode \/ row.taxonomy), 16) + If(row.mode, 8) + If(row.taxonomy, 4)
       + If(row.service, 2) + If(hit.by = "exact", 1)

\* The first recall that found a case provides its hit.
MergeCases(hits, rows, by) ==
  hits \cup {[row |-> row, by |-> by] : row \in {r \in rows : \A h \in hits : h.row.case # r.case}}

-----------------------------------------------------------------------------
(* The search.                                                             *)

OfCase(row, c) ==
  [case |-> c, service |-> row.service, mode |-> row.mode, taxonomy |-> row.taxonomy,
   words |-> row.words, place |-> row.place]

\* Without a service in the query, no row has the query's service.
Possible(row) == named \/ ~row.service

CaseRecallInit ==
  /\ named \in BOOLEAN
  /\ \E n \in 0..NumIndexed : \E rows \in [1..n -> {r \in CaseRows : Possible(r)}] :
       caseTable = [i \in 1..n |-> OfCase(rows[i], i)]
  /\ recall = [at |-> "exact", hits |-> {}]
  /\ steady = 1..NumIndexed /\ patternRead = TRUE
  /\ replacements = 0

\* list_cases returns no row when the read fails.
Reads == {caseTable, <<>>}

\* What the two later recalls look at: only the hits of the exact recall are excluded.
NotExact(rows) ==
  {i \in DOMAIN rows : \A h \in recall.hits : h.by = "exact" => h.row.case # rows[i].case}

RecallExact ==
  \E rows \in Reads :
    LET score == [i \in {j \in DOMAIN rows : ExactCandidate(rows[j])} |-> ExactScore(rows[i])] IN
    /\ recall.at = "exact"
    /\ recall' = [at |-> "pattern",
                  hits |-> MergeCases({}, Highest(rows, score, Smaller(2, TopK)), "exact")]
    /\ UNCHANGED <<named, caseTable, steady, patternRead, replacements>>

RecallPattern ==
  \E rows \in Reads :
    LET score == [i \in NotExact(rows) |-> PatternScore(rows[i])] IN
    /\ recall.at = "pattern"
    /\ recall' = [at |-> "semantic",
                  hits |-> MergeCases(recall.hits, Highest(rows, score, Smaller(2, TopK)), "pattern")]
    /\ patternRead' = (rows = caseTable)
    /\ UNCHANGED <<named, caseTable, steady, replacements>>

\* The query is embedded only when there is a row to compare it with; when that fails the
\* request fails, and CaseRetriever.recall returns no case.
RecallSemantic ==
  \E rows \in Reads :
    /\ recall.at = "semantic"
    /\ \/ \E found \in SUBSET {rows[i] : i \in NotExact(rows)} :
            /\ Cardinality(found) <= IF TopK >= 4 THEN TopK ELSE 4
            /\ recall' = [at |-> "ranking", hits |-> MergeCases(recall.hits, found, "semantic")]
       \/ /\ NotExact(rows) # {}
          /\ recall' = [at |-> "failed", hits |-> {}]
    /\ UNCHANGED <<named, caseTable, steady, patternRead, replacements>>

RankHits ==
  \E shown \in SUBSET recall.hits :
    /\ recall.at = "ranking"
    /\ Cardinality(shown) = Smaller(TopK, Cardinality(recall.hits))
    /\ \A h \in shown, g \in recall.hits \ shown : RankKey(h) >= RankKey(g)
    /\ recall' = [at |-> "answered", hits |-> shown]
    /\ UNCHANGED <<named, caseTable, steady, patternRead, replacements>>

\* An index call writes a case anew, and puts it first.
ReplaceRow(c) ==
  \E row \in CaseRows :
    LET others == Selected(caseTable, {i \in DOMAIN caseTable : caseTable[i].case # c}) IN
    /\ recall.at \in {"pattern", "semantic"}
    /\ replacements < MaxReplacements
    /\ replacements' = replacements + 1
    /\ Possible(row)
    /\ caseTable' = <<OfCase(row, c)>> \o others
    /\ steady' = steady \ {c}
    /\ UNCHANGED <<named, recall, patternRead>>

CaseRecallNext ==
  \/ RecallExact \/ RecallPattern \/ RecallSemantic \/ RankHits
  \/ \E c \in 1..NumIndexed : ReplaceRow(c)

CaseRecallSpec == CaseRecallInit /\ [][CaseRecallNext]_caseRecallVars

-----------------------------------------------------------------------------
(* Properties.                                                             *)

FullMatch(row) == row.mode /\ row.taxonomy /\ (named => row.service)

\* An answer shows every case that matches in service, failure mode and taxonomy, or two of
\* them (one if one hit is asked for), although the cap of the exact score lets weaker cases
\* take the places of the exact recall, a read may fail, and other rows are replaced between
\* the reads.  Only a failed read of the pattern recall is excepted.
BestMatchesShown ==
  recall.at = "answered" /\ patternRead =>
    LET best == {c \in steady : \E i \in DOMAIN caseTable : caseTable[i].case = c /\ FullMatch(caseTable[i])}
    IN Cardinality({h \in recall.hits : FullMatch(h.row)}) >= Smaller(Cardinality(best), Smaller(2, TopK))
=============================================================================
