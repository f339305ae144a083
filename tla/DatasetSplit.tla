---------------------------- MODULE DatasetSplit ----------------------------
(***************************************************************************)
(* training/dataset_contract.py without its files: which rows a training   *)
(* run accepts and how split_rows divides them.  A row is known by its     *)
(* number in the file; it has a label, a timestamp and a group.  The three *)
(* orders of split_rows are relations between rows.                        *)
(***************************************************************************)
EXTENDS Integers, FiniteSets, Sequences

CONSTANTS
    MinRows,   \* 20: fewer rows are refused
    Below      \* <<negatives, positives, k>> for which int(k * ratio), computed
               \* in double precision, is one less than the exact quotient

Seed == 42

\* target_neg of the interleaving: int(k * ratio), how many negatives precede
\* positive k.
Rounded(neg, pos, k) == (k * neg) \div pos - (IF <<neg, pos, k>> \in Below THEN 1 ELSE 0)

\* Enough rows for three splits; a product of doubles does not decrease with k.
ASSUME SplitAssumption ==
    /\ MinRows \in Nat /\ MinRows >= 5
    /\ \A b \in Below :
           /\ b \in Nat \X Nat \X Nat /\ b[2] > 0
           /\ \A k \in 0..b[3] : Rounded(b[1], b[2], k) <= Rounded(b[1], b[2], b[3])

\* Timestamps and groups are compared as text; an integer is the place of a
\* text among all of them.
Rows == [label : 0..1, time : Int, group : Int]

OfLabel(rows, l) == {i \in DOMAIN rows : rows[i].label = l}

\* read_csv_rows: enough rows, and both classes
Usable(rows) == Len(rows) >= MinRows /\ \A l \in 0..1 : OfLabel(rows, l) # {}

-----------------------------------------------------------------------------
\* sorted by timestamp is stable: equal times keep the order of the file.
Earlier(rows, i, j) ==
    \/ rows[i].time < rows[j].time
    \/ rows[i].time = rows[j].time /\ i <= j

\* The sorted groups, rotated by the seed.
GroupRank(rows, g) ==
    LET groups == {rows[i].group : i \in DOMAIN rows}
        below  == Cardinality({h \in groups : h < g})
    IN  (below - Seed) % Cardinality(groups)

GroupedBefore(rows, i, j) ==
    LET a == GroupRank(rows, rows[i].group)
        b == GroupRank(rows, rows[j].group)
    IN  a < b \/ (a = b /\ i <= j)

\* Position of a row among those of its class.  The code shuffles them first:
\* rows of one class differ in nothing the split looks at.
Nth(rows, i) == Cardinality({j \in OfLabel(rows, rows[i].label) : j < i})

\* How many negatives precede positive k.
Target(rows, k) == Rounded(Cardinality(OfLabel(rows, 0)), Cardinality(OfLabel(rows, 1)), k)

\* Mutant of StratifiedBefore: the rows as they are in the file.
FileOrder(rows, i, j) == i <= j

StratifiedBefore(rows, i, j) ==
    CASE rows[i].label = rows[j].label -> i <= j
      [] rows[i].label < rows[j].label -> Nth(rows, i) < Target(rows, Nth(rows, j))
      [] OTHER                         -> Nth(rows, j) >= Target(rows, Nth(rows, i))

\* The outer loop of the interleaving ends only when both classes are used up:
\* after the last positive, target_neg must reach the number of negatives.
Interleaves(rows) ==
    Target(rows, Cardinality(OfLabel(rows, 1))) >= Cardinality(OfLabel(rows, 0))

Before(rows, by, i, j) ==
    CASE by = "timestamp" -> Earlier(rows, i, j)
      [] by = "group"     -> GroupedBefore(rows, i, j)
      [] OTHER            -> StratifiedBefore(rows, i, j)

\* The rows in that order.
Ordered(rows, by) ==
    LET place == [i \in DOMAIN rows |-> Cardinality({j \in DOMAIN rows : Before(rows, by, j, i)})]
    IN  [k \in DOMAIN rows |-> CHOOSE i \in DOMAIN rows : place[i] = k]

TrainEnd(n) == (n * 60) \div 100
CalibrationEnd(n) == (n * 80) \div 100

\* split_rows.  With MinRows rows its check for too small a dataset never fails.
SplitRows(rows, by) ==
    LET ordered == Ordered(rows, by)
        n       == Len(ordered)
    IN  [train       |-> SubSeq(ordered, 1, TrainEnd(n)),
         calibration |-> SubSeq(ordered, TrainEnd(n) + 1, CalibrationEnd(n)),
         test        |-> SubSeq(ordered, CalibrationEnd(n) + 1, n)]
=============================================================================
