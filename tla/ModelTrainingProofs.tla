------------------------- MODULE ModelTrainingProofs -------------------------
(***************************************************************************)
(* What TLAPS proves of ModelTraining, for every list of branches, set of  *)
(* datasets, choice of libraries and number of runs: how the rows of a     *)
(* dataset are divided, what a training run learns from, when its report   *)
(* may be believed, and what a service that starts after it serves.        *)
(***************************************************************************)
EXTENDS ModelTraining, FiniteSetTheorems, SequenceTheorems, TLAPS

LEMMA FunctionIsSequence ==
    ASSUME NEW S, NEW n \in Nat, NEW f \in [1..n -> S]
    PROVE  f \in Seq(S) /\ Len(f) = n
<1>1. f \in Seq(S)
  BY SeqDef, Zenon
<1> QED
  BY <1>1, LenProperties

-----------------------------------------------------------------------------
(* The splits of a dataset, for every file of rows.  Any of the three      *)
(* orders is total; the rank of a row in a total order is its place, so    *)
(* ordering permutes the rows.                                             *)

TotalOrder(rows, by) ==
    /\ \A i, j \in DOMAIN rows : Before(rows, by, i, j) \/ Before(rows, by, j, i)
    /\ \A i, j \in DOMAIN rows : Before(rows, by, i, j) /\ Before(rows, by, j, i) => i = j
    /\ \A i, j, k \in DOMAIN rows :
           Before(rows, by, i, j) /\ Before(rows, by, j, k) => Before(rows, by, i, k)

UpTo(rows, by, i) == {j \in DOMAIN rows : Before(rows, by, j, i)}
Place(rows, by, i) == Cardinality(UpTo(rows, by, i))

LEMMA RowNumbers ==
    ASSUME NEW rows \in Seq(Rows)
    PROVE  /\ Len(rows) \in Nat /\ DOMAIN rows = 1..Len(rows)
           /\ IsFiniteSet(DOMAIN rows) /\ Cardinality(DOMAIN rows) = Len(rows)
           /\ \A i \in DOMAIN rows : rows[i] \in Rows
           /\ \A i \in DOMAIN rows : rows[i].label \in 0..1 /\ rows[i].time \in Int /\ rows[i].group \in Int
<1>1. Len(rows) \in Nat /\ DOMAIN rows = 1..Len(rows)
  BY LenProperties
<1>2. IsFiniteSet(1..Len(rows)) /\ Cardinality(1..Len(rows)) = Len(rows)
  BY <1>1, FS_Interval
<1>3. \A i \in DOMAIN rows : rows[i] \in Rows
  BY <1>1, ElementOfSeq
<1>4. \A i \in DOMAIN rows : rows[i].label \in 0..1 /\ rows[i].time \in Int /\ rows[i].group \in Int
  BY <1>3 DEF Rows
<1> QED
  BY <1>1, <1>2, <1>3, <1>4

\* A row comes before another exactly if fewer rows are up to it.
LEMMA PlaceGrows ==
    ASSUME NEW rows \in Seq(Rows), NEW by, TotalOrder(rows, by),
           NEW i \in DOMAIN rows, NEW j \in DOMAIN rows, Before(rows, by, i, j), i # j
    PROVE  Place(rows, by, i) < Place(rows, by, j)
<1>1. UpTo(rows, by, i) \subseteq UpTo(rows, by, j)
  BY DEF UpTo, TotalOrder
<1>2. j \in UpTo(rows, by, j) /\ j \notin UpTo(rows, by, i)
  BY DEF UpTo, TotalOrder
<1>3. IsFiniteSet(UpTo(rows, by, j))
  BY RowNumbers, FS_Subset DEF UpTo
<1>4. /\ Place(rows, by, i) <= Place(rows, by, j)
      /\ Place(rows, by, i) # Place(rows, by, j)
  BY <1>1, <1>2, <1>3, FS_Subset DEF Place
<1>5. Place(rows, by, i) \in Nat /\ Place(rows, by, j) \in Nat
  BY <1>1, <1>3, FS_Subset, FS_CardinalityType DEF Place
<1> QED
  BY <1>4, <1>5

LEMMA PlaceIsRank ==
    ASSUME NEW rows \in Seq(Rows), NEW by, TotalOrder(rows, by)
    PROVE  /\ \A i \in DOMAIN rows : Place(rows, by, i) \in DOMAIN rows
           /\ \A i, j \in DOMAIN rows : Place(rows, by, i) = Place(rows, by, j) => i = j
           /\ \A k \in DOMAIN rows : \E i \in DOMAIN rows : Place(rows, by, i) = k
<1>1. ASSUME NEW i \in DOMAIN rows PROVE Place(rows, by, i) \in DOMAIN rows
  <2>1. UpTo(rows, by, i) \subseteq DOMAIN rows /\ i \in UpTo(rows, by, i)
    BY DEF UpTo, TotalOrder
  <2>2. /\ IsFiniteSet(UpTo(rows, by, i))
        /\ Cardinality(UpTo(rows, by, i)) <= Len(rows)
    BY <2>1, RowNumbers, FS_Subset
  <2>3. Cardinality(UpTo(rows, by, i)) \in Nat /\ Cardinality(UpTo(rows, by, i)) # 0
    BY <2>1, <2>2, FS_CardinalityType, FS_EmptySet
  <2> QED
    BY <2>2, <2>3, RowNumbers DEF Place
<1>2. ASSUME NEW i \in DOMAIN rows, NEW j \in DOMAIN rows, Place(rows, by, i) = Place(rows, by, j)
      PROVE  i = j
  <2>1. Before(rows, by, i, j) \/ Before(rows, by, j, i)
    BY DEF TotalOrder
  <2>2. ~(Place(rows, by, i) < Place(rows, by, j)) /\ ~(Place(rows, by, j) < Place(rows, by, i))
    BY <1>1, <1>2, RowNumbers
  <2> QED
    BY <2>1, <2>2, PlaceGrows
<1> DEFINE place == [i \in DOMAIN rows |-> Place(rows, by, i)]
<1>3. place \in Injection(DOMAIN rows, DOMAIN rows)
  <2>1. place \in [DOMAIN rows -> DOMAIN rows]
    BY <1>1
  <2>2. \A i, j \in DOMAIN rows : place[i] = place[j] => i = j
    BY <1>2
  <2> HIDE DEF place
  <2> QED
    BY <2>1, <2>2 DEF Injection, IsInjective
<1>4. place \in Surjection(DOMAIN rows, DOMAIN rows)
  <2> HIDE DEF place
  <2> QED
    BY <1>3, RowNumbers, FS_Injection
<1>5. ASSUME NEW k \in DOMAIN rows PROVE \E i \in DOMAIN rows : Place(rows, by, i) = k
  BY <1>4 DEF Surjection
<1> QED
  BY <1>1, <1>2, <1>5

\* Ordering a dataset permutes its rows, each behind those that come before it.
LEMMA OrderedPermutes ==
    ASSUME NEW rows \in Seq(Rows), NEW by, TotalOrder(rows, by)
    PROVE  /\ Ordered(rows, by) \in Seq(DOMAIN rows) /\ Len(Ordered(rows, by)) = Len(rows)
           /\ \A k \in DOMAIN rows : Ordered(rows, by)[k] \in DOMAIN rows
           /\ \A k, l \in DOMAIN rows : Ordered(rows, by)[k] = Ordered(rows, by)[l] => k = l
           /\ \A i \in DOMAIN rows : \E k \in DOMAIN rows : Ordered(rows, by)[k] = i
           /\ \A k, l \in DOMAIN rows : k < l => Before(rows, by, Ordered(rows, by)[k], Ordered(rows, by)[l])
<1> DEFINE place == [i \in DOMAIN rows |-> Place(rows, by, i)]
           o == Ordered(rows, by)
<1>1. o = [k \in DOMAIN rows |-> CHOOSE i \in DOMAIN rows : place[i] = k]
  BY DEF Ordered, Place, UpTo
<1>2. ASSUME NEW k \in DOMAIN rows PROVE o[k] \in DOMAIN rows /\ Place(rows, by, o[k]) = k
  <2>1. \E i \in DOMAIN rows : place[i] = k
    BY PlaceIsRank
  <2>2. o[k] = CHOOSE i \in DOMAIN rows : place[i] = k
    BY <1>1
  <2>3. o[k] \in DOMAIN rows /\ place[o[k]] = k
    <3> HIDE DEF place, o
    <3> QED
      BY <2>1, <2>2
  <2> QED
    BY <2>3
<1> HIDE DEF o
<1>3. ASSUME NEW i \in DOMAIN rows PROVE \E k \in DOMAIN rows : o[k] = i
  <2>1. PICK k \in DOMAIN rows : Place(rows, by, i) = k
    BY PlaceIsRank
  <2>2. o[k] = i
    BY <1>2, <2>1, PlaceIsRank
  <2> QED
    BY <2>2
<1>4. ASSUME NEW k \in DOMAIN rows, NEW l \in DOMAIN rows, k < l PROVE Before(rows, by, o[k], o[l])
  <2>1. ~(Place(rows, by, o[l]) < Place(rows, by, o[k])) /\ o[k] # o[l]
    BY <1>2, <1>4, RowNumbers
  <2>2. Before(rows, by, o[k], o[l]) \/ Before(rows, by, o[l], o[k])
    BY <1>2 DEF TotalOrder
  <2> QED
    BY <1>2, <2>1, <2>2, PlaceGrows
<1>5. o \in [1..Len(rows) -> DOMAIN rows]
  <2> DEFINE row(k) == CHOOSE i \in DOMAIN rows : place[i] = k
  <2>1. o = [k \in DOMAIN rows |-> row(k)]
    BY <1>1
  <2> HIDE DEF row, place
  <2>2. \A k \in DOMAIN rows : row(k) \in DOMAIN rows
    BY <1>2, <2>1
  <2> QED
    BY <2>1, <2>2, RowNumbers
<1>6. o \in Seq(DOMAIN rows) /\ Len(o) = Len(rows)
  BY <1>5, RowNumbers, FunctionIsSequence
<1>7. \A k, l \in DOMAIN rows : o[k] = o[l] => k = l
  BY <1>2
<1> QED
  BY <1>2, <1>3, <1>4, <1>6, <1>7 DEF o

-----------------------------------------------------------------------------
(* Arithmetic of the interleaving and of the rotation.                     *)

LEMMA DivBounds ==
    ASSUME NEW a \in Nat, NEW p \in Nat, p > 0
    PROVE  a \div p \in Nat /\ p * (a \div p) <= a /\ a < p * (a \div p) + p
OBVIOUS

LEMMA DivMono ==
    ASSUME NEW a \in Nat, NEW b \in Nat, a <= b, NEW p \in Nat, p > 0
    PROVE  a \div p <= b \div p
OBVIOUS

LEMMA MulMono ==
    ASSUME NEW a \in Nat, NEW b \in Nat, a <= b, NEW p \in Nat
    PROVE  a * p \in Nat /\ b * p \in Nat /\ a * p <= b * p
OBVIOUS

\* Numbers less than p apart with the same remainder are the same.
LEMMA SameRemainder ==
    ASSUME NEW a \in Int, NEW b \in Int, NEW p \in Nat \ {0},
           a % p = b % p, a - b < p, b - a < p
    PROVE  a = b
<1>1. a \div p \in Int /\ b \div p \in Int /\ a % p \in Int
  OBVIOUS
<1>2. PICK x \in Int, y \in Int, r \in Int : x = a \div p /\ y = b \div p /\ r = a % p
  BY <1>1
<1>3. a = p * x + r /\ b = p * y + r
  BY <1>2
<1>4. a - b = p * (x - y) /\ b - a = p * (y - x)
  BY <1>3
<1>5. CASE x > y
  <2>1. p * (x - y) >= p
    BY <1>5
  <2> QED
    BY <1>4, <2>1
<1>6. CASE x < y
  <2>1. p * (y - x) >= p
    BY <1>6
  <2> QED
    BY <1>4, <2>1
<1>7. CASE x = y
  BY <1>3, <1>7
<1> QED
  BY <1>5, <1>6, <1>7

LEMMA RoundedBounds ==
    ASSUME NEW neg \in Nat, NEW pos \in Nat, pos > 0, NEW k \in Nat
    PROVE  /\ Rounded(neg, pos, k) \in Int
           /\ pos * Rounded(neg, pos, k) <= k * neg
           /\ k * neg < pos * Rounded(neg, pos, k) + 2 * pos
<1>1. PICK a \in Nat : a = k * neg
  OBVIOUS
<1>2. PICK q \in Nat : q = a \div pos
  BY DivBounds
<1>3. pos * q <= a /\ a < pos * q + pos
  BY <1>2, DivBounds
<1>4. Rounded(neg, pos, k) = q \/ Rounded(neg, pos, k) = q - 1
  BY <1>1, <1>2 DEF Rounded
<1>5. pos * (q - 1) = pos * q - pos
  OBVIOUS
<1> QED
  BY <1>1, <1>3, <1>4, <1>5

LEMMA RoundedGrows ==
    ASSUME NEW neg \in Nat, NEW pos \in Nat, pos > 0, NEW k \in Nat, NEW l \in Nat, k <= l
    PROVE  Rounded(neg, pos, k) <= Rounded(neg, pos, l)
<1>1. CASE <<neg, pos, l>> \in Below
  <2>1. k \in 0..l
    OBVIOUS
  <2> QED
    BY <1>1, <2>1, SplitAssumption
<1>2. CASE <<neg, pos, l>> \notin Below
  <2>1. (k * neg) \div pos <= (l * neg) \div pos
    BY MulMono, DivMono
  <2>2. (k * neg) \div pos \in Int /\ (l * neg) \div pos \in Int
    BY MulMono, DivBounds
  <2> QED
    BY <1>2, <2>1, <2>2 DEF Rounded
<1> QED
  BY <1>1, <1>2

-----------------------------------------------------------------------------
(* Rows of one class, by their position in it.                             *)

Lower(rows, i) == {j \in OfLabel(rows, rows[i].label) : j < i}

LEMMA Classes ==
    ASSUME NEW rows \in Seq(Rows), NEW l \in 0..1
    PROVE  /\ OfLabel(rows, l) \subseteq DOMAIN rows
           /\ IsFiniteSet(OfLabel(rows, l))
           /\ Cardinality(OfLabel(rows, l)) \in Nat
           /\ OfLabel(rows, l) # {} => Cardinality(OfLabel(rows, l)) > 0
<1>1. OfLabel(rows, l) \subseteq DOMAIN rows
  BY DEF OfLabel
<1>2. IsFiniteSet(OfLabel(rows, l))
  BY <1>1, RowNumbers, FS_Subset
<1>3. Cardinality(OfLabel(rows, l)) \in Nat
  BY <1>2, FS_CardinalityType
<1>4. OfLabel(rows, l) # {} => Cardinality(OfLabel(rows, l)) # 0
  BY <1>2, FS_EmptySet
<1> QED
  BY <1>1, <1>2, <1>3, <1>4

LEMMA NthBounds ==
    ASSUME NEW rows \in Seq(Rows), NEW i \in DOMAIN rows
    PROVE  /\ IsFiniteSet(Lower(rows, i)) /\ Nth(rows, i) = Cardinality(Lower(rows, i))
           /\ Nth(rows, i) \in Nat
           /\ Nth(rows, i) < Cardinality(OfLabel(rows, rows[i].label))
<1>1. PICK class : class = OfLabel(rows, rows[i].label)
  OBVIOUS
<1>2. IsFiniteSet(class) /\ i \in class /\ i \in Nat
  <2>1. i \in Nat /\ rows[i].label \in 0..1
    BY RowNumbers
  <2> QED
    BY <1>1, <2>1, Classes DEF OfLabel
<1>3. Lower(rows, i) \subseteq class /\ i \notin Lower(rows, i)
  BY <1>1, <1>2 DEF Lower
<1>4. /\ IsFiniteSet(Lower(rows, i)) /\ Cardinality(Lower(rows, i)) <= Cardinality(class)
      /\ Cardinality(Lower(rows, i)) # Cardinality(class)
  BY <1>2, <1>3, FS_Subset
<1>5. Cardinality(Lower(rows, i)) \in Nat /\ Cardinality(class) \in Nat
  BY <1>2, <1>4, FS_CardinalityType
<1>6. Nth(rows, i) = Cardinality(Lower(rows, i))
  BY DEF Nth, Lower
<1> QED
  BY <1>1, <1>4, <1>5, <1>6

LEMMA NthGrows ==
    ASSUME NEW rows \in Seq(Rows), NEW i \in DOMAIN rows, NEW j \in DOMAIN rows,
           rows[i].label = rows[j].label
    PROVE  i < j <=> Nth(rows, i) < Nth(rows, j)
<1>1. ASSUME NEW x \in DOMAIN rows, NEW y \in DOMAIN rows, rows[x].label = rows[y].label, x < y
      PROVE  Nth(rows, x) < Nth(rows, y)
  <2>1. x \in Nat /\ y \in Nat /\ DOMAIN rows \subseteq Nat
    BY RowNumbers
  <2>2. Lower(rows, x) \subseteq Lower(rows, y) /\ x \in Lower(rows, y) /\ x \notin Lower(rows, x)
    BY <1>1, <2>1 DEF Lower, OfLabel
  <2>3. /\ Cardinality(Lower(rows, x)) <= Cardinality(Lower(rows, y))
        /\ Cardinality(Lower(rows, x)) # Cardinality(Lower(rows, y))
    BY <2>2, NthBounds, FS_Subset
  <2> QED
    BY <2>3, NthBounds
<1>2. i \in Nat /\ j \in Nat /\ Nth(rows, i) \in Nat /\ Nth(rows, j) \in Nat
  BY RowNumbers, NthBounds
<1>3. i < j => Nth(rows, i) < Nth(rows, j)
  BY <1>1
<1>4. j < i => Nth(rows, j) < Nth(rows, i)
  BY <1>1
<1> QED
  BY <1>2, <1>3, <1>4

\* Every position in a class is taken.
LEMMA NthTaken ==
    ASSUME NEW rows \in Seq(Rows), NEW l \in 0..1, NEW v \in Nat, v < Cardinality(OfLabel(rows, l))
    PROVE  \E i \in OfLabel(rows, l) : Nth(rows, i) = v
<1>1. PICK class : class = OfLabel(rows, l)
  OBVIOUS
<1>2. PICK n \in Nat : n = Cardinality(class) /\ v < n
  BY <1>1, Classes
<1>3. PICK free : free = 0..(n - 1)
  OBVIOUS
<1>4. /\ IsFiniteSet(class) /\ class \subseteq DOMAIN rows
      /\ \A i \in class : rows[i].label = l
  BY <1>1, Classes DEF OfLabel
<1>5. IsFiniteSet(free) /\ Cardinality(free) = n
  BY <1>2, <1>3, FS_Interval
<1>6. \A i \in class : Nth(rows, i) \in free
  BY <1>1, <1>2, <1>3, <1>4, NthBounds
<1>7. \A i, j \in class : Nth(rows, i) = Nth(rows, j) => i = j
  <2> SUFFICES ASSUME NEW i \in class, NEW j \in class, Nth(rows, i) = Nth(rows, j)
               PROVE  i = j
    OBVIOUS
  <2>1. i \in Nat /\ j \in Nat /\ Nth(rows, i) \in Nat
    BY <1>4, RowNumbers, NthBounds
  <2>2. ~(i < j) /\ ~(j < i)
    BY <1>4, <2>1, NthGrows
  <2> QED
    BY <2>1, <2>2
<1> DEFINE nth == [i \in class |-> Nth(rows, i)]
<1>8. nth \in Injection(class, free)
  <2>1. nth \in [class -> free] /\ DOMAIN nth = class
    BY <1>6
  <2>2. \A i, j \in class : nth[i] = nth[j] => i = j
    BY <1>7
  <2> HIDE DEF nth
  <2> QED
    BY <2>1, <2>2 DEF Injection, IsInjective
<1>9. nth \in Surjection(class, free)
  <2> HIDE DEF nth
  <2> QED
    BY <1>2, <1>4, <1>5, <1>8, FS_Injection
<1>10. v \in free
  BY <1>2, <1>3
<1> QED
  BY <1>1, <1>9, <1>10 DEF Surjection

-----------------------------------------------------------------------------
(* Each of the three orders is total.                                      *)

LEMMA EarlierTotal ==
    ASSUME NEW rows \in Seq(Rows)
    PROVE  TotalOrder(rows, "timestamp")
<1>1. \A i \in DOMAIN rows : i \in Int /\ rows[i].time \in Int
  BY RowNumbers
<1>2. \A i, j : Before(rows, "timestamp", i, j) <=> Earlier(rows, i, j)
  BY DEF Before
<1> QED
  BY <1>1, <1>2 DEF TotalOrder, Earlier

\* The sorted groups, and how many are below one of them.
GroupsOf(rows) == {rows[i].group : i \in DOMAIN rows}
GroupsBelow(rows, g) == {h \in GroupsOf(rows) : h < g}

LEMMA GroupPlaces ==
    ASSUME NEW rows \in Seq(Rows), NEW g \in GroupsOf(rows)
    PROVE  /\ Cardinality(GroupsOf(rows)) \in Nat \ {0}
           /\ IsFiniteSet(GroupsBelow(rows, g))
           /\ Cardinality(GroupsBelow(rows, g)) \in Nat
           /\ Cardinality(GroupsBelow(rows, g)) < Cardinality(GroupsOf(rows))
           /\ GroupRank(rows, g) =
                  (Cardinality(GroupsBelow(rows, g)) - Seed) % Cardinality(GroupsOf(rows))
           /\ GroupRank(rows, g) \in Int
<1>1. IsFiniteSet(GroupsOf(rows))
  <2> DEFINE group == [i \in DOMAIN rows |-> rows[i].group]
  <2>1. group \in Surjection(DOMAIN rows, GroupsOf(rows))
    BY DEF Surjection, GroupsOf
  <2> QED
    BY <2>1, RowNumbers, FS_Surjection
<1>2. g \in Int
  BY RowNumbers DEF GroupsOf
<1>3. GroupsBelow(rows, g) \subseteq GroupsOf(rows) /\ g \notin GroupsBelow(rows, g)
  BY <1>2 DEF GroupsBelow
<1>4. /\ IsFiniteSet(GroupsBelow(rows, g))
      /\ Cardinality(GroupsBelow(rows, g)) <= Cardinality(GroupsOf(rows))
      /\ Cardinality(GroupsBelow(rows, g)) # Cardinality(GroupsOf(rows))
  BY <1>1, <1>3, FS_Subset
<1>5. Cardinality(GroupsBelow(rows, g)) \in Nat /\ Cardinality(GroupsOf(rows)) \in Nat
  BY <1>1, <1>4, FS_CardinalityType
<1>6. Cardinality(GroupsBelow(rows, g)) < Cardinality(GroupsOf(rows)) /\ Cardinality(GroupsOf(rows)) # 0
  BY <1>4, <1>5
<1>7. GroupRank(rows, g) = (Cardinality(GroupsBelow(rows, g)) - Seed) % Cardinality(GroupsOf(rows))
  BY DEF GroupRank, GroupsBelow, GroupsOf
<1>8. PICK x \in Int, c \in Nat \ {0} :
          x = Cardinality(GroupsBelow(rows, g)) - Seed /\ c = Cardinality(GroupsOf(rows))
  BY <1>5, <1>6 DEF Seed
<1>9. x % c \in Int
  OBVIOUS
<1> QED
  BY <1>4, <1>5, <1>6, <1>7, <1>8, <1>9

\* The rotation gives no two groups the same place.
LEMMA GroupRankOneToOne ==
    ASSUME NEW rows \in Seq(Rows), NEW g \in GroupsOf(rows), NEW h \in GroupsOf(rows),
           GroupRank(rows, g) = GroupRank(rows, h)
    PROVE  g = h
<1>1. PICK x \in Nat, y \in Nat, c \in Nat \ {0} :
          /\ x = Cardinality(GroupsBelow(rows, g)) /\ y = Cardinality(GroupsBelow(rows, h))
          /\ c = Cardinality(GroupsOf(rows)) /\ x < c /\ y < c
  BY GroupPlaces
<1>2. (x - Seed) % c = (y - Seed) % c
  BY <1>1, GroupPlaces
<1>3. PICK a \in Int, b \in Int : a = x - Seed /\ b = y - Seed
  BY DEF Seed
<1>4. a % c = b % c
  BY <1>2, <1>3
<1>5. a - b < c /\ b - a < c
  BY <1>1, <1>3 DEF Seed
<1>6. a = b
  BY <1>4, <1>5, SameRemainder
<1>7. x = y
  BY <1>3, <1>6 DEF Seed
<1>8. ASSUME NEW u \in GroupsOf(rows), NEW v \in GroupsOf(rows), u < v
      PROVE  Cardinality(GroupsBelow(rows, u)) # Cardinality(GroupsBelow(rows, v))
  <2>1. \A w \in GroupsOf(rows) : w \in Int
    BY RowNumbers DEF GroupsOf
  <2>2. /\ GroupsBelow(rows, u) \subseteq GroupsBelow(rows, v)
        /\ u \in GroupsBelow(rows, v) /\ u \notin GroupsBelow(rows, u)
    BY <1>8, <2>1 DEF GroupsBelow
  <2> QED
    BY <2>2, GroupPlaces, FS_Subset
<1>9. g \in Int /\ h \in Int
  BY RowNumbers DEF GroupsOf
<1>10. ~(g < h) /\ ~(h < g)
  BY <1>1, <1>7, <1>8
<1> QED
  BY <1>9, <1>10

LEMMA GroupedTotal ==
    ASSUME NEW rows \in Seq(Rows)
    PROVE  TotalOrder(rows, "group")
<1>1. PICK rank : rank = [i \in DOMAIN rows |-> GroupRank(rows, rows[i].group)]
  OBVIOUS
<1>2. \A i \in DOMAIN rows : i \in Int /\ rank[i] \in Int
  <2>1. \A i \in DOMAIN rows : i \in Int /\ rows[i].group \in GroupsOf(rows)
    BY RowNumbers DEF GroupsOf
  <2> QED
    BY <1>1, <2>1, GroupPlaces
<1>3. \A i, j \in DOMAIN rows :
          Before(rows, "group", i, j) <=> (rank[i] < rank[j] \/ (rank[i] = rank[j] /\ i <= j))
  BY <1>1 DEF Before, GroupedBefore
<1> QED
  BY <1>2, <1>3 DEF TotalOrder

\* A row of class 0 precedes one of class 1 exactly if its position is below
\* the target of the other's.
LEMMA StratifiedTotal ==
    ASSUME NEW rows \in Seq(Rows), OfLabel(rows, 1) # {}, NEW by, by \notin {"timestamp", "group"}
    PROVE  TotalOrder(rows, by)
<1>1. PICK nth, target, cls :
          /\ nth = [i \in DOMAIN rows |-> Nth(rows, i)]
          /\ target = [i \in DOMAIN rows |-> Target(rows, Nth(rows, i))]
          /\ cls = [i \in DOMAIN rows |-> rows[i].label]
  OBVIOUS
<1>2. \A i \in DOMAIN rows : i \in Int /\ cls[i] \in 0..1 /\ nth[i] \in Nat /\ target[i] \in Int
  <2> SUFFICES ASSUME NEW i \in DOMAIN rows
               PROVE  i \in Int /\ cls[i] \in 0..1 /\ nth[i] \in Nat /\ target[i] \in Int
    OBVIOUS
  <2>1. i \in Int /\ cls[i] \in 0..1 /\ nth[i] \in Nat
    BY <1>1, RowNumbers, NthBounds
  <2>2. Target(rows, nth[i]) \in Int
    <3>1. PICK neg \in Nat, pos \in Nat, a \in Nat :
              /\ neg = Cardinality(OfLabel(rows, 0)) /\ pos = Cardinality(OfLabel(rows, 1)) /\ pos > 0
              /\ a = nth[i]
      BY <2>1, Classes
    <3>2. Rounded(neg, pos, a) \in Int
      BY <3>1, RoundedBounds
    <3> QED
      BY <3>1, <3>2 DEF Target
  <2> QED
    BY <1>1, <2>1, <2>2
<1>3. \A i, j \in DOMAIN rows : cls[i] = cls[j] => (i < j <=> nth[i] < nth[j])
  BY <1>1, NthGrows
<1>4. ASSUME NEW i \in DOMAIN rows, NEW j \in DOMAIN rows, cls[i] = 1, cls[j] = 1, i <= j
      PROVE  target[i] <= target[j]
  <2>1. PICK a \in Nat, b \in Nat : a = nth[i] /\ b = nth[j]
    BY <1>2
  <2>2. a <= b
    BY <1>2, <1>3, <1>4, <2>1
  <2>3. PICK neg \in Nat, pos \in Nat :
            neg = Cardinality(OfLabel(rows, 0)) /\ pos = Cardinality(OfLabel(rows, 1)) /\ pos > 0
    BY Classes
  <2>4. Rounded(neg, pos, a) <= Rounded(neg, pos, b)
    BY <2>2, <2>3, RoundedGrows
  <2> QED
    BY <1>1, <2>1, <2>3, <2>4 DEF Target
<1>5. \A i, j \in DOMAIN rows :
          Before(rows, by, i, j) <=>
              \/ cls[i] = cls[j] /\ i <= j
              \/ cls[i] < cls[j] /\ nth[i] < target[j]
              \/ cls[j] < cls[i] /\ nth[j] >= target[i]
  <2> SUFFICES ASSUME NEW i \in DOMAIN rows, NEW j \in DOMAIN rows
               PROVE  Before(rows, by, i, j) <=>
                          \/ cls[i] = cls[j] /\ i <= j
                          \/ cls[i] < cls[j] /\ nth[i] < target[j]
                          \/ cls[j] < cls[i] /\ nth[j] >= target[i]
    OBVIOUS
  <2>1. Before(rows, by, i, j) <=> StratifiedBefore(rows, i, j)
    BY DEF Before
  <2>2. cls[i] = cls[j] \/ cls[i] < cls[j] \/ cls[j] < cls[i]
    BY <1>2
  <2>3. cls[i] \in Int /\ cls[j] \in Int
    BY <1>2
  <2> QED
    BY <1>1, <2>1, <2>2, <2>3 DEF StratifiedBefore
<1>6. \A i, j \in DOMAIN rows : Before(rows, by, i, j) \/ Before(rows, by, j, i)
  BY <1>2, <1>5
<1>7. \A i, j \in DOMAIN rows : Before(rows, by, i, j) /\ Before(rows, by, j, i) => i = j
  BY <1>2, <1>5
<1>8. ASSUME NEW i \in DOMAIN rows, NEW j \in DOMAIN rows, NEW k \in DOMAIN rows,
             Before(rows, by, i, j), Before(rows, by, j, k)
      PROVE  Before(rows, by, i, k)
  <2>1. i \in Int /\ j \in Int /\ k \in Int /\ nth[i] \in Nat /\ nth[j] \in Nat /\ nth[k] \in Nat
        /\ target[i] \in Int /\ target[j] \in Int /\ target[k] \in Int
    BY <1>2
  <2>2. cls[i] \in 0..1 /\ cls[j] \in 0..1 /\ cls[k] \in 0..1
    BY <1>2
  <2>3. CASE cls[i] = cls[j] /\ cls[j] = cls[k]
    BY <1>5, <1>8, <2>1, <2>2, <2>3
  <2>4. CASE cls[i] = 0 /\ cls[j] = 0 /\ cls[k] = 1
    <3>1. i <= j /\ nth[j] < target[k]
      BY <1>5, <1>8, <2>4
    <3>2. nth[i] <= nth[j]
      BY <1>3, <2>1, <2>4, <3>1
    <3> QED
      BY <1>5, <2>1, <2>4, <3>1, <3>2
  <2>5. CASE cls[i] = 0 /\ cls[j] = 1 /\ cls[k] = 1
    <3>1. nth[i] < target[j] /\ j <= k
      BY <1>5, <1>8, <2>5
    <3>2. target[j] <= target[k]
      BY <1>4, <2>5, <3>1
    <3> QED
      BY <1>5, <2>1, <2>5, <3>1, <3>2
  <2>6. CASE cls[i] = 0 /\ cls[j] = 1 /\ cls[k] = 0
    <3>1. nth[i] < target[j] /\ nth[k] >= target[j]
      BY <1>5, <1>8, <2>6
    <3>2. i < k
      BY <1>3, <2>1, <2>6, <3>1
    <3> QED
      BY <1>5, <2>1, <2>6, <3>2
  <2>7. CASE cls[i] = 1 /\ cls[j] = 0 /\ cls[k] = 0
    <3>1. nth[j] >= target[i] /\ j <= k
      BY <1>5, <1>8, <2>7
    <3>2. nth[j] <= nth[k]
      BY <1>3, <2>1, <2>7, <3>1
    <3> QED
      BY <1>5, <2>1, <2>7, <3>1, <3>2
  <2>8. CASE cls[i] = 1 /\ cls[j] = 1 /\ cls[k] = 0
    <3>1. i <= j /\ nth[k] >= target[j]
      BY <1>5, <1>8, <2>8
    <3>2. target[i] <= target[j]
      BY <1>4, <2>8, <3>1
    <3> QED
      BY <1>5, <2>1, <2>8, <3>1, <3>2
  <2>9. CASE cls[i] = 1 /\ cls[j] = 0 /\ cls[k] = 1
    <3>1. nth[j] >= target[i] /\ nth[j] < target[k]
      BY <1>5, <1>8, <2>9
    <3>2. CASE k < i
      <4>1. target[k] <= target[i]
        BY <1>4, <2>1, <2>9, <3>2
      <4> QED
        BY <2>1, <3>1, <4>1
    <3> QED
      BY <1>5, <2>1, <2>9, <3>2
  <2> QED
    BY <2>2, <2>3, <2>4, <2>5, <2>6, <2>7, <2>8, <2>9
<1> QED
  BY <1>6, <1>7, <1>8 DEF TotalOrder

LEMMA OrdersAreTotal ==
    ASSUME NEW rows \in Seq(Rows), OfLabel(rows, 1) # {}, NEW by
    PROVE  TotalOrder(rows, by)
<1>1. CASE by = "timestamp"
  BY <1>1, EarlierTotal
<1>2. CASE by = "group"
  BY <1>2, GroupedTotal
<1> QED
  BY <1>1, <1>2, StratifiedTotal

-----------------------------------------------------------------------------
(* Where the cuts are.                                                     *)

Parts == {"train", "calibration", "test"}
First(p, n) == CASE p = "train" -> 1 [] p = "calibration" -> TrainEnd(n) + 1 [] OTHER -> CalibrationEnd(n) + 1
End(p, n) == CASE p = "train" -> TrainEnd(n) [] p = "calibration" -> CalibrationEnd(n) [] OTHER -> n

\* Rows a to b of the ordered ones, and the first m of them.
Cut(rows, by, a, b) == {Ordered(rows, by)[k] : k \in a..b}
Prefix(rows, by, m) == Cut(rows, by, 1, m)
InPart(rows, by, p) == Cut(rows, by, First(p, Len(rows)), End(p, Len(rows)))

LEMMA Cuts ==
    ASSUME NEW n \in Nat, n >= 5
    PROVE  /\ TrainEnd(n) \in Nat /\ CalibrationEnd(n) \in Nat
           /\ 1 <= TrainEnd(n) /\ TrainEnd(n) < CalibrationEnd(n) /\ CalibrationEnd(n) < n
<1>1. PICK t \in Nat, c \in Nat : t = (n * 60) \div 100 /\ c = (n * 80) \div 100
  BY DivBounds
<1>2. 100 * t <= n * 60 /\ n * 60 < 100 * t + 100 /\ 100 * c <= n * 80 /\ n * 80 < 100 * c + 100
  BY <1>1, DivBounds
<1> QED
  BY <1>1, <1>2 DEF TrainEnd, CalibrationEnd

LEMMA PartBounds ==
    ASSUME NEW n \in Nat, n >= 5, NEW p \in Parts
    PROVE  /\ First(p, n) \in Nat /\ End(p, n) \in Nat
           /\ 1 <= First(p, n) /\ First(p, n) <= End(p, n) /\ End(p, n) <= n
BY Cuts DEF Parts, First, End

LEMMA SplitsAreCuts ==
    ASSUME NEW rows \in Seq(Rows), Len(rows) >= 5, NEW by, TotalOrder(rows, by), NEW p \in Parts
    PROVE  /\ Len(SplitRows(rows, by)[p]) = End(p, Len(rows)) - First(p, Len(rows)) + 1
           /\ {SplitRows(rows, by)[p][i] : i \in DOMAIN SplitRows(rows, by)[p]} = InPart(rows, by, p)
<1>0. PICK o : o = Ordered(rows, by)
  OBVIOUS
<1>1. PICK n \in Nat : n = Len(rows)
  BY RowNumbers
<1>2. PICK S : o \in Seq(S) /\ Len(o) = n
  BY <1>0, <1>1, OrderedPermutes
<1>3. SplitRows(rows, by)[p] = SubSeq(o, First(p, n), End(p, n))
  <2>1. SplitRows(rows, by) =
            [train       |-> SubSeq(o, 1, TrainEnd(n)),
             calibration |-> SubSeq(o, TrainEnd(n) + 1, CalibrationEnd(n)),
             test        |-> SubSeq(o, CalibrationEnd(n) + 1, n)]
    BY <1>0, <1>1, <1>2 DEF SplitRows
  <2> QED
    BY <2>1 DEF Parts, First, End
<1>4. PICK a \in Nat, b \in Nat :
          a = First(p, n) /\ b = End(p, n) /\ 1 <= a /\ a <= b /\ b <= n
  BY <1>1, PartBounds
<1>5. PICK c : c = SubSeq(o, a, b)
  OBVIOUS
<1>6. Len(c) = b - a + 1 /\ DOMAIN c = 1..(b - a + 1) /\ \A i \in 1..(b - a + 1) : c[i] = o[a + i - 1]
  <2>1. c \in Seq(S) /\ Len(c) = b - a + 1 /\ \A i \in 1..(b - a + 1) : c[i] = o[a + i - 1]
    BY <1>2, <1>4, <1>5, SubSeqProperties
  <2> QED
    BY <2>1, LenProperties
<1>7. ASSUME NEW i \in DOMAIN c PROVE c[i] \in InPart(rows, by, p)
  <2>1. i \in 1..(b - a + 1) /\ a + i - 1 \in a..b
    BY <1>6
  <2>2. c[i] = o[a + i - 1]
    BY <1>6, <2>1
  <2> QED
    BY <1>0, <1>1, <1>4, <2>1, <2>2 DEF InPart, Cut
<1>8. ASSUME NEW x \in InPart(rows, by, p) PROVE \E i \in DOMAIN c : c[i] = x
  <2>1. PICK k \in a..b : x = o[k]
    BY <1>0, <1>1, <1>4 DEF InPart, Cut
  <2>2. k - a + 1 \in 1..(b - a + 1) /\ a + (k - a + 1) - 1 = k
    OBVIOUS
  <2>3. c[k - a + 1] = o[k]
    BY <1>6, <2>2
  <2> QED
    BY <1>6, <2>1, <2>2, <2>3
<1>9. {c[i] : i \in DOMAIN c} = InPart(rows, by, p)
  BY <1>7, <1>8
<1>10. SplitRows(rows, by)[p] = c
  BY <1>3, <1>4, <1>5
<1> QED
  BY <1>1, <1>4, <1>6, <1>9, <1>10

-----------------------------------------------------------------------------
(* What holds of a split whatever the order.                               *)

LEMMA EveryRowOnce ==
    ASSUME NEW rows \in Seq(Rows), Len(rows) >= 5, NEW by, TotalOrder(rows, by)
    PROVE  /\ UNION {InPart(rows, by, p) : p \in Parts} = DOMAIN rows
           /\ \A p \in Parts : InPart(rows, by, p) # {}
           /\ Len(SplitRows(rows, by).train) + Len(SplitRows(rows, by).calibration)
                  + Len(SplitRows(rows, by).test) = Len(rows)
<1>0. PICK o : o = Ordered(rows, by)
  OBVIOUS
<1>1. PICK n \in Nat : n = Len(rows) /\ DOMAIN rows = 1..n
  BY RowNumbers
<1>2. /\ \A k \in 1..n : o[k] \in 1..n
      /\ \A i \in 1..n : \E k \in 1..n : o[k] = i
  <2>1. /\ \A k \in DOMAIN rows : Ordered(rows, by)[k] \in DOMAIN rows
        /\ \A i \in DOMAIN rows : \E k \in DOMAIN rows : Ordered(rows, by)[k] = i
    BY OrderedPermutes
  <2> QED
    BY <1>0, <1>1, <2>1
<1>3. \A p \in Parts : InPart(rows, by, p) = {o[k] : k \in First(p, n)..End(p, n)}
  BY <1>0, <1>1 DEF InPart, Cut
<1>4. \A p \in Parts : InPart(rows, by, p) \subseteq 1..n /\ InPart(rows, by, p) # {}
  <2> SUFFICES ASSUME NEW p \in Parts
               PROVE  InPart(rows, by, p) \subseteq 1..n /\ InPart(rows, by, p) # {}
    OBVIOUS
  <2>1. PICK a \in Nat, b \in Nat :
            a = First(p, n) /\ b = End(p, n) /\ 1 <= a /\ a <= b /\ b <= n
    BY <1>1, PartBounds
  <2>2. a \in a..b /\ a..b \subseteq 1..n
    BY <2>1
  <2>3. InPart(rows, by, p) = {o[k] : k \in a..b}
    BY <1>3, <2>1
  <2>4. o[a] \in InPart(rows, by, p)
    BY <2>2, <2>3
  <2>5. \A k \in a..b : o[k] \in 1..n
    BY <1>2, <2>2
  <2> QED
    BY <2>3, <2>4, <2>5
<1>5. ASSUME NEW i \in 1..n PROVE \E p \in Parts : i \in InPart(rows, by, p)
  <2>1. PICK k \in 1..n : o[k] = i
    BY <1>2
  <2>2. \E p \in Parts : k \in First(p, n)..End(p, n)
    BY <1>1, Cuts DEF Parts, First, End
  <2> QED
    BY <1>3, <2>1, <2>2
<1>6. Len(SplitRows(rows, by).train) + Len(SplitRows(rows, by).calibration)
          + Len(SplitRows(rows, by).test) = n
  <2>1. /\ Len(SplitRows(rows, by).train) = End("train", n) - First("train", n) + 1
        /\ Len(SplitRows(rows, by).calibration) = End("calibration", n) - First("calibration", n) + 1
        /\ Len(SplitRows(rows, by).test) = End("test", n) - First("test", n) + 1
    BY <1>1, SplitsAreCuts DEF Parts
  <2>2. TrainEnd(n) \in Nat /\ CalibrationEnd(n) \in Nat
    BY <1>1, Cuts
  <2> QED
    BY <2>1, <2>2 DEF First, End
<1> QED
  BY <1>1, <1>4, <1>5, <1>6

\* Parts in the order of the cuts.
Following == {<<"train", "calibration">>, <<"calibration", "test">>, <<"train", "test">>}

LEMMA PartsFollow ==
    ASSUME NEW rows \in Seq(Rows), Len(rows) >= 5, NEW by, TotalOrder(rows, by), NEW pq \in Following,
           NEW i \in InPart(rows, by, pq[1]), NEW j \in InPart(rows, by, pq[2])
    PROVE  i \in DOMAIN rows /\ j \in DOMAIN rows /\ Before(rows, by, i, j)
<1>0. PICK o : o = Ordered(rows, by)
  OBVIOUS
<1>1. PICK n \in Nat : n = Len(rows) /\ DOMAIN rows = 1..n
  BY RowNumbers
<1>2. PICK p \in Parts, q \in Parts : p = pq[1] /\ q = pq[2]
  BY DEF Parts, Following
<1>3. PICK k \in First(p, n)..End(p, n), l \in First(q, n)..End(q, n) : i = o[k] /\ j = o[l]
  BY <1>0, <1>1, <1>2 DEF InPart, Cut
<1>4. TrainEnd(n) \in Nat /\ CalibrationEnd(n) \in Nat /\ TrainEnd(n) < CalibrationEnd(n) /\ CalibrationEnd(n) < n
  BY <1>1, Cuts
<1>5. (p = "train" /\ q = "calibration") \/ (p = "calibration" /\ q = "test") \/ (p = "train" /\ q = "test")
  BY <1>2 DEF Following
<1>6. k < l /\ k \in 1..n /\ l \in 1..n
  BY <1>3, <1>4, <1>5 DEF First, End
<1> QED
  BY <1>0, <1>1, <1>3, <1>6, OrderedPermutes

\* Nothing of the past is tested with rows learnt from the future.
LEMMA TimesOrdered ==
    ASSUME NEW rows \in Seq(Rows), Len(rows) >= 5, NEW pq \in Following,
           NEW i \in InPart(rows, "timestamp", pq[1]), NEW j \in InPart(rows, "timestamp", pq[2])
    PROVE  rows[i].time <= rows[j].time
<1>1. i \in DOMAIN rows /\ j \in DOMAIN rows /\ Before(rows, "timestamp", i, j)
  BY EarlierTotal, PartsFollow
<1>2. Earlier(rows, i, j)
  BY <1>1 DEF Before
<1> QED
  BY <1>1, <1>2, RowNumbers DEF Earlier

\* A group on both sides of a cut is the only one.
LEMMA OneGroupCut ==
    ASSUME NEW rows \in Seq(Rows), Len(rows) >= 5, NEW pq \in Following
    PROVE  Cardinality({rows[i].group : i \in InPart(rows, "group", pq[1])}
                           \cap {rows[i].group : i \in InPart(rows, "group", pq[2])}) <= 1
<1>1. PICK common : common = {rows[i].group : i \in InPart(rows, "group", pq[1])}
                                \cap {rows[i].group : i \in InPart(rows, "group", pq[2])}
  OBVIOUS
<1>2. ASSUME NEW i \in InPart(rows, "group", pq[1]), NEW j \in InPart(rows, "group", pq[2])
      PROVE  GroupRank(rows, rows[i].group) <= GroupRank(rows, rows[j].group)
  <2>1. i \in DOMAIN rows /\ j \in DOMAIN rows /\ Before(rows, "group", i, j)
    BY GroupedTotal, PartsFollow
  <2>2. GroupedBefore(rows, i, j)
    BY <2>1 DEF Before
  <2>3. rows[i].group \in GroupsOf(rows) /\ rows[j].group \in GroupsOf(rows)
    BY <2>1 DEF GroupsOf
  <2>4. GroupRank(rows, rows[i].group) \in Int /\ GroupRank(rows, rows[j].group) \in Int
    BY <2>3, GroupPlaces
  <2> QED
    BY <2>2, <2>4 DEF GroupedBefore
<1>3. ASSUME NEW g \in common, NEW h \in common PROVE g = h
  <2>1. PICK i \in InPart(rows, "group", pq[1]), j \in InPart(rows, "group", pq[2]) :
            g = rows[i].group /\ h = rows[j].group
    BY <1>1
  <2>2. PICK k \in InPart(rows, "group", pq[1]), l \in InPart(rows, "group", pq[2]) :
            h = rows[k].group /\ g = rows[l].group
    BY <1>1
  <2>3. GroupRank(rows, g) <= GroupRank(rows, h) /\ GroupRank(rows, h) <= GroupRank(rows, g)
    BY <1>2, <2>1, <2>2
  <2>4. i \in DOMAIN rows /\ j \in DOMAIN rows
    BY GroupedTotal, PartsFollow
  <2>5. g \in GroupsOf(rows) /\ h \in GroupsOf(rows)
    BY <2>1, <2>4 DEF GroupsOf
  <2>6. GroupRank(rows, g) \in Int /\ GroupRank(rows, h) \in Int
    BY <2>5, GroupPlaces
  <2>7. GroupRank(rows, g) = GroupRank(rows, h)
    BY <2>3, <2>6
  <2> QED
    BY <2>5, <2>7, GroupRankOneToOne
<1>4. Cardinality(common) <= 1
  <2>1. CASE common = {}
    BY <2>1, FS_EmptySet
  <2>2. CASE common # {}
    <3>1. PICK g : g \in common
      BY <2>2
    <3>2. common = {g}
      BY <1>3, <3>1
    <3>3. Cardinality({g}) = 1
      BY FS_Singleton
    <3> QED
      BY <3>2, <3>3
  <2> QED
    BY <2>1, <2>2
<1> QED
  BY <1>1, <1>4

-----------------------------------------------------------------------------
(* The classes in a stratified split.  D(m) = n * positives among the first *)
(* m rows - m * positives.  Of the rows of a class, the first m hold the    *)
(* first ones; the last of one class in them and the first of the other     *)
(* behind them say where D(m) is.                                           *)

Having(rows, by, m, l) == Prefix(rows, by, m) \cap OfLabel(rows, l)
Held(rows, by, m, l) == Cardinality(Having(rows, by, m, l))

LEMMA PrefixRows ==
    ASSUME NEW rows \in Seq(Rows), NEW by, TotalOrder(rows, by), NEW m \in 0..Len(rows)
    PROVE  /\ Prefix(rows, by, m) \subseteq DOMAIN rows
           /\ IsFiniteSet(Prefix(rows, by, m)) /\ Cardinality(Prefix(rows, by, m)) = m
           /\ \A i \in Prefix(rows, by, m), j \in DOMAIN rows \ Prefix(rows, by, m) :
                  Before(rows, by, i, j) /\ i # j
<1>0. PICK o : o = Ordered(rows, by)
  OBVIOUS
<1>1. PICK n \in Nat : n = Len(rows) /\ DOMAIN rows = 1..n
  BY RowNumbers
<1>2. PICK S : S = Prefix(rows, by, m)
  OBVIOUS
<1>3. S = {o[k] : k \in 1..m}
  BY <1>0, <1>2 DEF Prefix, Cut
<1>4. m \in Nat /\ 1..m \subseteq DOMAIN rows
  BY <1>1
<1>5. /\ \A k \in DOMAIN rows : o[k] \in DOMAIN rows
      /\ \A k, l \in DOMAIN rows : o[k] = o[l] => k = l
      /\ \A i \in DOMAIN rows : \E k \in DOMAIN rows : o[k] = i
      /\ \A k, l \in DOMAIN rows : k < l => Before(rows, by, o[k], o[l])
  BY <1>0, OrderedPermutes
<1>6. S \subseteq DOMAIN rows
  <2>1. \A k \in 1..m : o[k] \in DOMAIN rows
    BY <1>4, <1>5
  <2> QED
    BY <1>3, <2>1
<1> DEFINE row == [k \in 1..m |-> o[k]]
<1>7. row \in Surjection(1..m, S)
  BY <1>3 DEF Surjection
<1>8. row \in Injection(1..m, S)
  <2>1. row \in [1..m -> S] /\ DOMAIN row = 1..m
    BY <1>3
  <2>2. \A k, l \in 1..m : row[k] = row[l] => k = l
    BY <1>4, <1>5
  <2> HIDE DEF row
  <2> QED
    BY <2>1, <2>2 DEF Injection, IsInjective
<1>9. IsFiniteSet(S) /\ Cardinality(S) = m
  <2> HIDE DEF row
  <2>1. IsFiniteSet(1..m) /\ Cardinality(1..m) = m
    BY <1>4, FS_Interval
  <2> QED
    BY <1>7, <1>8, <2>1, FS_Surjection
<1>10. ASSUME NEW i \in S, NEW j \in DOMAIN rows \ S PROVE Before(rows, by, i, j) /\ i # j
  <2>1. PICK k \in 1..m : i = o[k]
    BY <1>3
  <2>2. PICK l \in DOMAIN rows : j = o[l]
    BY <1>5
  <2>3. l \notin 1..m
    BY <1>3, <2>2
  <2>4. k < l /\ k \in DOMAIN rows
    BY <1>1, <1>4, <2>3
  <2> QED
    BY <1>5, <2>1, <2>2, <2>4
<1> QED
  BY <1>2, <1>6, <1>9, <1>10

LEMMA HeldTogether ==
    ASSUME NEW rows \in Seq(Rows), NEW by, TotalOrder(rows, by), NEW m \in 0..Len(rows)
    PROVE  /\ \A l \in 0..1 : /\ IsFiniteSet(Having(rows, by, m, l))
                              /\ Held(rows, by, m, l) \in Nat
                              /\ Held(rows, by, m, l) <= Cardinality(OfLabel(rows, l))
           /\ Held(rows, by, m, 0) + Held(rows, by, m, 1) = m
<1>1. ASSUME NEW l \in 0..1
      PROVE  /\ IsFiniteSet(Having(rows, by, m, l)) /\ Held(rows, by, m, l) \in Nat
             /\ Held(rows, by, m, l) <= Cardinality(OfLabel(rows, l))
  <2>1. Having(rows, by, m, l) \subseteq OfLabel(rows, l) /\ IsFiniteSet(OfLabel(rows, l))
    BY Classes DEF Having
  <2> QED
    BY <2>1, FS_Subset, FS_CardinalityType DEF Held
<1>2. PICK x, y, z : x = Having(rows, by, m, 0) /\ y = Having(rows, by, m, 1) /\ z = Prefix(rows, by, m)
  OBVIOUS
<1>3. x \cup y = z
  BY <1>2, PrefixRows, RowNumbers DEF Having, OfLabel
<1>4. x \cap y = {}
  BY <1>2 DEF Having, OfLabel
<1>5. IsFiniteSet(x) /\ IsFiniteSet(y) /\ Cardinality(x) \in Nat /\ Cardinality(y) \in Nat
  BY <1>1, <1>2 DEF Held
<1>6. Cardinality(z) = Cardinality(x) + Cardinality(y)
  <2>1. Cardinality(z) = Cardinality(x) + Cardinality(y) - Cardinality(x \cap y)
    BY <1>3, <1>5, FS_Union
  <2>2. Cardinality(x \cap y) = 0
    BY <1>4, FS_EmptySet
  <2> QED
    BY <1>5, <2>1, <2>2
<1> QED
  BY <1>1, <1>2, <1>6, PrefixRows DEF Held

\* The first rows hold the first of each class.
LEMMA HeldAreFirst ==
    ASSUME NEW rows \in Seq(Rows), OfLabel(rows, 1) # {}, NEW by, by \notin {"timestamp", "group"},
           NEW m \in 0..Len(rows), NEW l \in 0..1, NEW i \in OfLabel(rows, l)
    PROVE  i \in Prefix(rows, by, m) <=> Nth(rows, i) < Held(rows, by, m, l)
<1>1. TotalOrder(rows, by)
  BY StratifiedTotal
<1>2. PICK D, C : D = Having(rows, by, m, l) /\ C = OfLabel(rows, l)
  OBVIOUS
<1>3. /\ IsFiniteSet(D) /\ D \subseteq C /\ C \subseteq DOMAIN rows /\ DOMAIN rows \subseteq Nat
      /\ i \in C /\ \A j \in C : rows[j].label = l
  <2>1. IsFiniteSet(D) /\ C \subseteq DOMAIN rows
    BY <1>1, <1>2, HeldTogether, Classes
  <2>2. DOMAIN rows \subseteq Nat
    BY RowNumbers
  <2>3. D \subseteq C /\ i \in C /\ \A j \in C : rows[j].label = l
    BY <1>2 DEF Having, OfLabel
  <2> QED
    BY <2>1, <2>2, <2>3
<1>4. Lower(rows, i) = {j \in C : j < i}
  BY <1>2, <1>3 DEF Lower
<1>5. ASSUME NEW j \in D, NEW k \in C \ D PROVE j < k
  <2>1. j \in Prefix(rows, by, m) /\ k \in DOMAIN rows \ Prefix(rows, by, m)
    BY <1>2, <1>3, <1>5 DEF Having
  <2>2. Before(rows, by, j, k) /\ j # k
    BY <1>1, <2>1, PrefixRows
  <2>3. StratifiedBefore(rows, j, k) /\ rows[j].label = rows[k].label
    BY <1>3, <1>5, <2>2 DEF Before
  <2>4. j <= k
    BY <1>3, <1>5, <2>3 DEF StratifiedBefore
  <2> QED
    BY <1>3, <1>5, <2>2, <2>4
<1>6. /\ IsFiniteSet(Lower(rows, i)) /\ Nth(rows, i) = Cardinality(Lower(rows, i))
      /\ Nth(rows, i) \in Nat /\ Held(rows, by, m, l) = Cardinality(D) /\ Cardinality(D) \in Nat
  BY <1>1, <1>2, <1>3, NthBounds, HeldTogether DEF Held
<1>7. CASE i \in D
  <2>1. Lower(rows, i) \subseteq D
    <3> SUFFICES ASSUME NEW j \in C, j < i, j \notin D PROVE FALSE
      BY <1>4
    <3>1. i < j /\ i \in Nat /\ j \in Nat
      BY <1>3, <1>5, <1>7
    <3> QED
      BY <3>1
  <2>2. i \notin Lower(rows, i)
    BY <1>3, <1>4
  <2>3. Cardinality(Lower(rows, i)) <= Cardinality(D) /\ Cardinality(Lower(rows, i)) # Cardinality(D)
    BY <1>3, <1>7, <2>1, <2>2, FS_Subset
  <2> QED
    BY <1>2, <1>6, <1>7, <2>3 DEF Having
<1>8. CASE i \notin D
  <2>1. D \subseteq Lower(rows, i)
    BY <1>3, <1>4, <1>5, <1>8
  <2>2. Cardinality(D) <= Cardinality(Lower(rows, i))
    BY <1>6, <2>1, FS_Subset
  <2>3. i \notin Prefix(rows, by, m)
    BY <1>2, <1>3, <1>8 DEF Having
  <2> QED
    BY <1>6, <2>2, <2>3
<1> QED
  BY <1>7, <1>8

LEMMA UpperEnd ==
    ASSUME NEW a \in Nat, NEW b \in Nat, NEW c \in Nat, NEW n \in Nat, NEW p \in Nat, NEW x \in Int,
           c < x + 2 * p, x <= b, a = c + n
    PROVE  a - b <= n + 2 * p
OBVIOUS

LEMMA HeldInProportion ==
    ASSUME NEW rows \in Seq(Rows), OfLabel(rows, 1) # {}, NEW by, by \notin {"timestamp", "group"},
           NEW m \in 0..Len(rows),
           NEW neg \in Nat, neg = Cardinality(OfLabel(rows, 0)),
           NEW pos \in Nat, pos = Cardinality(OfLabel(rows, 1)),
           NEW g \in Nat, g = Held(rows, by, m, 0),
           NEW q \in Nat, q = Held(rows, by, m, 1)
    PROVE  0 <= q * neg - g * pos /\ q * neg - g * pos <= neg + 2 * pos
<1>1. TotalOrder(rows, by)
  BY StratifiedTotal
<1>2. g <= neg /\ q <= pos /\ pos > 0
  BY <1>1, HeldTogether, Classes
<1>bounds. \A k \in Nat : /\ Rounded(neg, pos, k) \in Int
                     /\ pos * Rounded(neg, pos, k) <= k * neg
                     /\ k * neg < pos * Rounded(neg, pos, k) + 2 * pos
  BY <1>2, RoundedBounds
\* A negative of the first m and a positive behind them.
<1>3. ASSUME g > 0, q < pos PROVE g <= Rounded(neg, pos, q)
  <2>1. PICK i \in OfLabel(rows, 0) : Nth(rows, i) = g - 1
    BY <1>2, <1>3, NthTaken
  <2>2. PICK j \in OfLabel(rows, 1) : Nth(rows, j) = q
    BY <1>3, NthTaken
  <2>3. i \in Prefix(rows, by, m) /\ j \notin Prefix(rows, by, m)
    BY <2>1, <2>2, HeldAreFirst
  <2>4. i \in DOMAIN rows /\ j \in DOMAIN rows /\ rows[i].label = 0 /\ rows[j].label = 1
    BY <2>1, <2>2 DEF OfLabel
  <2>5. Before(rows, by, i, j)
    BY <1>1, <2>3, <2>4, PrefixRows
  <2>6. Nth(rows, i) < Target(rows, Nth(rows, j))
    BY <2>4, <2>5 DEF Before, StratifiedBefore
  <2>7. g - 1 < Rounded(neg, pos, q)
    BY <2>1, <2>2, <2>6 DEF Target
  <2>8. Rounded(neg, pos, q) \in Int
    BY <1>bounds
  <2> QED
    BY <2>7, <2>8
\* A positive of the first m and a negative behind them.
<1>4. ASSUME q > 0, g < neg PROVE Rounded(neg, pos, q - 1) <= g
  <2>1. PICK j \in OfLabel(rows, 1) : Nth(rows, j) = q - 1
    BY <1>2, <1>4, NthTaken
  <2>2. PICK i \in OfLabel(rows, 0) : Nth(rows, i) = g
    BY <1>4, NthTaken
  <2>3. j \in Prefix(rows, by, m) /\ i \notin Prefix(rows, by, m)
    BY <1>4, <2>1, <2>2, HeldAreFirst
  <2>4. i \in DOMAIN rows /\ j \in DOMAIN rows /\ rows[i].label = 0 /\ rows[j].label = 1
    BY <2>1, <2>2 DEF OfLabel
  <2>5. Before(rows, by, j, i)
    BY <1>1, <2>3, <2>4, PrefixRows
  <2>6. Nth(rows, i) >= Target(rows, Nth(rows, j))
    BY <2>4, <2>5 DEF Before, StratifiedBefore
  <2> QED
    BY <2>1, <2>2, <2>6 DEF Target
<1>5. PICK qn \in Nat, gp \in Nat, np \in Nat : qn = q * neg /\ gp = g * pos /\ np = neg * pos
  OBVIOUS
<1>6. 0 <= qn - gp
  <2>1. CASE g = 0
    BY <1>5, <2>1
  <2>2. CASE q = pos
    <3>1. gp <= np
      BY <1>2, <1>5, MulMono
    <3>2. qn = np
      BY <1>5, <2>2
    <3> QED
      BY <3>1, <3>2
  <2>3. CASE g > 0 /\ q < pos
    <3>1. PICK r \in Int : r = Rounded(neg, pos, q) /\ g <= r
      BY <1>3, <1>bounds, <2>3
    <3>2. pos * r <= qn
      BY <1>5, <1>bounds, <3>1
    <3>3. gp <= r * pos
      <4>1. r \in Nat
        BY <3>1
      <4> QED
        BY <1>5, <3>1, <4>1, MulMono
    <3> QED
      BY <3>2, <3>3
  <2> QED
    BY <1>2, <2>1, <2>2, <2>3
<1>7. qn - gp <= neg + 2 * pos
  <2>1. CASE q = 0
    <3>1. qn = 0
      BY <1>5, <2>1
    <3> QED
      BY <3>1
  <2>2. CASE g = neg
    <3>1. qn <= np
      <4>1. q * neg <= pos * neg
        BY <1>2, MulMono
      <4>2. pos * neg = neg * pos
        OBVIOUS
      <4> QED
        BY <1>5, <4>1, <4>2
    <3>2. gp = np
      BY <1>5, <2>2
    <3> QED
      BY <1>2, <3>1, <3>2
  <2>3. CASE q > 0 /\ g < neg
    <3>k. PICK k \in Nat : k = q - 1
      BY <2>3
    <3>1. PICK kn \in Nat : k = q - 1 /\ kn = k * neg
      BY <3>k
    <3>2. PICK r \in Int : r = Rounded(neg, pos, k) /\ r <= g
      BY <1>4, <1>bounds, <2>3, <3>1
    <3>3. kn < pos * r + 2 * pos
      BY <1>bounds, <3>1, <3>2
    <3>4. pos * r <= gp
      BY <1>5, <3>2
    <3>5. q * neg = (q - 1) * neg + neg
      OBVIOUS
    <3>6. qn = kn + neg
      BY <1>5, <3>1, <3>5
    <3>7. PICK x \in Int : x = pos * r
      BY <3>2
    <3>8. kn < x + 2 * pos /\ x <= gp
      BY <3>3, <3>4, <3>7
    <3> QED
      BY <3>6, <3>8, UpperEnd
  <2> QED
    BY <1>2, <2>1, <2>2, <2>3
<1> QED
  BY <1>5, <1>6, <1>7

\* Every split has its share of the positives, off by two rows at most.
LEMMA ShareOfClasses ==
    ASSUME NEW rows \in Seq(Rows), Usable(rows), NEW by, by \notin {"timestamp", "group"}, NEW p \in Parts
    PROVE  Len(rows) * Cardinality(InPart(rows, by, p) \cap OfLabel(rows, 1))
               - Cardinality(InPart(rows, by, p)) * Cardinality(OfLabel(rows, 1))
           \in (-2 * Len(rows))..(2 * Len(rows))
<1>1. PICK n \in Nat : n = Len(rows) /\ DOMAIN rows = 1..n /\ n >= 5
  BY RowNumbers, SplitAssumption DEF Usable
<1>2. OfLabel(rows, 1) # {} /\ TotalOrder(rows, by)
  BY OrdersAreTotal DEF Usable
<1>3. PICK a \in Nat, b \in Nat : a + 1 = First(p, n) /\ b = End(p, n) /\ a < b /\ b <= n
  <2>1. PICK f \in Nat, e \in Nat : f = First(p, n) /\ e = End(p, n) /\ 1 <= f /\ f <= e /\ e <= n
    BY <1>1, PartBounds
  <2>2. f - 1 \in Nat
    BY <2>1
  <2> QED
    BY <2>1, <2>2
<1>4. a \in 0..Len(rows) /\ b \in 0..Len(rows)
  BY <1>1, <1>3
<1>5. PICK neg \in Nat, pos \in Nat :
          neg = Cardinality(OfLabel(rows, 0)) /\ pos = Cardinality(OfLabel(rows, 1))
  BY Classes
<1>6. PICK ga \in Nat, qa \in Nat : ga = Held(rows, by, a, 0) /\ qa = Held(rows, by, a, 1)
  BY <1>2, <1>4, HeldTogether
<1>7. PICK gb \in Nat, qb \in Nat : gb = Held(rows, by, b, 0) /\ qb = Held(rows, by, b, 1)
  BY <1>2, <1>4, HeldTogether
<1>8. ga + qa = a /\ gb + qb = b
  BY <1>2, <1>4, <1>6, <1>7, HeldTogether
<1>9. neg + pos = n
  <2>1. /\ OfLabel(rows, 0) \cup OfLabel(rows, 1) = DOMAIN rows
        /\ OfLabel(rows, 0) \cap OfLabel(rows, 1) = {}
    <3>1. \A i \in DOMAIN rows : rows[i].label \in 0..1
      BY RowNumbers
    <3>2. \A i \in DOMAIN rows : rows[i].label = 0 \/ rows[i].label = 1
      BY <3>1
    <3>3. OfLabel(rows, 0) \cup OfLabel(rows, 1) = DOMAIN rows
      BY <3>2, Zenon DEF OfLabel
    <3>4. OfLabel(rows, 0) \cap OfLabel(rows, 1) = {}
      BY DEF OfLabel
    <3> QED
      BY <3>3, <3>4
  <2>2. Cardinality(DOMAIN rows) = neg + pos - Cardinality(OfLabel(rows, 0) \cap OfLabel(rows, 1))
    BY <1>5, <2>1, Classes, FS_Union
  <2>3. Cardinality(OfLabel(rows, 0) \cap OfLabel(rows, 1)) = 0
    BY <2>1, FS_EmptySet
  <2>4. Cardinality(DOMAIN rows) = n
    BY <1>1, RowNumbers
  <2> QED
    BY <2>2, <2>3, <2>4
<1>10. 0 <= qa * neg - ga * pos /\ qa * neg - ga * pos <= neg + 2 * pos
  BY <1>2, <1>4, <1>5, <1>6, HeldInProportion
<1>11. 0 <= qb * neg - gb * pos /\ qb * neg - gb * pos <= neg + 2 * pos
  BY <1>2, <1>4, <1>5, <1>7, HeldInProportion
\* The part is what the first b rows have and the first a have not.
<1>12. PICK A, B, C, L : /\ A = Prefix(rows, by, a) /\ B = Prefix(rows, by, b)
                         /\ C = InPart(rows, by, p) /\ L = OfLabel(rows, 1)
  OBVIOUS
<1>13. A \cup C = B /\ A \cap C = {}
  <2>1. PICK o : o = Ordered(rows, by)
    OBVIOUS
  <2>2. A = {o[k] : k \in 1..a} /\ B = {o[k] : k \in 1..b} /\ C = {o[k] : k \in (a + 1)..b}
    BY <1>1, <1>3, <1>12, <2>1 DEF Prefix, InPart, Cut
  <2>3. \A k, l \in 1..n : o[k] = o[l] => k = l
    <3>1. \A k, l \in DOMAIN rows : Ordered(rows, by)[k] = Ordered(rows, by)[l] => k = l
      BY <1>2, OrderedPermutes
    <3> QED
      BY <1>1, <2>1, <3>1
  <2>4. \A k : k \in 1..b <=> k \in 1..a \/ k \in (a + 1)..b
    BY <1>3
  <2>5. \A k \in 1..a, l \in (a + 1)..b : k \in 1..n /\ l \in 1..n /\ k # l
    BY <1>3
  <2>6. A \cup C = B
    BY <2>2, <2>4
  <2>7. A \cap C = {}
    BY <2>2, <2>3, <2>5
  <2> QED
    BY <2>6, <2>7
<1>14. IsFiniteSet(A) /\ IsFiniteSet(B) /\ Cardinality(A) = a /\ Cardinality(B) = b
  BY <1>2, <1>4, <1>12, PrefixRows
<1>15. Cardinality(C) = b - a
  <2>1. IsFiniteSet(C)
    BY <1>13, <1>14, FS_Subset
  <2>2. Cardinality(B) = Cardinality(A) + Cardinality(C) - Cardinality(A \cap C)
    BY <1>13, <1>14, <2>1, FS_Union
  <2>3. Cardinality(A \cap C) = 0 /\ Cardinality(C) \in Nat
    BY <1>13, <2>1, FS_EmptySet, FS_CardinalityType
  <2> QED
    BY <1>14, <2>2, <2>3
<1>16. Cardinality(C \cap L) = qb - qa
  <2>1. PICK x, y, z : x = A \cap L /\ y = C \cap L /\ z = B \cap L
    OBVIOUS
  <2>2. x \cup y = z /\ x \cap y = {} /\ x \subseteq B /\ y \subseteq B
    BY <1>13, <2>1
  <2>3. IsFiniteSet(x) /\ IsFiniteSet(y)
    BY <1>14, <2>2, FS_Subset
  <2>4. Cardinality(z) = Cardinality(x) + Cardinality(y) - Cardinality(x \cap y)
    BY <2>2, <2>3, FS_Union
  <2>5. Cardinality(x \cap y) = 0 /\ Cardinality(y) \in Nat
    BY <2>2, <2>3, FS_EmptySet, FS_CardinalityType
  <2>6. Cardinality(x) = qa /\ Cardinality(z) = qb
    BY <1>6, <1>7, <1>12, <2>1 DEF Held, Having
  <2>7. Cardinality(y) = qb - qa
    BY <2>4, <2>5, <2>6
  <2> QED
    BY <2>1, <2>7
<1>17. n * (qb - qa) - (b - a) * pos = (qb * neg - gb * pos) - (qa * neg - ga * pos)
  BY <1>8, <1>9
<1>18. PICK u \in Int, v \in Int : u = qb * neg - gb * pos /\ v = qa * neg - ga * pos
  OBVIOUS
<1>19. u - v \in (-2 * n)..(2 * n)
  <2>1. 0 <= u /\ u <= neg + 2 * pos /\ 0 <= v /\ v <= neg + 2 * pos
    BY <1>10, <1>11, <1>18
  <2> QED
    BY <1>9, <2>1
<1>20. n * Cardinality(C \cap L) - Cardinality(C) * pos = u - v
  BY <1>15, <1>16, <1>17, <1>18
<1> QED
  BY <1>1, <1>5, <1>12, <1>19, <1>20

-----------------------------------------------------------------------------
(* Whatever the rows of a dataset that is accepted, the split is sound.    *)

LEMMA EverySplitSound ==
    ASSUME NEW c \in Contracts
    PROVE  SoundSplit[c]
<1> DEFINE rows == c.rows
           splits == SplitRows(rows, c.by)
           In(p) == {splits[p][i] : i \in DOMAIN splits[p]}
           Groups(p) == {rows[i].group : i \in In(p)}
           share(p) == Cardinality(In(p)) * Cardinality(OfLabel(rows, 1))
           got(p) == Len(rows) * Cardinality(In(p) \cap OfLabel(rows, 1))
           Sound == /\ UNION {In(p) : p \in Parts} = DOMAIN rows
                    /\ Len(splits.train) + Len(splits.calibration) + Len(splits.test) = Len(rows)
                    /\ \A p \in Parts : In(p) # {}
                    /\ CASE c.by = "timestamp" ->
                                \A pq \in Following : \A i \in In(pq[1]), j \in In(pq[2]) : rows[i].time <= rows[j].time
                         [] c.by = "group" ->
                                \A pq \in Following : Cardinality(Groups(pq[1]) \cap Groups(pq[2])) <= 1
                         [] OTHER ->
                                \A p \in Parts : got(p) - share(p) \in (-2 * Len(rows))..(2 * Len(rows))
<1>1. SoundSplit[c] = (Usable(rows) /\ Terminates(c) => Sound)
  BY DEF SoundSplit, Parts, Following
<1>2. SUFFICES ASSUME Usable(rows) PROVE Sound
  BY <1>1
<1>3. rows \in Seq(Rows) /\ Len(rows) >= 5 /\ OfLabel(rows, 1) # {}
  BY <1>2, ContractAssumption, SplitAssumption DEF Usable
<1>4. TotalOrder(rows, c.by)
  BY <1>3, OrdersAreTotal
<1> HIDE DEF rows
<1>5. \A p \in Parts : In(p) = InPart(rows, c.by, p)
  BY <1>3, <1>4, SplitsAreCuts
<1> HIDE DEF In
<1>6. UNION {In(p) : p \in Parts} = DOMAIN rows
  BY <1>3, <1>4, <1>5, EveryRowOnce
<1>7. Len(splits.train) + Len(splits.calibration) + Len(splits.test) = Len(rows)
  BY <1>3, <1>4, EveryRowOnce
<1>8. \A p \in Parts : In(p) # {}
  BY <1>3, <1>4, <1>5, EveryRowOnce
<1>9. \A pq \in Following : pq[1] \in Parts /\ pq[2] \in Parts
  BY DEF Following, Parts
<1>10. CASE c.by = "timestamp"
  <2>1. \A pq \in Following : \A i \in In(pq[1]), j \in In(pq[2]) : rows[i].time <= rows[j].time
    BY <1>3, <1>5, <1>9, <1>10, TimesOrdered
  <2> QED
    BY <1>6, <1>7, <1>8, <1>10, <2>1
<1>11. CASE c.by = "group"
  <2>1. \A pq \in Following : Cardinality(Groups(pq[1]) \cap Groups(pq[2])) <= 1
    BY <1>3, <1>5, <1>9, <1>11, OneGroupCut
  <2> QED
    BY <1>6, <1>7, <1>8, <1>11, <2>1
<1>12. CASE c.by \notin {"timestamp", "group"}
  <2>1. \A p \in Parts : got(p) - share(p) \in (-2 * Len(rows))..(2 * Len(rows))
    BY <1>2, <1>3, <1>5, <1>12, ShareOfClasses
  <2> QED
    BY <1>6, <1>7, <1>8, <1>12, <2>1
<1> QED
  BY <1>10, <1>11, <1>12

-----------------------------------------------------------------------------
USE TrainingAssumption

-----------------------------------------------------------------------------
(* The files of a branch.                                                  *)

LEMMA SameFiles == \A b : LabFilesOf(b) = FilesOf(b)
BY DEF LabFilesOf, FilesOf, XgboostInLab, LstmInLab, XgboostFiles, LstmFiles

LEMMA FewFiles ==
    ASSUME NEW b
    PROVE  /\ DOMAIN FilesOf(b) = 1..Len(FilesOf(b))
           /\ Len(FilesOf(b)) \in 1..2
<1>1. \E x, y : FilesOf(b) = <<x>> \/ FilesOf(b) = <<x, y>>
  <2>1. FilesOf(b) \in {XgboostFiles, LstmFiles, ForestFiles, <<"fft.json">>, <<"kitsune.json">>}
    BY DEF FilesOf, CalibratedFiles
  <2> QED
    BY <2>1 DEF XgboostFiles, LstmFiles, ForestFiles
<1>2. ASSUME NEW x, NEW y
      PROVE  /\ DOMAIN <<x>> = 1..Len(<<x>>) /\ Len(<<x>>) = 1
             /\ DOMAIN <<x, y>> = 1..Len(<<x, y>>) /\ Len(<<x, y>>) = 2
  OBVIOUS
<1> QED
  BY <1>1, <1>2

\* No file is written by two branches, or twice by one of them.
LEMMA FilesApart ==
    ASSUME NEW b \in Names, NEW c \in Names,
           NEW k \in DOMAIN FilesOf(b), NEW l \in DOMAIN FilesOf(c),
           FilesOf(b)[k] = FilesOf(c)[l]
    PROVE  b = c /\ k = l
<1>1. k \in 1..Len(FilesOf(b)) /\ l \in 1..Len(FilesOf(c))
  BY FewFiles
<1> QED
  BY <1>1 DEF Names, FilesOf, XgboostFiles, LstmFiles, ForestFiles, CalibratedFiles

\* The report and the provenance are not models.
LEMMA ModelFiles ==
    ASSUME NEW b \in Branches, NEW k \in DOMAIN FilesOf(b)
    PROVE  /\ FilesOf(b)[k] \in Files
           /\ FilesOf(b)[k] # Report /\ FilesOf(b)[k] # Provenance
<1>1. FilesOf(b)[k] \in ArtifactsOf(Branches)
  BY DEF ArtifactsOf, Installed
<1>2. k \in 1..Len(FilesOf(b))
  BY FewFiles
<1>3. FilesOf(b)[k] # Report /\ FilesOf(b)[k] # Provenance
  BY <1>2 DEF FilesOf, XgboostFiles, LstmFiles, ForestFiles, CalibratedFiles, Report, Provenance
<1> QED
  BY <1>1, <1>3 DEF Files

LEMMA NamedBranches ==
    /\ Branches \subseteq Names
    /\ \A i \in DOMAIN Trained : Trained[i] \in Branches
    /\ \A i \in DOMAIN TrainedInLab : TrainedInLab[i] \in Branches
    /\ Len(Trained) \in Nat \ {0} /\ DOMAIN Trained = 1..Len(Trained)
    /\ Len(TrainedInLab) \in Nat \ {0} /\ DOMAIN TrainedInLab = 1..Len(TrainedInLab)
BY DEF Branches

LEMMA OrderType ==
    /\ Len(Order) \in Nat \ {0} /\ DOMAIN Order = 1..Len(Order)
    /\ \A i \in DOMAIN Order : Order[i] \in Branches
BY NamedBranches DEF Order

LEMMA FileType ==
    ASSUME TypeOK, trainer.pc \in {"write", "provenance", "report"}
    PROVE  /\ File \in Files
           /\ trainer.pc = "write" => /\ Branch \in Branches /\ BranchFiles = FilesOf(Branch)
                                      /\ File = FilesOf(Branch)[trainer.file]
                                      /\ File # Provenance /\ File # Report
<1>1. BranchFiles = FilesOf(Branch)
  BY SameFiles DEF BranchFiles
<1>2. CASE trainer.pc = "write"
  <2>1. Branch \in Branches /\ trainer.file \in DOMAIN FilesOf(Branch)
    BY <1>1, <1>2, OrderType DEF TypeOK, Branch
  <2>2. File = FilesOf(Branch)[trainer.file]
    BY <1>1, <1>2 DEF File
  <2> QED
    BY <1>1, <2>1, <2>2, ModelFiles
<1>3. CASE trainer.pc \in {"provenance", "report"}
  BY <1>3 DEF File, Files
<1> QED
  BY <1>2, <1>3

-----------------------------------------------------------------------------
(* What happens to the runs: one begins, one ends, or the last one learns  *)
(* what is in its dataset.                                                 *)

LEMMA RunBegins ==
    ASSUME TypeOK, NEW kind, NEW p \in PackageSets, NEW columns \in {LabColumns} \cup {c.columns : c \in Contracts},
           kind \in {"production", "synthetic"}, Begin(kind, p, columns)
    PROVE  /\ Len(runs') = Last + 1 /\ Last \in Nat /\ Last + 1 <= MaxRuns
           /\ runs' \in Seq(Runs)
           /\ \A r \in 1..Last : runs'[r] = runs[r]
           /\ runs'[Last + 1] = [kind |-> kind, packages |-> p, columns |-> columns,
                                 learnt |-> "lab", end |-> "running"]
<1> DEFINE new == [kind |-> kind, packages |-> p, columns |-> columns,
                   learnt |-> "lab", end |-> "running"]
<1>1. new \in Runs
  BY DEF Runs
<1>2. runs \in Seq(Runs) /\ runs' = Append(runs, new) /\ Last < MaxRuns
  BY DEF TypeOK, Begin
<1> HIDE DEF new
<1>3. Len(runs') = Len(runs) + 1 /\ runs'[Len(runs) + 1] = new
      /\ \A r \in 1..Len(runs) : runs'[r] = runs[r]
  BY <1>1, <1>2
<1> QED
  BY <1>1, <1>2, <1>3 DEF new, Last

LEMMA RunEnds ==
    ASSUME TypeOK, Last > 0, NEW how \in {"running", "done", "stopped"}, Ends(how)
    PROVE  /\ Len(runs') = Last /\ Last \in Nat
           /\ runs' \in Seq(Runs)
           /\ runs'[Last].end = how
           /\ \A r \in 1..Last : /\ r # Last => runs'[r] = runs[r]
                                 /\ runs'[r].kind = runs[r].kind
                                 /\ runs'[r].packages = runs[r].packages
                                 /\ runs'[r].columns = runs[r].columns
                                 /\ runs'[r].learnt = runs[r].learnt
<1> DEFINE n == Len(runs)
<1>1. runs \in Seq(Runs) /\ n \in Nat /\ n \in 1..n /\ DOMAIN runs = 1..n
  BY DEF TypeOK, Last
<1>2. runs' = [runs EXCEPT ![n] = [runs[n] EXCEPT !.end = how]]
  BY DEF Ends, Last
<1>3. runs[n] \in Runs
  BY <1>1
<1>4. [runs[n] EXCEPT !.end = how] \in Runs
  BY <1>3 DEF Runs
<1> HIDE DEF n
<1>5. runs' \in Seq(Runs) /\ Len(runs') = n
  BY <1>1, <1>2, <1>4 DEF n
<1>6. runs'[n] = [runs[n] EXCEPT !.end = how] /\ \A r \in 1..n : r # n => runs'[r] = runs[r]
  BY <1>1, <1>2
<1>7. /\ runs'[n].end = how /\ runs'[n].kind = runs[n].kind /\ runs'[n].packages = runs[n].packages
      /\ runs'[n].columns = runs[n].columns /\ runs'[n].learnt = runs[n].learnt
  BY <1>3, <1>6 DEF Runs
<1> QED
  BY <1>1, <1>5, <1>6, <1>7 DEF n, Last
LEMMA RunLearns ==
    ASSUME TypeOK, Last > 0, data \in {"right", "wrong"}, NEW c \in Contracts, ReadAndSplit(c)
    PROVE  /\ Len(runs') = Last /\ Last \in Nat
           /\ runs' \in Seq(Runs)
           /\ runs'[Last].learnt = data
           /\ \A r \in 1..Last : /\ r # Last => runs'[r] = runs[r]
                                 /\ runs'[r].kind = runs[r].kind
                                 /\ runs'[r].packages = runs[r].packages
                                 /\ runs'[r].end = runs[r].end
<1> DEFINE n == Len(runs)
<1>1. runs \in Seq(Runs) /\ n \in Nat /\ n \in 1..n /\ DOMAIN runs = 1..n
  BY DEF TypeOK, Last
<1>2. runs[n] \in Runs
  BY <1>1
<1> DEFINE new == [[runs[n] EXCEPT !.learnt = data] EXCEPT !.columns = c.columns]
<1>3. new \in Runs /\ new.learnt = data /\ new.kind = runs[n].kind
      /\ new.packages = runs[n].packages /\ new.end = runs[n].end
  BY <1>2 DEF Runs
<1>4. runs' = [runs EXCEPT ![n] = new]
  BY <1>1 DEF ReadAndSplit, Last
<1> HIDE DEF n, new
<1>5. runs' \in Seq(Runs) /\ Len(runs') = n
  BY <1>1, <1>3, <1>4 DEF n
<1>6. runs'[n] = new /\ \A r \in 1..n : r # n => runs'[r] = runs[r]
  BY <1>1, <1>4
<1> QED
  BY <1>1, <1>3, <1>5, <1>6 DEF n, Last

-----------------------------------------------------------------------------
(* The kinds of step.                                                      *)

Gated == {"obtain", "download", "hash", "read", "looping", "train"}
Writes == {"write", "provenance", "report", "written"}

\* Where the trainer stands in its run.
PhaseInv ==
    /\ trainer.pc = "idle" => trainer = Idle
    /\ trainer.pc # "idle" => Last > 0 /\ runs[Last].end = "running"
    /\ trainer.pc \in Gated \cup {"report"} => Production
    /\ trainer.pc \in {"read", "looping", "train"} => data = "right"

Stopping ==
    \E how \in {"done", "stopped"} :
        /\ trainer.pc # "idle" /\ (how = "done" => trainer.pc = "written")
        /\ Ends(how)
        /\ UNCHANGED <<data, disk, service, adapters, manager>>

Gating ==
    /\ \/ /\ trainer.pc \in Gated
          /\ \E q \in Gated \ {"train"} : trainer' = [trainer EXCEPT !.pc = q]
          /\ trainer'.pc \in {"read", "looping", "train"} => data' = "right"
       \/ trainer.pc = "train" /\ trainer' = [Idle EXCEPT !.pc = "write"]
       \/ trainer.pc = "idle" /\ trainer' = trainer
    /\ data' \in {"absent", "partial", "right", "wrong"}
    /\ UNCHANGED <<disk, runs, service, adapters, manager>>

Passing ==
    /\ trainer.pc \in {"write", "provenance"}
    /\ \/ trainer.pc = "write" /\ (~Production \/ ~Installed(Branch, runs[Last].packages))
       \/ trainer.pc = "provenance"
    /\ trainer' = NextPart
    /\ UNCHANGED <<data, disk, runs, service, adapters, manager>>

Serving ==
    /\ disk' = disk \/ disk' = [disk EXCEPT ![Provenance] = [run |-> 0, whole |-> TRUE]]
    /\ UNCHANGED <<data, runs, trainer>>

ServiceMoves ==
    \/ \E p \in PackageSets : StartsBare(p) \/ StartsChecked(p)
    \/ LoadNames \/ LoadWeights \/ LoadWithoutNet \/ LoadManager
    \/ \E b \in Branches : Load(b)
    \/ ServiceStops \/ UNCHANGED vars

LEMMA StepKinds ==
    ASSUME TypeOK, PhaseInv, [Next]_vars
    PROVE  \/ \E p \in PackageSets : StartProduction(p) \/ StartSynthetic(p)
           \/ Stopping
           \/ Gating
           \/ \E c \in Contracts : ReadAndSplit(c) /\ data = "right"
           \/ Passing
           \/ OpenFile
           \/ CloseFile
           \/ Serving /\ ServiceMoves
<1>1. CASE ObtainRefused \/ DownloadFails \/ HashDiffers \/ WriteRaises \/ Finished \/ Crash
           \/ \E c \in Contracts : ReadRefused(c)
  <2>1. trainer.pc # "idle"
    BY <1>1 DEF ObtainRefused, DownloadFails, HashDiffers, WriteRaises, Finished, Crash,
                ReadRefused, Writing, PhaseInv
  <2>2. Ends("stopped") \/ (trainer.pc = "written" /\ Ends("done"))
    BY <1>1 DEF ObtainRefused, DownloadFails, HashDiffers, WriteRaises, Finished, Crash, ReadRefused
  <2>3. UNCHANGED <<data, disk, service, adapters, manager>>
    BY <1>1 DEF ObtainRefused, DownloadFails, HashDiffers, WriteRaises, Finished, Crash, ReadRefused
  <2> QED
    BY <2>1, <2>2, <2>3 DEF Stopping
<1>2. CASE Obtained \/ HashMatches \/ Train \/ DownloadOpens \/ DownloadEnds
           \/ \E c \in Contracts : ReadAndLoop(c)
  <2>1. trainer.pc \in Gated
    BY <1>2 DEF Obtained, HashMatches, Train, DownloadOpens, DownloadEnds, ReadAndLoop, Gated
  <2>2. \A q : [trainer EXCEPT !.pc = q].pc = q
    BY DEF TypeOK
  <2>3. CASE ~Train
    BY <1>2, <2>1, <2>2, <2>3
       DEF Obtained, HashMatches, DownloadOpens, DownloadEnds, ReadAndLoop, Gating, Gated,
           PhaseInv, TypeOK
  <2>4. CASE Train
    BY <2>4 DEF Train, Gating, TypeOK
  <2> QED
    BY <2>3, <2>4
<1>3. CASE PlaceData
  BY <1>3 DEF PlaceData, Gating, Idle
<1>4. CASE SkipBranch
  BY <1>4 DEF SkipBranch, Passing, NextPart
<1>5. CASE WriteSwallowed
  <2>1. Writing /\ Swallowed /\ trainer' = NextPart
    BY <1>5 DEF WriteSwallowed
  <2>2. trainer.pc \in {"write", "provenance", "report"}
    BY <2>1 DEF Writing
  <2>3. CASE trainer.pc = "write"
    <3>1. ~Production
      BY <2>1, <2>2, <2>3, FileType DEF Swallowed
    <3> QED
      BY <1>5, <2>3, <3>1 DEF WriteSwallowed, Passing
  <2>4. trainer.pc # "report"
    BY <2>1 DEF Swallowed, File, PhaseInv, Provenance, Report
  <2> QED
    BY <1>5, <2>2, <2>3, <2>4 DEF WriteSwallowed, Passing
<1>6. ASSUME NEW c \in Contracts, ReadAndSplit(c)
      PROVE  data = "right"
  BY <1>6 DEF ReadAndSplit, PhaseInv
<1>7. CASE ServiceMoves
  BY <1>7 DEF ServiceMoves, Serving, StartsBare, StartsChecked, ServiceStarts, LoadNames, LoadWeights,
              LoadWithoutNet, LoadManager, Load, ServiceStops, vars
<1> QED
  BY <1>1, <1>2, <1>3, <1>4, <1>5, <1>6, <1>7 DEF Next, Gates, ServiceMoves

-----------------------------------------------------------------------------
(* Types.                                                                  *)

Steps == {"idle"} \cup Gated \cup Writes

DiskOK == disk \in [Files -> [run : 0..Last, whole : BOOLEAN]]

RunsOK ==
    /\ runs \in Seq(Runs) /\ Last <= MaxRuns
    /\ \A r \in 1..Last : runs[r].end = "running" => r = Last /\ trainer # Idle

Trainers == [pc : Steps, contract : Contracts \cup {<<>>}, branch : Nat, file : Nat, open : BOOLEAN]

TrainerOK ==
    /\ trainer \in Trainers
    /\ trainer.pc = "write" => trainer.branch \in DOMAIN Order /\ trainer.file \in DOMAIN BranchFiles
    /\ trainer.open => Writing /\ (File = Provenance \/ disk[File] = [run |-> Last, whole |-> FALSE])

ServiceOK ==
    /\ service \in [pc : {"down", "load", "weights", "up"}, next : 0..(Len(Trained) + 1),
                    packages : PackageSets \cup {{}}, quiet : BOOLEAN, named : 0..Last]
    /\ adapters \in [Branches -> [backend : {"deterministic", "native", "artifact"},
                                  run : 0..Last, named : 0..Last]]
    /\ manager \in [ready : BOOLEAN, booster : 0..Last]

Typed == data \in {"absent", "partial", "right", "wrong"} /\ RunsOK /\ DiskOK /\ TrainerOK /\ ServiceOK

LEMMA TypeParts == TypeOK <=> Typed
<1>1. Steps = {"idle", "obtain", "download", "hash", "read", "looping", "train",
               "write", "provenance", "report", "written"}
  BY DEF Steps, Gated, Writes
<1> QED
  BY <1>1 DEF TypeOK, Typed, RunsOK, DiskOK, TrainerOK, Trainers, ServiceOK

LEMMA TypePrimed == Typed' => TypeOK'
BY TypeParts, PTL

\* More runs do not disturb the files or the service.
LEMMA DiskKept ==
    ASSUME DiskOK, disk' = disk, Last' \in Nat, Last \in Nat, Last <= Last'
    PROVE  DiskOK'
<1>1. \A f \in Files : disk[f] \in [run : 0..Last, whole : BOOLEAN]
  BY DEF DiskOK
<1>2. 0..Last \subseteq 0..Last'
  OBVIOUS
<1>3. \A f \in Files : disk[f] \in [run : 0..Last', whole : BOOLEAN]
  BY <1>1, <1>2
<1> QED
  BY <1>3 DEF DiskOK

LEMMA ServiceKept ==
    ASSUME ServiceOK, UNCHANGED <<service, adapters, manager>>, Last' \in Nat, Last \in Nat, Last <= Last'
    PROVE  ServiceOK'
<1>1. 0..Last \subseteq 0..Last'
  OBVIOUS
<1>2. \A b \in Branches : adapters[b] \in [backend : {"deterministic", "native", "artifact"},
                                           run : 0..Last', named : 0..Last']
  BY <1>1 DEF ServiceOK
<1>3. service \in [pc : {"down", "load", "weights", "up"}, next : 0..(Len(Trained) + 1),
                   packages : PackageSets \cup {{}}, quiet : BOOLEAN, named : 0..Last']
  BY <1>1 DEF ServiceOK
<1>4. manager \in [ready : BOOLEAN, booster : 0..Last']
  BY <1>1 DEF ServiceOK
<1> QED
  BY <1>2, <1>3, <1>4 DEF ServiceOK

\* The first file of a branch.
LEMMA FirstFile == 1 \in DOMAIN Order /\ 1 \in DOMAIN BranchFiles
<1>1. BranchFiles = FilesOf(Branch)
  BY SameFiles DEF BranchFiles
<1> QED
  BY <1>1, FewFiles, OrderType

StepInv == TypeOK /\ PhaseInv

LEMMA IdleType == Idle \in Trainers /\ [Idle EXCEPT !.pc = "write"] \in Trainers
                  /\ [Idle EXCEPT !.pc = "obtain"] \in Trainers
BY DEF Idle, Trainers, Steps, Gated, Writes

LEMMA StartStep ==
    ASSUME StepInv, NEW p \in PackageSets, StartProduction(p) \/ StartSynthetic(p)
    PROVE  StepInv'
<1> DEFINE kind == IF StartProduction(p) THEN "production" ELSE "synthetic"
<1>1. Begin(kind, p, LabColumns) /\ kind \in {"production", "synthetic"}
  BY DEF StartProduction, StartSynthetic
<1>2. TypeOK /\ trainer = Idle
  BY <1>1 DEF StepInv, Begin
<1> HIDE DEF kind
<1>3. /\ Len(runs') = Last + 1 /\ Last \in Nat /\ Last + 1 <= MaxRuns
      /\ runs' \in Seq(Runs)
      /\ \A r \in 1..Last : runs'[r] = runs[r]
      /\ runs'[Last + 1] = [kind |-> kind, packages |-> p, columns |-> LabColumns,
                            learnt |-> "lab", end |-> "running"]
  BY <1>1, <1>2, RunBegins
<1>4. \/ trainer' = [Idle EXCEPT !.pc = "obtain"] /\ kind = "production"
      \/ trainer' = [Idle EXCEPT !.pc = "write"]
  BY DEF StartProduction, StartSynthetic, kind
<1>5. trainer' \in Trainers /\ trainer'.pc \in {"obtain", "write"} /\ ~trainer'.open /\ trainer' # Idle
      /\ trainer'.branch = 1 /\ trainer'.file = 1
  BY <1>4, IdleType DEF Idle
<1>6. UNCHANGED <<data, disk, service, adapters, manager>> /\ Last' = Last + 1
  BY <1>1, <1>3 DEF Begin, Last
<1>7. RunsOK'
  <2>1. \A r \in 1..Last : runs[r].end # "running"
    BY <1>2 DEF TypeOK
  <2> QED
    BY <1>3, <1>5, <1>6, <2>1 DEF RunsOK
<1>8. DiskOK' /\ ServiceOK' /\ data' \in {"absent", "partial", "right", "wrong"}
  BY <1>2, <1>3, <1>6, TypeParts, DiskKept, ServiceKept DEF Typed
<1>9. (1 \in DOMAIN Order)' /\ (1 \in DOMAIN BranchFiles)'
  BY FirstFile, PTL
<1>10. TrainerOK'
  BY <1>5, <1>9 DEF TrainerOK
<1>11. PhaseInv'
  BY <1>3, <1>4, <1>5, <1>6 DEF PhaseInv, Gated, Production, Idle
<1> QED
  BY <1>7, <1>8, <1>10, <1>11, TypePrimed DEF Typed, StepInv

LEMMA StopStep ==
    ASSUME StepInv, Stopping
    PROVE  StepInv'
<1>1. PICK how \in {"done", "stopped"} : trainer.pc # "idle" /\ Ends(how)
      /\ UNCHANGED <<data, disk, service, adapters, manager>>
  BY DEF Stopping
<1>2. TypeOK /\ Last > 0
  BY <1>1 DEF StepInv, PhaseInv
<1>3. /\ Len(runs') = Last /\ Last \in Nat
      /\ runs' \in Seq(Runs)
      /\ runs'[Last].end = how
      /\ \A r \in 1..Last : r # Last => runs'[r] = runs[r]
  BY <1>1, <1>2, RunEnds
<1>4. Last' = Last /\ trainer' = Idle
  BY <1>1, <1>3 DEF Ends, Last
<1>5. RunsOK'
  BY <1>2, <1>3, <1>4 DEF RunsOK, TypeOK
<1>6. DiskOK' /\ ServiceOK' /\ data' \in {"absent", "partial", "right", "wrong"}
  BY <1>1, <1>2, <1>3, <1>4, TypeParts, DiskKept, ServiceKept DEF Typed
<1>7. TrainerOK'
  BY <1>4, IdleType DEF TrainerOK, Idle
<1>8. PhaseInv'
  BY <1>4 DEF PhaseInv, Idle, Gated
<1> QED
  BY <1>5, <1>6, <1>7, <1>8, TypePrimed DEF Typed, StepInv

LEMMA GateStep ==
    ASSUME StepInv, Gating
    PROVE  StepInv'
<1>1. /\ Typed /\ data' \in {"absent", "partial", "right", "wrong"}
      /\ UNCHANGED <<disk, runs, service, adapters, manager>>
  BY TypeParts DEF StepInv, Gating
<1>2. Last' = Last /\ Last \in Nat
  BY <1>1 DEF Last, Typed, RunsOK
<1>3. DiskOK' /\ ServiceOK'
  BY <1>1, <1>2, DiskKept, ServiceKept DEF Typed
<1>4. CASE trainer.pc \in Gated /\ \E q \in Gated \ {"train"} : trainer' = [trainer EXCEPT !.pc = q]
           /\ (trainer'.pc \in {"read", "looping", "train"} => data' = "right")
  <2>1. PICK q \in Gated \ {"train"} : trainer' = [trainer EXCEPT !.pc = q]
    BY <1>4
  <2>2. trainer \in Trainers /\ ~trainer.open
    BY <1>1, <1>4 DEF Typed, TrainerOK, Writing, Gated
  <2>3. trainer' \in Trainers /\ ~trainer'.open /\ trainer'.pc = q /\ q # "idle" /\ q # "write"
    BY <2>1, <2>2 DEF Trainers, Steps, Gated
  <2>4. TrainerOK' /\ trainer' # Idle
    BY <2>3 DEF TrainerOK, Idle
  <2>5. PhaseInv'
    BY <1>1, <1>2, <1>4, <2>3 DEF StepInv, PhaseInv, Gated, Production
  <2>6. RunsOK'
    BY <1>1, <1>2, <2>4 DEF Typed, RunsOK
  <2> QED
    BY <1>1, <1>3, <2>4, <2>5, <2>6, TypePrimed DEF Typed, StepInv
<1>5. CASE trainer.pc = "train" /\ trainer' = [Idle EXCEPT !.pc = "write"]
  <2>1. trainer' \in Trainers /\ ~trainer'.open /\ trainer'.pc = "write" /\ trainer' # Idle
        /\ trainer'.branch = 1 /\ trainer'.file = 1
    BY <1>5, IdleType DEF Idle
  <2>2. (1 \in DOMAIN Order)' /\ (1 \in DOMAIN BranchFiles)'
    BY FirstFile, PTL
  <2>3. TrainerOK'
    BY <2>1, <2>2 DEF TrainerOK
  <2>4. PhaseInv'
    BY <1>1, <1>2, <1>5, <2>1 DEF StepInv, PhaseInv, Gated
  <2>5. RunsOK'
    BY <1>1, <1>2, <2>1 DEF Typed, RunsOK
  <2> QED
    BY <1>1, <1>3, <2>3, <2>4, <2>5, TypePrimed DEF Typed, StepInv
<1>6. CASE trainer.pc = "idle" /\ trainer' = trainer
  <2>1. TrainerOK' /\ RunsOK'
    BY <1>1, <1>2, <1>6
       DEF Typed, TrainerOK, RunsOK, Order, Production, Branch, BranchFiles, Writing, File
  <2>2. PhaseInv'
    BY <1>1, <1>2, <1>6 DEF StepInv, PhaseInv, Gated
  <2> QED
    BY <1>1, <1>3, <2>1, <2>2, TypePrimed DEF Typed, StepInv
<1> QED
  BY <1>4, <1>5, <1>6 DEF Gating

LEMMA LearnStep ==
    ASSUME StepInv, NEW c \in Contracts, ReadAndSplit(c), data = "right"
    PROVE  StepInv'
<1>1. Typed /\ UNCHANGED <<data, disk, service, adapters, manager>> /\ trainer.pc = "read"
      /\ trainer' = [trainer EXCEPT !.pc = "train", !.contract = c]
  BY TypeParts DEF StepInv, ReadAndSplit
<1>2. TypeOK /\ Last > 0 /\ runs[Last].end = "running" /\ Production
  BY <1>1 DEF StepInv, PhaseInv, Gated
<1>3. /\ Len(runs') = Last /\ Last \in Nat
      /\ runs' \in Seq(Runs)
      /\ \A r \in 1..Last : /\ r # Last => runs'[r] = runs[r]
                            /\ runs'[r].kind = runs[r].kind
                            /\ runs'[r].end = runs[r].end
  BY <1>2, RunLearns
<1>4. Last' = Last
  BY <1>3 DEF Last
<1>5. trainer \in Trainers /\ ~trainer.open
  BY <1>1 DEF Typed, TrainerOK, Writing
<1>6. trainer' \in Trainers /\ ~trainer'.open /\ trainer'.pc = "train" /\ trainer' # Idle
  BY <1>1, <1>5 DEF Trainers, Steps, Gated, Idle
<1>7. TrainerOK'
  BY <1>6 DEF TrainerOK
<1>8. RunsOK'
  BY <1>2, <1>3, <1>4, <1>6 DEF TypeOK, RunsOK
<1>9. DiskOK' /\ ServiceOK' /\ data' \in {"absent", "partial", "right", "wrong"}
  BY <1>1, <1>3, <1>4, DiskKept, ServiceKept DEF Typed
<1>10. PhaseInv'
  BY <1>1, <1>2, <1>3, <1>4, <1>6 DEF PhaseInv, Gated, Production
<1> QED
  BY <1>7, <1>8, <1>9, <1>10, TypePrimed DEF Typed, StepInv

\* What follows a branch or a file given up is a place in the same run.
LEMMA NextPartType ==
    ASSUME StepInv, trainer.pc \in {"write", "provenance", "report"}, NEW t, t = NextPart
    PROVE  /\ t \in Trainers /\ ~t.open /\ t # Idle
           /\ t.pc \in Writes
           /\ t.pc = "write" => /\ trainer.pc = "write" /\ t.branch = trainer.branch + 1
                                /\ t.branch \in DOMAIN Order /\ t.file = 1
           /\ t.pc = "provenance" => trainer.pc = "write" /\ trainer.branch = Len(Order)
           /\ t.pc = "report" => trainer.pc = "provenance" /\ Production
           /\ t.pc = "written" => trainer.pc \in {"provenance", "report"}
<1>1. trainer \in Trainers /\ (trainer.pc = "write" => trainer.branch \in DOMAIN Order)
  BY TypeParts DEF StepInv, Typed, TrainerOK
<1>2. CASE trainer.pc = "write" /\ trainer.branch < Len(Order)
  <2>1. t = [trainer EXCEPT !.branch = trainer.branch + 1, !.file = 1, !.open = FALSE]
    BY <1>1, <1>2 DEF NextPart, NextBranch, Trainers
  <2>2. trainer.branch \in Nat /\ trainer.branch + 1 \in DOMAIN Order
    BY <1>1, <1>2, OrderType DEF Trainers
  <2>3. /\ t.pc = "write" /\ t.branch = trainer.branch + 1 /\ t.file = 1 /\ ~t.open
        /\ t \in Trainers
    <3>1. PICK m \in Nat : m = trainer.branch + 1
      BY <2>2
    <3>2. t = [trainer EXCEPT !.branch = m, !.file = 1, !.open = FALSE]
      BY <2>1, <3>1
    <3>3. t \in Trainers /\ t.pc = trainer.pc /\ t.branch = m /\ t.file = 1 /\ ~t.open
      <4>1. trainer \in Trainers
        BY <1>1
      <4>2. t = [pc |-> trainer.pc, contract |-> trainer.contract, branch |-> m, file |-> 1, open |-> FALSE]
        BY <3>2, <4>1 DEF Trainers
      <4> QED
        BY <4>1, <4>2 DEF Trainers
    <3> QED
      BY <1>2, <3>1, <3>3
  <2> QED
    BY <1>1, <1>2, <2>2, <2>3 DEF Writes, Idle
<1>3. CASE trainer.pc = "write" /\ ~(trainer.branch < Len(Order))
  <2>1. t = [trainer EXCEPT !.pc = "provenance", !.open = FALSE]
    BY <1>3 DEF NextPart, NextBranch
  <2>2. trainer.branch = Len(Order)
    BY <1>1, <1>3, OrderType
  <2>3. t.pc = "provenance" /\ ~t.open /\ t \in Trainers
    BY <1>1, <2>1 DEF Trainers, Steps, Writes
  <2> QED
    BY <1>3, <2>2, <2>3 DEF Writes, Idle
<1>4. CASE trainer.pc # "write"
  BY <1>1, <1>4 DEF NextPart, Trainers, Steps, Writes, Idle
<1> QED
  BY <1>2, <1>3, <1>4

\* A step within a run, to the place t, that leaves the service alone.
LEMMA PlaceStep ==
    ASSUME StepInv, trainer.pc \in Writes, UNCHANGED <<data, runs, service, adapters, manager>>, DiskOK',
           trainer' \in Trainers, ~trainer'.open, trainer'.pc \in Writes,
           trainer'.pc = "write" => trainer'.branch \in DOMAIN Order /\ (trainer.file \in DOMAIN BranchFiles)',
           trainer'.pc = "report" => Production
    PROVE  StepInv'
<1>1. Typed /\ PhaseInv
  BY TypeParts DEF StepInv
<1>2. Last' = Last /\ Last \in Nat /\ Order' = Order /\ Production' = Production
  BY <1>1 DEF Last, Typed, RunsOK, Order, Production
<1>3. ServiceOK' /\ data' \in {"absent", "partial", "right", "wrong"}
  BY <1>1, <1>2, ServiceKept DEF Typed
<1>4. TrainerOK' /\ trainer' # Idle
  BY <1>2 DEF TrainerOK, Idle, Writes
<1>5. RunsOK'
  BY <1>1, <1>2, <1>4 DEF Typed, RunsOK
<1>6. PhaseInv'
  BY <1>1, <1>2 DEF PhaseInv, Gated, Writes
<1> QED
  BY <1>3, <1>4, <1>5, <1>6, TypePrimed DEF Typed, StepInv

LEMMA FirstFilePrimed == (1 \in DOMAIN BranchFiles)'
BY FirstFile, PTL

LEMMA PassStep ==
    ASSUME StepInv, Passing
    PROVE  StepInv'
<1>1. Typed /\ UNCHANGED <<data, disk, runs, service, adapters, manager>> /\ trainer' = NextPart
      /\ trainer.pc \in {"write", "provenance"}
  BY TypeParts DEF StepInv, Passing
<1>2. DiskOK'
  BY <1>1 DEF Typed, DiskOK, Last
<1>3. PICK t : t = NextPart
  OBVIOUS
<1>4. /\ t \in Trainers /\ ~t.open /\ t.pc \in Writes
      /\ t.pc = "write" => t.branch \in DOMAIN Order /\ t.file = 1
      /\ t.pc = "report" => Production
  BY <1>1, <1>3, NextPartType
<1>5. trainer' = t
  BY <1>1, <1>3
<1>6. trainer.pc \in Writes
  BY <1>1 DEF Writes
<1> QED
  BY <1>1, <1>2, <1>4, <1>5, <1>6, FirstFilePrimed, PlaceStep

\* One file changes.
LEMMA DiskWritten ==
    ASSUME TypeOK, Last > 0, NEW f \in Files, NEW whole \in BOOLEAN, disk' = Written(f, whole), runs' = runs
    PROVE  /\ DiskOK'
           /\ disk'[f] = [run |-> IF f = Provenance THEN 0 ELSE Last, whole |-> whole]
           /\ \A g \in Files : g # f => disk'[g] = disk[g]
<1>1. Last \in Nat /\ Last' = Last
  BY DEF TypeOK, Last
<1>2. [run |-> IF f = Provenance THEN 0 ELSE Last, whole |-> whole] \in [run : 0..Last, whole : BOOLEAN]
  BY <1>1
<1>3. disk \in [Files -> [run : 0..Last, whole : BOOLEAN]]
  BY DEF TypeOK
<1> QED
  BY <1>1, <1>2, <1>3 DEF Written, DiskOK

LEMMA OpenStep ==
    ASSUME StepInv, OpenFile
    PROVE  StepInv'
<1>1. Typed /\ TypeOK /\ PhaseInv /\ Writing /\ ~trainer.open
  BY TypeParts DEF StepInv, OpenFile
<1>2. trainer.pc \in {"write", "provenance", "report"}
  BY <1>1 DEF Writing
<1>3. Last > 0 /\ Last \in Nat /\ Last' = Last /\ UNCHANGED <<data, runs, adapters, manager>>
  BY <1>1, <1>2 DEF PhaseInv, TypeOK, OpenFile, Last
<1>4. PICK f \in Files : f = File
  BY <1>1, <1>2, FileType
<1>5. disk' = Written(f, FALSE)
  BY <1>4 DEF OpenFile
<1>6. DiskOK' /\ disk'[f] = [run |-> IF f = Provenance THEN 0 ELSE Last, whole |-> FALSE]
  BY <1>1, <1>3, <1>5, DiskWritten
<1>7. trainer \in Trainers /\ trainer' = [trainer EXCEPT !.open = TRUE]
  BY <1>1 DEF Typed, TrainerOK, OpenFile
<1>8. /\ trainer' \in Trainers /\ trainer'.pc = trainer.pc
      /\ trainer'.branch = trainer.branch /\ trainer'.file = trainer.file
  BY <1>7 DEF Trainers
<1>9. /\ Order' = Order /\ Production' = Production /\ Branch' = Branch
      /\ BranchFiles' = BranchFiles /\ Writing' = Writing /\ File' = f
  BY <1>3, <1>4, <1>8 DEF Order, Production, Branch, BranchFiles, Writing, File
<1>10. trainer' # Idle
  BY <1>2, <1>8 DEF Idle
<1>11. TrainerOK'
  BY <1>1, <1>3, <1>6, <1>8, <1>9 DEF TrainerOK, Typed
<1>12. RunsOK'
  BY <1>1, <1>3, <1>10 DEF Typed, RunsOK
<1>13. PhaseInv'
  BY <1>1, <1>2, <1>3, <1>8, <1>9 DEF PhaseInv, Gated
<1>14. ServiceOK' /\ data' \in {"absent", "partial", "right", "wrong"}
  <2>1. service' \in [pc : {"down", "load", "weights", "up"}, next : 0..(Len(Trained) + 1),
                      packages : PackageSets \cup {{}}, quiet : BOOLEAN, named : 0..Last]
    BY <1>1 DEF Typed, ServiceOK, OpenFile, Disturbed
  <2> QED
    BY <1>1, <1>3, <2>1 DEF Typed, ServiceOK
<1> QED
  BY <1>6, <1>11, <1>12, <1>13, <1>14, TypePrimed DEF Typed, StepInv

LEMMA CloseStep ==
    ASSUME StepInv, CloseFile
    PROVE  StepInv'
<1>1. Typed /\ TypeOK /\ PhaseInv /\ Writing
  BY TypeParts DEF StepInv, CloseFile
<1>2. trainer.pc \in {"write", "provenance", "report"}
  BY <1>1 DEF Writing
<1>3. Last > 0 /\ Last \in Nat /\ Last' = Last /\ UNCHANGED <<data, runs, service, adapters, manager>>
  BY <1>1, <1>2 DEF PhaseInv, TypeOK, CloseFile, Last
<1>4. DiskOK'
  <2>1. PICK f \in Files : f = File
    BY <1>1, <1>2, FileType
  <2>2. disk' = Written(f, TRUE)
    BY <2>1 DEF CloseFile
  <2> QED
    BY <1>1, <1>3, <2>2, DiskWritten
<1>5. trainer.pc \in Writes
  BY <1>2 DEF Writes
<1>6. CASE trainer.pc = "write" /\ trainer.file < Len(BranchFiles)
  <2>1. trainer \in Trainers /\ trainer' = [trainer EXCEPT !.file = trainer.file + 1, !.open = FALSE]
        /\ trainer.branch \in DOMAIN Order /\ trainer.file \in DOMAIN BranchFiles
    BY <1>1, <1>6 DEF Typed, TrainerOK, CloseFile, Trainers
  <2>2. /\ trainer' \in Trainers /\ trainer'.pc = "write" /\ ~trainer'.open
        /\ trainer'.branch = trainer.branch /\ trainer'.file = trainer.file + 1
    <3>1. PICK m \in Nat : m = trainer.file + 1
      BY <2>1 DEF Trainers
    <3>2. PICK t : t = trainer' /\ t = [trainer EXCEPT !.file = m, !.open = FALSE]
      BY <2>1, <3>1
    <3>3. trainer.branch \in Nat
      BY <2>1 DEF Trainers
    <3>4. t \in Trainers /\ t.pc = trainer.pc /\ t.branch = trainer.branch /\ t.file = m /\ ~t.open
      BY <2>1, <3>2, <3>3 DEF Trainers
    <3> QED
      BY <1>6, <3>1, <3>2, <3>4
  <2>3. BranchFiles' = BranchFiles /\ BranchFiles = FilesOf(Branch)
    BY <1>3, <2>2, SameFiles DEF BranchFiles, Branch, Order, Production
  <2>4. trainer.file + 1 \in DOMAIN BranchFiles
    BY <1>6, <2>1, <2>3, FewFiles DEF Trainers
  <2> QED
    BY <1>3, <1>4, <1>5, <2>1, <2>2, <2>3, <2>4, PlaceStep DEF Writes
<1>7. CASE ~(trainer.pc = "write" /\ trainer.file < Len(BranchFiles))
  <2>1. PICK t : t = NextPart
    OBVIOUS
  <2>2. /\ t \in Trainers /\ ~t.open /\ t.pc \in Writes
        /\ t.pc = "write" => t.branch \in DOMAIN Order /\ t.file = 1
        /\ t.pc = "report" => Production
    BY <1>2, <2>1, NextPartType
  <2>3. trainer' = t
    BY <1>7, <2>1 DEF CloseFile
  <2> QED
    BY <1>3, <1>4, <1>5, <2>2, <2>3, FirstFilePrimed, PlaceStep
<1> QED
  BY <1>6, <1>7

\* The file that each adapter opens is one that its branch writes.
LEMMA LoadedFiles ==
    /\ "xgboost.json" \in Files /\ "xgboost.json" = FilesOf("xgboost")[1] /\ "xgboost" \in Branches
    /\ "lstm" \in Branches => /\ "lstm.pt" \in Files /\ "lstm.pt" = FilesOf("lstm")[1]
                              /\ "lstm.json" \in Files /\ "lstm.json" = FilesOf("lstm")[2]
    /\ "isolation_forest" \in Branches =>
          "isolation_forest.joblib" \in Files /\ "isolation_forest.joblib" = FilesOf("isolation_forest")[1]
    /\ "fft" \in Branches => "fft.json" \in Files /\ "fft.json" = FilesOf("fft")[1]
    /\ "kitsune" \in Branches => "kitsune.json" \in Files /\ "kitsune.json" = FilesOf("kitsune")[1]
    /\ \A b : 1 \in DOMAIN FilesOf(b)
    /\ 2 \in DOMAIN FilesOf("lstm")
<1>1. /\ "xgboost.json" = FilesOf("xgboost")[1]
      /\ "lstm.pt" = FilesOf("lstm")[1] /\ "lstm.json" = FilesOf("lstm")[2]
      /\ "isolation_forest.joblib" = FilesOf("isolation_forest")[1]
      /\ "fft.json" = FilesOf("fft")[1] /\ "kitsune.json" = FilesOf("kitsune")[1]
      /\ Len(FilesOf("lstm")) = 2
  BY DEF FilesOf, XgboostFiles, LstmFiles, ForestFiles, CalibratedFiles
<1>2. \A b : 1 \in DOMAIN FilesOf(b)
  BY FewFiles
<1>3. 2 \in DOMAIN FilesOf("lstm")
  BY <1>1, FewFiles
<1> QED
  BY <1>1, <1>2, <1>3, ModelFiles

Adapters == [backend : {"deterministic", "native", "artifact"}, run : 0..Last, named : 0..Last]

LEMMA LoadedType ==
    ASSUME TypeOK
    PROVE  /\ Fallback \in Adapters /\ Last \in Nat
           /\ \A f \in Files : FromModel(f) \in Adapters /\ FromArtifact(f) \in Adapters
           /\ XgboostLoaded \in Adapters
           /\ \A b \in Branches \ {"lstm"} : Loaded(b) \in Adapters
<1>1. Last \in Nat /\ 0 \in 0..Last
  BY DEF TypeOK, Last
<1>2. Fallback \in Adapters
  BY <1>1 DEF Fallback, Adapters
<1>3. ASSUME NEW f \in Files
      PROVE  FromModel(f) \in Adapters /\ FromArtifact(f) \in Adapters
  <2>1. disk[f].run \in 0..Last
    BY DEF TypeOK
  <2> QED
    BY <1>2, <2>1 DEF FromModel, FromArtifact, Native, Artifact, Adapters
<1>4. XgboostLoaded \in Adapters
  BY <1>2, <1>3, LoadedFiles DEF XgboostLoaded
<1>5. ASSUME NEW b \in Branches \ {"lstm"}
      PROVE  Loaded(b) \in Adapters
  <2>1. b \in {"xgboost", "fft", "kitsune", "isolation_forest"}
    BY NamedBranches DEF Names
  <2> QED
    BY <1>2, <1>3, <1>4, <2>1, LoadedFiles DEF Loaded, ForestLoaded, FftLoaded, KitsuneLoaded
<1> QED
  BY <1>1, <1>2, <1>3, <1>4, <1>5

\* Between its two files the LSTM is still to be loaded.
TurnInv ==
    /\ service.pc \in {"load", "weights"} => service.next >= 1
    /\ service.pc = "weights" => /\ service.next \in DOMAIN Trained /\ Trained[service.next] = "lstm"
                                 /\ Installed("lstm", service.packages)
    /\ service.pc = "up" => service.next = Len(Trained) + 1

\* Steps of the service do not touch the trainer.
LEMMA ServeStep ==
    ASSUME StepInv, Serving, ServiceOK'
    PROVE  StepInv'
<1>1. Typed /\ PhaseInv /\ UNCHANGED <<data, runs, trainer>>
  BY TypeParts DEF StepInv, Serving
<1>2. Last' = Last /\ Last \in Nat
  BY <1>1 DEF Last, Typed, RunsOK
<1>3. DiskOK' /\ \A f \in Files \ {Provenance} : disk'[f] = disk[f]
  <2>1. CASE disk' = disk
    BY <1>1, <1>2, <2>1 DEF Typed, DiskOK
  <2>2. CASE disk' = [disk EXCEPT ![Provenance] = [run |-> 0, whole |-> TRUE]]
    <3>1. disk \in [Files -> [run : 0..Last, whole : BOOLEAN]]
          /\ [run |-> 0, whole |-> TRUE] \in [run : 0..Last, whole : BOOLEAN]
      BY <1>1, <1>2 DEF Typed, DiskOK
    <3> QED
      BY <1>2, <2>2, <3>1 DEF DiskOK
  <2> QED
    BY <2>1, <2>2 DEF Serving
<1>4. /\ Order' = Order /\ Production' = Production /\ Branch' = Branch
      /\ BranchFiles' = BranchFiles /\ Writing' = Writing /\ File' = File
  BY <1>1 DEF Order, Production, Branch, BranchFiles, Writing, File, Last
<1>5. trainer.open => File \in Files
  BY <1>1, FileType, TypeParts DEF Typed, TrainerOK, Writing
<1>6. TrainerOK' /\ RunsOK' /\ PhaseInv'
  BY <1>1, <1>2, <1>3, <1>4, <1>5 DEF Typed, TrainerOK, RunsOK, PhaseInv, Gated
<1> QED
  BY <1>1, <1>3, <1>6, TypePrimed DEF Typed, StepInv

LEMMA ServiceStep ==
    ASSUME StepInv, TurnInv, Serving, ServiceMoves
    PROVE  StepInv'
<1>1. Typed /\ TypeOK /\ ServiceOK /\ Last' = Last /\ Last \in Nat
  BY TypeParts DEF StepInv, Serving, Last, Typed, RunsOK
<1> DEFINE Services == [pc : {"down", "load", "weights", "up"}, next : 0..(Len(Trained) + 1),
                        packages : PackageSets \cup {{}}, quiet : BOOLEAN, named : 0..Last]
           Managers == [ready : BOOLEAN, booster : 0..Last]
<1>2. service \in Services /\ adapters \in [Branches -> Adapters] /\ manager \in Managers
  BY <1>1 DEF ServiceOK, Adapters
<1>3. SUFFICES service' \in Services /\ adapters' \in [Branches -> Adapters] /\ manager' \in Managers
  BY <1>1, ServeStep DEF ServiceOK, Adapters
<1>4. Len(Trained) \in Nat \ {0} /\ DOMAIN Trained = 1..Len(Trained)
  BY NamedBranches
<1>5. Advanced \in Services \/ ~(service.next \in DOMAIN Trained)
  <2>1. CASE service.next \in DOMAIN Trained
    <3>1. PICK m \in 0..(Len(Trained) + 1) : m = service.next + 1
      BY <1>4, <2>1
    <3>2. Advanced = [service EXCEPT !.pc = "load", !.next = m, !.named = 0]
      BY <1>2, <3>1 DEF Advanced
    <3>3. Advanced = [pc |-> "load", next |-> m, packages |-> service.packages,
                      quiet |-> service.quiet, named |-> 0]
      BY <1>2, <3>2
    <3>4. 0 \in 0..Last
      BY <1>1
    <3> QED
      BY <1>2, <3>3, <3>4
  <2> QED
    BY <2>1
<1>6. CASE \E p \in PackageSets : StartsBare(p) \/ StartsChecked(p)
  <2>1. PICK p \in PackageSets : ServiceStarts(p)
    BY <1>6 DEF StartsBare, StartsChecked
  <2>2. PICK q \in BOOLEAN : q = ~Active
    BY DEF Active
  <2>3. service' = [pc |-> "load", next |-> 1, packages |-> p, quiet |-> q, named |-> 0]
    BY <2>1, <2>2 DEF ServiceStarts, Down
  <2>4. 0 \in 0..Last /\ 1 \in 0..(Len(Trained) + 1)
    BY <1>1, <1>4
  <2>5. service' \in Services
    BY <2>3, <2>4
  <2> QED
    BY <1>2, <2>1, <2>5 DEF ServiceStarts
<1>7. CASE LoadNames
  <2>1. PICK n \in 0..Last : n = IF disk["lstm.json"].whole THEN disk["lstm.json"].run ELSE 0
    <3>1. "lstm" \in Branches
      BY <1>7 DEF LoadNames, Turn, Branches
    <3> QED
      BY <1>1, <3>1, LoadedFiles DEF TypeOK
  <2>2. service' = [service EXCEPT !.pc = "weights", !.named = n]
    BY <1>7, <2>1 DEF LoadNames
  <2>3. service' \in Services
    BY <1>2, <2>2
  <2> QED
    BY <1>2, <1>7, <2>3 DEF LoadNames
<1>8. CASE LoadWeights
  <2>1. service.next \in DOMAIN Trained /\ "lstm" \in Branches
    BY <1>8 DEF LoadWeights, TurnInv, Branches
  <2>2. PICK a \in Adapters : adapters' = [adapters EXCEPT !["lstm"] = a]
    <3>1. Native(disk["lstm.pt"].run, service.named) \in Adapters
      <4>1. disk["lstm.pt"].run \in 0..Last /\ service.named \in 0..Last
        BY <1>1, <1>2, <2>1, LoadedFiles DEF TypeOK
      <4> QED
        BY <4>1 DEF Native, Adapters
    <3> QED
      BY <1>1, <1>8, <2>1, <3>1, LoadedFiles, LoadedType DEF LoadWeights
  <2> QED
    BY <1>2, <1>5, <1>8, <2>1, <2>2 DEF LoadWeights
<1>9. CASE LoadWithoutNet
  <2>1. service.next \in DOMAIN Trained /\ "lstm" \in Branches
    BY <1>9 DEF LoadWithoutNet, Turn, Branches
  <2>2. FromArtifact("lstm.json") \in Adapters
    BY <1>1, <2>1, LoadedFiles, LoadedType
  <2> QED
    BY <1>2, <1>5, <1>9, <2>1, <2>2 DEF LoadWithoutNet
<1>10. CASE LoadManager
  <2>1. XgboostLoaded.run \in 0..Last /\ 0 \in 0..Last /\ disk[Provenance].whole \in BOOLEAN
    <3>1. disk \in [Files -> [run : 0..Last, whole : BOOLEAN]] /\ Provenance \in Files
      BY <1>1 DEF TypeOK, Files
    <3> QED
      BY <1>1, <3>1, LoadedType DEF Adapters
  <2>2. manager' \in Managers
    BY <1>10, <2>1 DEF LoadManager
  <2>3. service' \in Services
    BY <1>2, <1>10 DEF LoadManager
  <2> QED
    BY <1>2, <1>10, <2>2, <2>3 DEF LoadManager
<1>11. CASE \E b \in Branches : Load(b)
  <2>1. PICK b \in Branches : Load(b)
    BY <1>11
  <2>2. Loaded(b) \in Adapters /\ service.next \in DOMAIN Trained
    BY <1>1, <2>1, LoadedType DEF Load, Turn
  <2> QED
    BY <1>2, <1>5, <2>1, <2>2 DEF Load
<1>12. CASE ServiceStops
  <2>1. 0 \in 0..Last
    BY <1>1
  <2>2. service' \in Services /\ manager' \in Managers
    BY <1>12, <2>1 DEF ServiceStops, Down, NoManager
  <2>3. adapters' \in [Branches -> Adapters]
    BY <1>1, <1>12, LoadedType DEF ServiceStops
  <2> QED
    BY <2>2, <2>3
<1>13. CASE UNCHANGED vars
  BY <1>2, <1>13 DEF vars
<1> QED
  BY <1>6, <1>7, <1>8, <1>9, <1>10, <1>11, <1>12, <1>13 DEF ServiceMoves

LEMMA TurnStep ==
    ASSUME StepInv, TurnInv, [Next]_vars
    PROVE  TurnInv'
<1>1. TypeOK /\ PhaseInv /\ Len(Trained) \in Nat \ {0} /\ DOMAIN Trained = 1..Len(Trained)
  BY NamedBranches DEF StepInv
<1>2. service \in [pc : {"down", "load", "weights", "up"}, next : 0..(Len(Trained) + 1),
                   packages : PackageSets \cup {{}}, quiet : BOOLEAN, named : 0..Last]
  BY <1>1 DEF TypeOK
<1>3. CASE service' = service
  BY <1>3 DEF TurnInv
<1>4. CASE OpenFile
  <2>1. service' = [service EXCEPT !.quiet = service.pc = "down"]
    BY <1>4 DEF OpenFile, Disturbed
  <2>2. service'.pc = service.pc /\ service'.next = service.next /\ service'.packages = service.packages
    BY <1>2, <2>1
  <2> QED
    BY <2>2 DEF TurnInv
<1>5. CASE ServiceMoves
  <2>1. service.next \in DOMAIN Trained /\ service' = Advanced => TurnInv'
    <3> SUFFICES ASSUME service.next \in DOMAIN Trained, service' = Advanced PROVE TurnInv'
      OBVIOUS
    <3>1. service' = [service EXCEPT !.pc = "load", !.next = service.next + 1, !.named = 0]
      BY <1>2 DEF Advanced
    <3>2. service'.pc = "load" /\ service'.next = service.next + 1
      BY <1>2, <3>1
    <3> QED
      BY <1>1, <3>2 DEF TurnInv
  <2>2. CASE \E p \in PackageSets : StartsBare(p) \/ StartsChecked(p)
    <3>1. service'.pc = "load" /\ service'.next = 1
      BY <2>2 DEF StartsBare, StartsChecked, ServiceStarts, Down
    <3> QED
      BY <3>1 DEF TurnInv
  <2>3. CASE LoadNames
    <3>1. PICK n : service' = [service EXCEPT !.pc = "weights", !.named = n]
      BY <2>3 DEF LoadNames
    <3>2. service'.pc = "weights" /\ service'.next = service.next /\ service'.packages = service.packages
      BY <1>2, <3>1
    <3> QED
      BY <1>1, <2>3, <3>2 DEF TurnInv, LoadNames, Turn
  <2>4. CASE LoadWeights \/ LoadWithoutNet \/ \E b \in Branches : Load(b)
    BY <2>1, <2>4 DEF LoadWeights, LoadWithoutNet, Load, Turn, TurnInv
  <2>5. CASE LoadManager
    <3>1. service'.pc = "up" /\ service'.next = service.next /\ service.next = Len(Trained) + 1
      BY <1>2, <2>5 DEF LoadManager
    <3> QED
      BY <3>1 DEF TurnInv
  <2>6. CASE ServiceStops
    BY <2>6 DEF ServiceStops, Down, TurnInv
  <2>7. CASE UNCHANGED vars
    BY <1>3, <2>7 DEF vars
  <2> QED
    BY <1>5, <2>2, <2>3, <2>4, <2>5, <2>6, <2>7 DEF ServiceMoves
<1> QED
  BY <1>1, <1>3, <1>4, <1>5, StepKinds
     DEF Stopping, Gating, Passing, CloseFile, ReadAndSplit, StartProduction, StartSynthetic, Begin

LEMMA StepInvHolds == Spec => [](StepInv /\ TurnInv)
<1>1. Init => StepInv /\ TurnInv
  <2> SUFFICES ASSUME Init PROVE StepInv /\ TurnInv
    OBVIOUS
  <2>1. runs = <<>> /\ Last = 0 /\ trainer = Idle /\ service = Down /\ data = "absent"
    BY DEF Init, Last
  <2>2. RunsOK /\ TrainerOK /\ PhaseInv
    BY <2>1, IdleType DEF RunsOK, TrainerOK, PhaseInv, Idle, Gated
  <2>3. DiskOK
    BY <2>1 DEF Init, DiskOK, Absent
  <2>4. service \in [pc : {"down", "load", "weights", "up"}, next : 0..(Len(Trained) + 1),
                     packages : PackageSets \cup {{}}, quiet : BOOLEAN, named : 0..Last]
    BY <2>1, NamedBranches DEF Down
  <2>5. ServiceOK
    BY <2>1, <2>4 DEF Init, ServiceOK, Fallback, NoManager
  <2> QED
    BY <2>1, <2>2, <2>3, <2>5, TypeParts DEF Typed, StepInv, TurnInv, Down
<1>2. StepInv /\ TurnInv /\ [Next]_vars => StepInv' /\ TurnInv'
  <2> SUFFICES ASSUME StepInv, TurnInv, [Next]_vars PROVE StepInv' /\ TurnInv'
    OBVIOUS
  <2>1. StepInv'
    BY StepKinds, StartStep, StopStep, GateStep, LearnStep, PassStep, OpenStep, CloseStep,
       ServiceStep DEF StepInv
  <2> QED
    BY <2>1, TurnStep
<1> QED
  BY <1>1, <1>2, PTL DEF Spec

\* Every variable keeps its type, and an open file is the one that the trainer
\* writes, cut short until it is closed.
THEOREM TypeCorrect == Spec => []TypeOK
<1>1. StepInv => TypeOK
  BY DEF StepInv
<1> QED
  BY <1>1, StepInvHolds, PTL

\* A run that trains has read a dataset.
DatasetInv == trainer.pc = "train" => /\ trainer.contract \in Contracts
                                      /\ Usable(trainer.contract.rows) /\ Terminates(trainer.contract)

LEMMA DatasetStep ==
    ASSUME StepInv, DatasetInv, [Next]_vars
    PROVE  DatasetInv'
<1>1. TypeOK /\ PhaseInv
  BY DEF StepInv
<1>2. PICK t \in Trainers : t = trainer
  BY <1>1, TypeParts DEF Typed, TrainerOK
<1>3. trainer' = trainer => DatasetInv'
  BY DEF DatasetInv, Usable, Terminates
<1>4. trainer'.pc # "train" => DatasetInv'
  BY DEF DatasetInv
<1>5. CASE \E p \in PackageSets : StartProduction(p) \/ StartSynthetic(p)
  BY <1>4, <1>5 DEF StartProduction, StartSynthetic, Idle
<1>6. CASE Stopping
  BY <1>4, <1>6 DEF Stopping, Ends, Idle
<1>7. CASE Gating
  <2>1. \A q \in Gated \ {"train"} : [t EXCEPT !.pc = q].pc # "train"
    BY DEF Trainers
  <2> QED
    BY <1>2, <1>3, <1>4, <1>7, <2>1 DEF Gating, Idle
<1>8. CASE \E c \in Contracts : ReadAndSplit(c) /\ data = "right"
  <2>1. PICK c \in Contracts : ReadAndSplit(c)
    BY <1>8
  <2>2. trainer'.contract = c
    BY <1>2, <2>1 DEF ReadAndSplit, Trainers
  <2> QED
    BY <2>1, <2>2 DEF DatasetInv, ReadAndSplit
<1>9. CASE Passing
  <2>1. trainer'.pc \in Writes
    BY <1>1, <1>9, NextPartType DEF Passing
  <2> QED
    BY <1>4, <2>1 DEF Writes
<1>10. CASE OpenFile
  <2>1. trainer' = [t EXCEPT !.open = TRUE] /\ t.pc \in {"write", "provenance", "report"}
    BY <1>2, <1>10 DEF OpenFile, Writing
  <2> QED
    BY <1>4, <2>1 DEF Trainers
<1>11. CASE CloseFile
  <2>1. t.pc \in {"write", "provenance", "report"}
    BY <1>2, <1>11 DEF CloseFile, Writing
  <2>2. trainer' = NextPart \/ trainer' = [t EXCEPT !.file = @ + 1, !.open = FALSE]
    BY <1>2, <1>11 DEF CloseFile
  <2>3. CASE trainer' = NextPart
    BY <1>1, <1>2, <1>4, <2>1, <2>3, NextPartType DEF Writes
  <2>4. CASE trainer' = [t EXCEPT !.file = @ + 1, !.open = FALSE]
    BY <1>4, <2>1, <2>4 DEF Trainers
  <2> QED
    BY <2>2, <2>3, <2>4
<1>12. CASE Serving
  BY <1>3, <1>12 DEF Serving
<1> QED
  BY <1>1, <1>5, <1>6, <1>7, <1>8, <1>9, <1>10, <1>11, <1>12, StepKinds

\* Of whatever dataset a run trains on, every row is in exactly one of three
\* splits; a temporal split tests nothing of the past with rows learnt from the
\* future, a cut goes through at most one group, and a stratified split leaves
\* no part without its share of both classes.
THEOREM DatasetDivided == Spec => []SplitSound
<1>1. Init => DatasetInv
  BY DEF Init, DatasetInv, Idle
<1>2. DatasetInv => SplitSound
  BY EverySplitSound DEF DatasetInv, SplitSound
<1>3. StepInv /\ DatasetInv /\ [Next]_vars => DatasetInv'
  BY DatasetStep
<1> QED
  BY <1>1, <1>2, <1>3, StepInvHolds, PTL DEF Spec

-----------------------------------------------------------------------------
(* What a run learns from.                                                 *)

\* A file is of a run, and the run in progress has written none before it trained.
DiskInv ==
    /\ \A f \in Files : disk[f].whole /\ f # Provenance => disk[f].run > 0
    /\ trainer.pc \in Gated => \A f \in Files : disk[f].run < Last

DataInv ==
    /\ trainer.pc \in {"train"} \cup Writes /\ Production => runs[Last].learnt = "right"
    /\ \A f \in Files : disk[f].run > 0 /\ runs[disk[f].run].kind = "production"
                        => runs[disk[f].run].learnt = "right"

\* A write touches the file at hand only, and is of the run in progress.
LEMMA WriteEffect ==
    ASSUME StepInv, OpenFile \/ CloseFile
    PROVE  /\ Last > 0 /\ Last \in Nat /\ UNCHANGED <<data, runs>> /\ Last' = Last
           /\ Writing /\ trainer.pc \in {"write", "provenance", "report"}
           /\ \E f \in Files, whole \in BOOLEAN :
                 /\ f = File /\ (whole <=> CloseFile)
                 /\ disk'[f] = [run |-> IF f = Provenance THEN 0 ELSE Last, whole |-> whole]
                 /\ \A g \in Files : g # f => disk'[g] = disk[g]
<1>1. TypeOK /\ PhaseInv /\ Writing /\ UNCHANGED <<data, runs>>
  BY DEF StepInv, OpenFile, CloseFile
<1>2. trainer.pc \in {"write", "provenance", "report"}
  BY <1>1 DEF Writing
<1>3. Last > 0 /\ Last \in Nat /\ Last' = Last
  BY <1>1, <1>2 DEF PhaseInv, TypeOK, Last
<1>4. PICK f \in Files : f = File
  BY <1>1, <1>2, FileType
<1>5. CASE OpenFile
  <2>1. ~CloseFile /\ disk' = Written(f, FALSE)
    BY <1>4, <1>5 DEF OpenFile, CloseFile
  <2>2. /\ disk'[f] = [run |-> IF f = Provenance THEN 0 ELSE Last, whole |-> FALSE]
        /\ \A g \in Files : g # f => disk'[g] = disk[g]
    BY <1>1, <1>3, <2>1, DiskWritten
  <2> QED
    BY <1>1, <1>2, <1>3, <1>4, <2>1, <2>2
<1>6. CASE CloseFile
  <2>1. disk' = Written(f, TRUE)
    BY <1>4, <1>6 DEF CloseFile
  <2>2. /\ disk'[f] = [run |-> IF f = Provenance THEN 0 ELSE Last, whole |-> TRUE]
        /\ \A g \in Files : g # f => disk'[g] = disk[g]
    BY <1>1, <1>3, <2>1, DiskWritten
  <2> QED
    BY <1>1, <1>2, <1>3, <1>4, <1>6, <2>1, <2>2
<1> QED
  BY <1>5, <1>6

\* After a file of a run in its writing phase comes another, or the end.
LEMMA WriteStays ==
    ASSUME StepInv, OpenFile \/ CloseFile \/ Passing
    PROVE  trainer.pc \in Writes /\ trainer'.pc \in Writes
<1>1. trainer \in Trainers /\ trainer.pc \in {"write", "provenance", "report"}
  BY TypeParts, WriteEffect DEF StepInv, Typed, TrainerOK, Passing
<1>2. PICK t : t = NextPart
  OBVIOUS
<1>3. t.pc \in Writes
  BY <1>1, <1>2, NextPartType
<1>4. trainer' = t \/ trainer'.pc = trainer.pc
  <2>1. CASE OpenFile
    BY <1>1, <2>1 DEF OpenFile, Trainers
  <2>2. CASE CloseFile /\ trainer' # t
    <3>1. PICK m : trainer' = [trainer EXCEPT !.file = m, !.open = FALSE]
      BY <1>2, <2>2 DEF CloseFile
    <3> QED
      BY <1>1, <3>1 DEF Trainers
  <2> QED
    BY <1>2, <2>1, <2>2 DEF Passing
<1> QED
  BY <1>1, <1>3, <1>4 DEF Writes

LEMMA DataStep ==
    ASSUME StepInv, StepInv', TurnInv, DiskInv, DataInv, [Next]_vars
    PROVE  DiskInv' /\ DataInv'
<1>1. TypeOK /\ PhaseInv /\ DiskOK /\ Last \in Nat
  <2>1. TypeOK /\ Typed /\ PhaseInv
    BY TypeParts DEF StepInv
  <2>2. runs \in Seq(Runs)
    BY <2>1 DEF Typed, RunsOK
  <2> QED
    BY <2>1, <2>2 DEF Typed, Last
<1>2. \A f \in Files : disk[f].run \in 0..Last
  BY <1>1 DEF DiskOK
<1>3. CASE \E p \in PackageSets : StartProduction(p) \/ StartSynthetic(p)
  <2>1. PICK kind \in {"production", "synthetic"}, p \in PackageSets :
           /\ Begin(kind, p, LabColumns)
           /\ kind = "production" => trainer' = [Idle EXCEPT !.pc = "obtain"]
    BY <1>3 DEF StartProduction, StartSynthetic
  <2>2. /\ Last' = Last + 1 /\ \A r \in 1..Last : runs'[r] = runs[r]
        /\ runs'[Last + 1].kind = kind /\ disk' = disk
    BY <1>1, <2>1, RunBegins DEF Last, Begin
  <2>3. Production' => kind = "production"
    BY <2>2 DEF Production
  <2>4. DiskInv'
    BY <1>1, <1>2, <2>2 DEF DiskInv
  <2>5. Production' => trainer'.pc = "obtain"
    BY <2>1, <2>3 DEF Idle
  <2>6. \A f \in Files : disk[f].run > 0 => disk[f].run \in 1..Last
    BY <1>1, <1>2
  <2> QED
    BY <2>2, <2>4, <2>5, <2>6 DEF DataInv, Writes
<1>4. CASE Stopping
  <2>1. PICK how \in {"done", "stopped"} : Ends(how) /\ trainer.pc # "idle" /\ disk' = disk
    BY <1>4 DEF Stopping
  <2>2. /\ Last' = Last /\ trainer'.pc = "idle"
        /\ \A r \in 1..Last : runs'[r].kind = runs[r].kind /\ runs'[r].learnt = runs[r].learnt
    BY <1>1, <2>1, RunEnds DEF Last, Ends, Idle, PhaseInv
  <2>3. \A f \in Files : disk[f].run > 0 => disk[f].run \in 1..Last
    BY <1>1, <1>2
  <2> QED
    BY <2>1, <2>2, <2>3 DEF DiskInv, DataInv, Writes, Gated
<1>5. CASE Gating
  <2>1. UNCHANGED <<disk, runs>> /\ Last' = Last /\ Production' = Production
    BY <1>5 DEF Gating, Last, Production
  <2>2. \/ trainer.pc \in Gated /\ trainer'.pc \in Gated \ {"train"}
        \/ trainer.pc = "train" /\ trainer'.pc = "write"
        \/ trainer'.pc = "idle"
    <3>1. trainer \in Trainers
      BY TypeParts DEF StepInv, Typed, TrainerOK
    <3>2. ASSUME NEW q \in Gated \ {"train"}, trainer' = [trainer EXCEPT !.pc = q]
          PROVE  trainer'.pc = q
      BY <3>1, <3>2 DEF Trainers
    <3>3. CASE trainer' = [Idle EXCEPT !.pc = "write"]
      BY <1>5, <3>2, <3>3 DEF Gating, Idle
    <3> QED
      BY <1>5, <3>2, <3>3 DEF Gating
  <2> QED
    BY <2>1, <2>2 DEF DiskInv, DataInv, Writes, Gated
<1>6. CASE \E c \in Contracts : ReadAndSplit(c) /\ data = "right"
  <2>1. PICK c \in Contracts : ReadAndSplit(c) /\ data = "right"
    BY <1>6
  <2>2. Last > 0 /\ trainer.pc \in Gated /\ disk' = disk
    BY <1>1, <2>1 DEF ReadAndSplit, PhaseInv, Gated
  <2>3. /\ Last' = Last /\ runs'[Last].learnt = "right"
        /\ \A r \in 1..Last : r # Last => runs'[r] = runs[r]
    BY <1>1, <2>1, <2>2, RunLearns DEF Last
  <2>4. \A f \in Files : disk[f].run < Last /\ (disk[f].run > 0 => disk[f].run \in 1..Last)
    BY <1>1, <1>2, <2>2 DEF DiskInv
  <2> QED
    BY <2>2, <2>3, <2>4 DEF DiskInv, DataInv
<1>7. CASE Passing
  <2>1. UNCHANGED <<disk, runs>> /\ Last' = Last /\ Production' = Production
    BY <1>7 DEF Passing, Last, Production
  <2> QED
    BY <1>7, <2>1, WriteStays DEF DiskInv, DataInv, Writes, Gated
<1>8. CASE OpenFile \/ CloseFile
  <2>1. PICK f \in Files, whole \in BOOLEAN :
           /\ disk'[f] = [run |-> IF f = Provenance THEN 0 ELSE Last, whole |-> whole]
           /\ \A g \in Files : g # f => disk'[g] = disk[g]
    BY <1>8, WriteEffect
  <2>2. UNCHANGED runs /\ Last' = Last /\ Production' = Production /\ Last > 0
    BY <1>8, WriteEffect DEF Production, Last
  <2>3. trainer.pc \in Writes /\ trainer'.pc \in Writes
    BY <1>8, WriteStays
  <2>4. Production => runs[Last].learnt = "right"
    BY <2>3 DEF DataInv
  <2>5. DiskInv'
    BY <2>1, <2>2, <2>3 DEF DiskInv, Writes, Gated
  <2>6. \A g \in Files : disk'[g].run > 0 /\ runs[disk'[g].run].kind = "production"
                         => runs[disk'[g].run].learnt = "right"
    BY <2>1, <2>4 DEF DataInv, Production
  <2> QED
    BY <2>2, <2>4, <2>5, <2>6 DEF DataInv
<1>9. CASE Serving
  <2>1. UNCHANGED <<runs, trainer>> /\ Last' = Last /\ Production' = Production
    BY <1>9 DEF Serving, Last, Production
  <2>2. /\ \A g \in Files \ {Provenance} : disk'[g] = disk[g]
        /\ disk'[Provenance] = disk[Provenance] \/ disk'[Provenance] = [run |-> 0, whole |-> TRUE]
        /\ Provenance \in Files
    BY <1>1, <1>9 DEF Serving, DiskOK, Files
  <2>3. trainer.pc \in Gated => Last > 0
    BY <1>1 DEF PhaseInv, Gated
  <2> QED
    BY <2>1, <2>2, <2>3 DEF DiskInv, DataInv
<1> QED
  BY <1>1, <1>3, <1>4, <1>5, <1>6, <1>7, <1>8, <1>9, StepKinds

LEMMA DataInvHolds == Spec => [](StepInv /\ TurnInv /\ DiskInv /\ DataInv)
<1>1. Init => DiskInv /\ DataInv
  BY DEF Init, DiskInv, DataInv, Absent, Idle, Gated, Writes
<1>2. StepInv /\ StepInv' /\ TurnInv /\ DiskInv /\ DataInv /\ [Next]_vars => DiskInv' /\ DataInv'
  BY DataStep
<1> QED
  BY <1>1, <1>2, StepInvHolds, PTL DEF Spec

\* A production run writes models only of the dataset whose digest its manifest
\* states: whatever was downloaded, cut off or put there by hand before, and
\* wherever this run or another was stopped.
THEOREM VerifiedData == Spec => []OnlyVerifiedData
<1>1. StepInv /\ DataInv => OnlyVerifiedData
  BY DEF StepInv, PhaseInv, DataInv, OnlyVerifiedData
<1> QED
  BY <1>1, DataInvHolds, PTL

-----------------------------------------------------------------------------
(* When the report may be believed.                                        *)

New == [run |-> Last, whole |-> TRUE]

\* Branch number i of the run in progress is on the disk, or is left out.
Complete(i) ==
    Installed(Trained[i], runs[Last].packages)
    => \A k \in DOMAIN FilesOf(Trained[i]) : disk[FilesOf(Trained[i])[k]] = New

AllComplete == \A i \in DOMAIN Trained : Complete(i)

\* A production run has written everything before its place, and everything
\* when it writes the report or is done.
ProgressInv ==
    Last > 0 /\ Production =>
        /\ trainer.pc = "write" =>
              /\ \A i \in DOMAIN Trained : i < trainer.branch => Complete(i)
              /\ \A k \in DOMAIN BranchFiles : k < trainer.file => disk[BranchFiles[k]] = New
        /\ trainer.pc \in {"provenance", "report", "written"} => AllComplete
        /\ runs[Last].end = "done" => AllComplete

\* Where the report is of the last run, no model is written any more.
ReportedInv ==
    Last > 0 /\ disk[Report].run = Last => trainer.pc \in {"report", "written", "idle"} /\ AllComplete

ReportInv == ProgressInv /\ ReportedInv /\ ReportBehindArtifacts

LEMMA CompleteKept ==
    ASSUME NEW i \in DOMAIN Trained, Complete(i), Last' = Last,
           (runs[Last].packages)' = runs[Last].packages,
           \A k \in DOMAIN FilesOf(Trained[i]) : disk'[FilesOf(Trained[i])[k]] = disk[FilesOf(Trained[i])[k]]
    PROVE  Complete(i)'
BY DEF Complete, New

LEMMA AllCompleteKept ==
    ASSUME AllComplete, Last' = Last, (runs[Last].packages)' = runs[Last].packages,
           \A f \in Files \ {Report, Provenance} : disk'[f] = disk[f]
    PROVE  AllComplete'
<1>1. ASSUME NEW i \in DOMAIN Trained
      PROVE  Complete(i)'
  BY NamedBranches, ModelFiles, CompleteKept DEF AllComplete
<1> QED
  BY <1>1 DEF AllComplete

\* The models of a report are the files of its branches.
LEMMA Reported ==
    ASSUME NEW packages, NEW f \in ArtifactsOf(packages)
    PROVE  /\ f \in Files \ {Report, Provenance}
           /\ \E i \in DOMAIN Trained : /\ Installed(Trained[i], packages)
                                        /\ \E k \in DOMAIN FilesOf(Trained[i]) : f = FilesOf(Trained[i])[k]
<1>1. PICK b \in Branches : Installed(b, packages) /\ \E k \in DOMAIN FilesOf(b) : f = FilesOf(b)[k]
  BY DEF ArtifactsOf
<1> QED
  BY <1>1, ModelFiles DEF Branches

LEMMA AllReported ==
    ASSUME AllComplete, NEW f \in ArtifactsOf(runs[Last].packages)
    PROVE  disk[f] = New
BY Reported DEF AllComplete, Complete

\* What a report says stays true while nothing or only newer files are written.
LEMMA ReportKept ==
    ASSUME TypeOK, DiskInv, ReportBehindArtifacts, disk'[Report] = disk[Report],
           \A r \in 1..Last : (runs[r].packages)' = runs[r].packages,
           \A f \in Files \ {Report, Provenance} :
               disk'[f] = disk[f] \/ (disk'[f].run = Last /\ disk[Report].run # Last)
    PROVE  ReportBehindArtifacts'
<1>1. Report \in Files /\ Report # Provenance
  BY DEF Files, Report, Provenance
<1>2. PICK r \in Nat : r = disk[Report].run /\ r \in 0..Last /\ Last \in Nat
  BY <1>1 DEF TypeOK, Last
<1>3. SUFFICES ASSUME disk[Report].whole, NEW f \in ArtifactsOf(runs[r].packages)
               PROVE  disk'[f].run >= r /\ (disk'[f].run = r => disk'[f].whole)
  <2>1. disk[Report].whole => r \in 1..Last
    BY <1>1, <1>2 DEF DiskInv
  <2>2. disk[Report].whole => ArtifactsOf(runs'[r].packages) = ArtifactsOf(runs[r].packages)
    BY <2>1
  <2> QED
    BY <1>2, <1>3, <2>2 DEF ReportBehindArtifacts, ArtifactsOf, Installed
<1>4. disk[f].run >= r /\ (disk[f].run = r => disk[f].whole)
  BY <1>2, <1>3 DEF ReportBehindArtifacts
<1>5. f \in Files \ {Report, Provenance}
  BY Reported
<1> QED
  BY <1>2, <1>4, <1>5

LEMMA StartReported ==
    ASSUME StepInv, DiskInv, ReportInv, NEW p \in PackageSets, StartProduction(p) \/ StartSynthetic(p)
    PROVE  ReportInv'
<1>1. PICK kind \in {"production", "synthetic"} :
         /\ Begin(kind, p, LabColumns)
         /\ kind = "production" => trainer' = [Idle EXCEPT !.pc = "obtain"]
  BY DEF StartProduction, StartSynthetic
<1>2. TypeOK
  BY DEF StepInv
<1>3. /\ Last' = Last + 1 /\ Last \in Nat /\ \A r \in 1..Last : runs'[r] = runs[r]
      /\ runs'[Last + 1].kind = kind /\ runs'[Last + 1].end = "running" /\ disk' = disk
  BY <1>1, <1>2, RunBegins DEF Last, Begin
<1>4. Production' => trainer'.pc = "obtain"
  BY <1>1, <1>3 DEF Production, Idle
<1>5. ProgressInv'
  BY <1>3, <1>4 DEF ProgressInv
<1>6. Report \in Files
  BY DEF Files
<1>7. disk'[Report].run # Last'
  BY <1>2, <1>3, <1>6 DEF TypeOK
<1>8. ReportBehindArtifacts'
  <2>1. disk'[Report] = disk[Report] /\ \A f \in Files \ {Report, Provenance} : disk'[f] = disk[f]
    BY <1>3
  <2>2. \A r \in 1..Last : (runs[r].packages)' = runs[r].packages
    BY <1>3
  <2> QED
    BY <1>2, <2>1, <2>2, ReportKept DEF ReportInv
<1> QED
  BY <1>5, <1>7, <1>8 DEF ReportInv, ReportedInv

LEMMA StopReported ==
    ASSUME StepInv, DiskInv, ReportInv, Stopping
    PROVE  ReportInv'
<1>1. PICK how \in {"done", "stopped"} :
         /\ trainer.pc # "idle" /\ (how = "done" => trainer.pc = "written")
         /\ Ends(how) /\ disk' = disk
  BY DEF Stopping
<1>2. TypeOK /\ Last > 0
  BY <1>1 DEF StepInv, PhaseInv
<1>3. /\ Last' = Last /\ trainer'.pc = "idle" /\ Last \in Nat /\ runs'[Last].end = how
      /\ \A r \in 1..Last : runs'[r].kind = runs[r].kind /\ runs'[r].packages = runs[r].packages
  BY <1>1, <1>2, RunEnds DEF Last, Ends, Idle
<1>4. (runs[Last].packages)' = runs[Last].packages /\ Production' = Production
  BY <1>2, <1>3 DEF Production
<1>5. AllComplete => AllComplete'
  BY <1>1, <1>3, <1>4, AllCompleteKept
<1>6. ProgressInv'
  BY <1>1, <1>2, <1>3, <1>4, <1>5 DEF ProgressInv, ReportInv
<1>7. ReportedInv'
  BY <1>1, <1>2, <1>3, <1>5 DEF ReportedInv, ReportInv
<1>8. ReportBehindArtifacts'
  <2>1. disk'[Report] = disk[Report] /\ \A f \in Files \ {Report, Provenance} : disk'[f] = disk[f]
    BY <1>1
  <2>2. \A r \in 1..Last : (runs[r].packages)' = runs[r].packages
    BY <1>3
  <2> QED
    BY <1>2, <2>1, <2>2, ReportKept DEF ReportInv
<1> QED
  BY <1>6, <1>7, <1>8 DEF ReportInv

\* Steps that write no model and no report keep what is complete.
LEMMA QuietKept ==
    ASSUME StepInv, DiskInv, ReportInv, Last' = Last, Production' = Production,
           \A r \in 1..Last : (runs[r].packages)' = runs[r].packages,
           \A f \in Files \ {Provenance} : disk'[f] = disk[f]
    PROVE  /\ Last > 0 /\ AllComplete => AllComplete'
           /\ \A i \in DOMAIN Trained : Last > 0 /\ Complete(i) => Complete(i)'
           /\ ReportBehindArtifacts'
           /\ (disk[Report].run)' = disk[Report].run
<1>1. TypeOK /\ Last \in Nat /\ Report \in Files /\ Report # Provenance
  BY DEF StepInv, TypeOK, Last, Files, Report, Provenance
<1>2. disk'[Report] = disk[Report]
  BY <1>1
<1>3. ReportBehindArtifacts'
  BY <1>1, <1>2, ReportKept DEF ReportInv
<1>4. ASSUME Last > 0
      PROVE  (runs[Last].packages)' = runs[Last].packages
  BY <1>1, <1>4
<1>5. ASSUME NEW i \in DOMAIN Trained, Last > 0, Complete(i)
      PROVE  Complete(i)'
  <2>1. \A k \in DOMAIN FilesOf(Trained[i]) : disk'[FilesOf(Trained[i])[k]] = disk[FilesOf(Trained[i])[k]]
    BY NamedBranches, ModelFiles
  <2> QED
    BY <1>4, <1>5, <2>1, CompleteKept
<1> QED
  BY <1>2, <1>3, <1>5 DEF AllComplete

LEMMA FilesCounted == \A k \in DOMAIN BranchFiles : k \in Nat \ {0}
<1>1. BranchFiles = FilesOf(Branch)
  BY SameFiles DEF BranchFiles
<1> QED
  BY <1>1, FewFiles

LEMMA FilesCountedPrimed == (\A k \in DOMAIN BranchFiles : k \in Nat \ {0})'
BY FilesCounted, PTL

LEMMA GateReported ==
    ASSUME StepInv, DiskInv, ReportInv, Gating
    PROVE  ReportInv'
<1>1. /\ UNCHANGED <<disk, runs>> /\ Last' = Last /\ Production' = Production
      /\ trainer \in Trainers /\ PhaseInv
  BY TypeParts DEF Gating, Last, Production, StepInv, Typed, TrainerOK
<1>2. /\ Last > 0 /\ AllComplete => AllComplete'
      /\ ReportBehindArtifacts'
      /\ (disk[Report].run)' = disk[Report].run
  BY <1>1, QuietKept
<1>3. \/ trainer.pc \in Gated /\ trainer'.pc \in Gated
      \/ trainer.pc \in Gated /\ trainer'.pc = "write" /\ trainer'.branch = 1 /\ trainer'.file = 1
      \/ trainer'.pc = "idle" /\ trainer.pc = "idle"
  <2>1. CASE \E q \in Gated : trainer.pc \in Gated /\ trainer' = [trainer EXCEPT !.pc = q]
    BY <1>1, <2>1 DEF Trainers
  <2>2. CASE trainer.pc = "train" /\ trainer' = [Idle EXCEPT !.pc = "write"]
    BY <2>2 DEF Idle, Gated
  <2> QED
    BY <2>1, <2>2 DEF Gating
<1>4. ProgressInv'
  <2>1. CASE trainer'.pc = "write" /\ trainer'.branch = 1 /\ trainer'.file = 1 /\ trainer.pc \in Gated
    <3>1. \A i \in DOMAIN Trained : ~(i < trainer'.branch)
      BY <2>1, NamedBranches
    <3>2. \A k \in (DOMAIN BranchFiles)' : ~(k < trainer'.file)
      <4>1. \A k \in (DOMAIN BranchFiles)' : k >= 1
        BY FilesCountedPrimed
      <4> QED
        BY <2>1, <4>1
    <3>3. Last > 0 => runs[Last].end = "running"
      BY <1>1, <2>1 DEF PhaseInv, Gated
    <3> QED
      BY <1>1, <2>1, <3>1, <3>2, <3>3 DEF ProgressInv
  <2>2. CASE trainer'.pc \in Gated \cup {"idle"}
    BY <1>1, <1>2, <2>2 DEF ProgressInv, ReportInv, Gated
  <2> QED
    BY <1>3, <2>1, <2>2
<1>5. ReportedInv'
  BY <1>1, <1>2, <1>3 DEF ReportedInv, ReportInv, Gated
<1> QED
  BY <1>2, <1>4, <1>5 DEF ReportInv

LEMMA LearnReported ==
    ASSUME StepInv, DiskInv, ReportInv, NEW c \in Contracts, ReadAndSplit(c), data = "right"
    PROVE  ReportInv'
<1>1. TypeOK /\ PhaseInv /\ trainer.pc = "read" /\ disk' = disk
      /\ trainer' = [trainer EXCEPT !.pc = "train", !.contract = c]
  BY DEF StepInv, ReadAndSplit
<1>2. Last > 0 /\ runs[Last].end = "running" /\ trainer \in Trainers
  BY <1>1, TypeParts DEF PhaseInv, Typed, TrainerOK
<1>3. /\ Last' = Last /\ Last \in Nat
      /\ \A r \in 1..Last : /\ runs'[r].kind = runs[r].kind /\ runs'[r].end = runs[r].end
                            /\ runs'[r].packages = runs[r].packages
  BY <1>1, <1>2, RunLearns DEF Last
<1>4. Production' = Production /\ (runs[Last].end)' = "running" /\ trainer'.pc = "train"
  BY <1>1, <1>2, <1>3 DEF Production, Trainers
<1>5. ReportBehindArtifacts' /\ (disk[Report].run)' = disk[Report].run
  BY <1>1, <1>3, <1>4, QuietKept
<1>6. ProgressInv'
  BY <1>4 DEF ProgressInv
<1>7. ReportedInv'
  BY <1>1, <1>2, <1>3, <1>5 DEF ReportedInv, ReportInv
<1> QED
  BY <1>5, <1>6, <1>7 DEF ReportInv

LEMMA PassReported ==
    ASSUME StepInv, DiskInv, ReportInv, Passing
    PROVE  ReportInv'
<1>1. /\ UNCHANGED <<disk, runs>> /\ Last' = Last /\ Production' = Production
      /\ trainer.pc \in {"write", "provenance"} /\ PhaseInv /\ trainer' = NextPart
  BY DEF Passing, Last, Production, StepInv
<1>2. /\ AllComplete => AllComplete'
      /\ \A i \in DOMAIN Trained : Complete(i) => Complete(i)'
      /\ ReportBehindArtifacts'
      /\ (disk[Report].run)' = disk[Report].run
      /\ Last > 0 /\ runs[Last].end = "running"
  BY <1>1, QuietKept DEF PhaseInv
<1>3. PICK t : t = NextPart
  OBVIOUS
<1>4. /\ t.pc = "write" => /\ trainer.pc = "write" /\ t.branch = trainer.branch + 1 /\ t.file = 1
      /\ t.pc = "provenance" => trainer.pc = "write" /\ trainer.branch = Len(Order)
      /\ t.pc \in Writes /\ (t.pc = "report" => trainer.pc = "provenance")
      /\ t.pc = "written" => trainer.pc \in {"provenance", "report"}
  BY <1>1, <1>3, NextPartType
<1>5. trainer' = t
  BY <1>1, <1>3
<1>6. disk[Report].run # Last
  BY <1>1, <1>2 DEF ReportInv, ReportedInv
<1>7. ASSUME Production, trainer.pc = "write"
      PROVE  Complete(trainer.branch)
  BY <1>1, <1>7 DEF Passing, Complete, Branch, Order
<1>8. ProgressInv'
  <2> SUFFICES ASSUME Production
               PROVE  /\ t.pc = "write" =>
                            /\ \A i \in DOMAIN Trained : i < t.branch => Complete(i)'
                            /\ \A k \in (DOMAIN BranchFiles)' : ~(k < t.file)
                      /\ t.pc \in {"provenance", "report", "written"} => AllComplete'
    BY <1>1, <1>2, <1>5 DEF ProgressInv
  <2>1. CASE trainer.pc = "write"
    <3>1. \A i \in DOMAIN Trained : i <= trainer.branch => Complete(i)
      <4>1. trainer.branch \in Nat /\ DOMAIN Trained = 1..Len(Trained) /\ Len(Trained) \in Nat
        BY TypeParts, NamedBranches DEF StepInv, Typed, TrainerOK, Trainers
      <4>2. \A i \in DOMAIN Trained : i < trainer.branch => Complete(i)
        BY <1>2, <2>1 DEF ReportInv, ProgressInv
      <4> QED
        BY <1>7, <2>1, <4>1, <4>2
    <3>2. CASE t.pc = "write"
      <4>1. t.file = 1
        BY <1>4, <3>2
      <4>2. \A k \in (DOMAIN BranchFiles)' : ~(k < t.file)
        BY <4>1, FilesCountedPrimed
      <4>3. trainer.branch \in Nat /\ DOMAIN Trained = 1..Len(Trained) /\ Len(Trained) \in Nat
        BY TypeParts, NamedBranches DEF StepInv, Typed, TrainerOK, Trainers
      <4>4. \A i \in DOMAIN Trained : i < t.branch => i <= trainer.branch
        BY <1>4, <3>2, <4>3
      <4> QED
        BY <1>2, <3>1, <3>2, <4>2, <4>4
    <3>3. CASE t.pc = "provenance"
      <4>1. \A i \in DOMAIN Trained : i <= trainer.branch
        BY <1>4, <3>3, NamedBranches DEF Order
      <4> QED
        BY <1>2, <3>1, <3>3, <4>1 DEF AllComplete
    <3> QED
      BY <1>4, <2>1, <3>2, <3>3 DEF Writes
  <2>2. CASE trainer.pc = "provenance"
    BY <1>2, <1>4, <2>2 DEF ReportInv, ProgressInv
  <2> QED
    BY <1>1, <2>1, <2>2
<1>9. ReportedInv'
  BY <1>1, <1>2, <1>6 DEF ReportedInv
<1> QED
  BY <1>2, <1>8, <1>9 DEF ReportInv

LEMMA WriteApart ==
    ASSUME StepInv, Production, trainer.pc = "write",
           NEW i \in DOMAIN Trained, NEW k \in DOMAIN FilesOf(Trained[i]),
           i # trainer.branch \/ k # trainer.file
    PROVE  FilesOf(Trained[i])[k] # File
<1>1. TypeOK /\ trainer.branch \in DOMAIN Trained /\ trainer.file \in DOMAIN BranchFiles
  BY DEF StepInv, TypeOK, Order
<1>2. Branch = Trained[trainer.branch] /\ BranchFiles = FilesOf(Branch) /\ File = FilesOf(Branch)[trainer.file]
  BY <1>1, FileType, SameFiles DEF Branch, Order, BranchFiles
<1>3. Branch \in Names /\ Trained[i] \in Names
  BY <1>1, <1>2, NamedBranches
<1> QED
  BY <1>1, <1>2, <1>3, FilesApart

\* A model is opened, or complete.
LEMMA ModelReported ==
    ASSUME StepInv, DiskInv, ReportInv, OpenFile \/ CloseFile, trainer.pc = "write"
    PROVE  ReportInv'
<1>1. PICK f \in Files, whole \in BOOLEAN :
         /\ f = File /\ (whole <=> CloseFile)
         /\ disk'[f] = [run |-> IF f = Provenance THEN 0 ELSE Last, whole |-> whole]
         /\ \A g \in Files : g # f => disk'[g] = disk[g]
  BY WriteEffect
<1>2. Last > 0 /\ Last \in Nat /\ UNCHANGED <<data, runs>> /\ Last' = Last /\ TypeOK
      /\ runs[Last].end = "running" /\ Production' = Production
  BY WriteEffect DEF StepInv, PhaseInv, Production, Last
<1>3. /\ Branch \in Branches /\ BranchFiles = FilesOf(Branch) /\ f = FilesOf(Branch)[trainer.file]
      /\ f # Provenance /\ f # Report
  BY <1>1, <1>2, FileType
<1>4. disk'[f] = [run |-> Last, whole |-> whole]
  BY <1>1, <1>3
<1>5. disk[Report].run # Last /\ disk'[Report] = disk[Report]
  BY <1>1, <1>2, <1>3 DEF ReportInv, ReportedInv, Files
<1>6. ReportedInv'
  BY <1>2, <1>5 DEF ReportedInv
<1>7. ReportBehindArtifacts'
  <2>1. \A g \in Files \ {Report, Provenance} :
            disk'[g] = disk[g] \/ (disk'[g].run = Last /\ disk[Report].run # Last)
    BY <1>1, <1>4, <1>5
  <2>2. \A r \in 1..Last : (runs[r].packages)' = runs[r].packages
    BY <1>2
  <2> QED
    BY <1>2, <1>5, <2>1, <2>2, ReportKept DEF ReportInv
<1>8. ProgressInv'
  <2> SUFFICES ASSUME Production
               PROVE  /\ trainer'.pc = "write" =>
                            /\ \A i \in DOMAIN Trained : i < trainer'.branch => Complete(i)'
                            /\ (\A k \in DOMAIN BranchFiles : k < trainer.file => disk[BranchFiles[k]] = New)'
                      /\ trainer'.pc \in {"provenance", "report", "written"} => AllComplete'
    BY <1>2 DEF ProgressInv
  <2>1. /\ Branch = Trained[trainer.branch] /\ trainer.branch \in DOMAIN Trained
        /\ trainer.file \in DOMAIN FilesOf(Branch) /\ Order = Trained
    BY <1>2, <1>3 DEF TypeOK, Branch, Order
  <2>2. /\ \A i \in DOMAIN Trained : i < trainer.branch => Complete(i)
        /\ \A k \in DOMAIN FilesOf(Branch) : k < trainer.file => disk[FilesOf(Branch)[k]] = New
    BY <1>2, <1>3 DEF ReportInv, ProgressInv
  <2>3. DOMAIN Trained = 1..Len(Trained) /\ Len(Trained) \in Nat /\ trainer.branch \in Nat
        /\ DOMAIN FilesOf(Branch) = 1..Len(FilesOf(Branch)) /\ Len(FilesOf(Branch)) \in Nat
        /\ trainer.file \in Nat /\ trainer \in Trainers
    BY <2>1, NamedBranches, FewFiles, TypeParts DEF StepInv, Typed, TrainerOK
  <2>4. ASSUME NEW i \in DOMAIN Trained, i < trainer.branch
        PROVE  Complete(i)'
    <3>1. ASSUME NEW k \in DOMAIN FilesOf(Trained[i])
          PROVE  disk'[FilesOf(Trained[i])[k]] = disk[FilesOf(Trained[i])[k]]
      <4>1. i # trainer.branch
        BY <2>3, <2>4
      <4>2. FilesOf(Trained[i])[k] # f
        BY <1>1, <4>1, WriteApart
      <4>3. FilesOf(Trained[i])[k] \in Files
        BY NamedBranches, ModelFiles
      <4> QED
        BY <1>1, <4>2, <4>3
    <3> QED
      BY <1>2, <2>2, <2>4, <3>1, CompleteKept
  <2>5. ASSUME NEW k \in DOMAIN FilesOf(Branch), k # trainer.file
        PROVE  disk'[FilesOf(Branch)[k]] = disk[FilesOf(Branch)[k]]
    <3>1. FilesOf(Branch)[k] # f
      BY <1>1, <2>1, <2>5, WriteApart
    <3>2. FilesOf(Branch)[k] \in Files
      BY <1>3, ModelFiles
    <3> QED
      BY <1>1, <3>1, <3>2
  <2>6. New' = New
    BY <1>2 DEF New
  <2>7. CASE OpenFile
    <3>1. trainer'.pc = "write" /\ trainer'.branch = trainer.branch /\ trainer'.file = trainer.file
      BY <2>3, <2>7 DEF OpenFile, Trainers
    <3>2. BranchFiles' = FilesOf(Branch)
      BY <1>2, <1>3, <3>1 DEF BranchFiles, Branch, Order
    <3>3. \A k \in DOMAIN FilesOf(Branch) : k < trainer.file => disk'[FilesOf(Branch)[k]] = New
      BY <2>2, <2>3, <2>5
    <3> QED
      BY <2>4, <2>6, <3>1, <3>2, <3>3
  <2>8. CASE CloseFile /\ trainer.file < Len(FilesOf(Branch))
    <3>1. trainer' = [trainer EXCEPT !.file = trainer.file + 1, !.open = FALSE]
      BY <1>3, <2>3, <2>8 DEF CloseFile, Trainers
    <3>2. trainer'.pc = "write" /\ trainer'.branch = trainer.branch /\ trainer'.file = trainer.file + 1
      BY <2>3, <3>1 DEF Trainers
    <3>3. BranchFiles' = FilesOf(Branch)
      BY <1>2, <1>3, <3>2 DEF BranchFiles, Branch, Order
    <3>4. \A k \in DOMAIN FilesOf(Branch) : k < trainer.file + 1 => disk'[FilesOf(Branch)[k]] = New
      <4>1. disk'[FilesOf(Branch)[trainer.file]] = New
        BY <1>1, <1>3, <1>4, <2>8 DEF New
      <4> QED
        BY <2>2, <2>3, <2>5, <4>1
    <3> QED
      BY <2>4, <2>6, <3>2, <3>3, <3>4
  <2>9. CASE CloseFile /\ ~(trainer.file < Len(FilesOf(Branch)))
    <3>1. PICK t : t = NextPart
      OBVIOUS
    <3>2. /\ t.pc = "write" => t.branch = trainer.branch + 1 /\ t.file = 1
          /\ t.pc = "provenance" => trainer.branch = Len(Trained)
          /\ t.pc \in Writes \ {"report", "written"}
      BY <2>1, <3>1, NextPartType DEF Writes
    <3>3. trainer' = t
      BY <1>3, <2>9, <3>1 DEF CloseFile
    <3>4. ASSUME NEW b \in DOMAIN Trained, b = trainer.branch
          PROVE  Complete(b)'
      <4>1. disk'[FilesOf(Branch)[trainer.file]] = New
        BY <1>1, <1>3, <1>4, <2>9 DEF New
      <4>2. \A k \in DOMAIN FilesOf(Branch) : k # trainer.file => k < trainer.file
        BY <2>1, <2>3, <2>9
      <4>3. \A k \in DOMAIN FilesOf(Branch) : disk'[FilesOf(Branch)[k]] = New
        BY <2>2, <2>5, <4>1, <4>2
      <4>4. \A k \in DOMAIN FilesOf(Trained[b]) : disk'[FilesOf(Trained[b])[k]] = New'
        BY <2>1, <2>6, <3>4, <4>3
      <4> QED
        BY <4>4 DEF Complete
    <3>5. CASE t.pc = "write"
      <4>1. \A k \in (DOMAIN BranchFiles)' : ~(k < t.file)
        <5>1. t.file = 1
          BY <3>2, <3>5
        <5> QED
          BY <5>1, FilesCountedPrimed
      <4>2. \A i \in DOMAIN Trained : i < t.branch => i < trainer.branch \/ i = trainer.branch
        BY <2>3, <3>2, <3>5
      <4> QED
        BY <2>4, <3>3, <3>4, <3>5, <4>1, <4>2
    <3>6. CASE t.pc = "provenance"
      <4>1. \A i \in DOMAIN Trained : i < trainer.branch \/ i = trainer.branch
        BY <2>3, <3>2, <3>6
      <4> QED
        BY <2>4, <3>3, <3>4, <3>6, <4>1 DEF AllComplete
    <3> QED
      BY <3>2, <3>5, <3>6 DEF Writes
  <2> QED
    BY <2>7, <2>8, <2>9
<1> QED
  BY <1>6, <1>7, <1>8 DEF ReportInv

\* provenance.json changes, or the report is opened, or complete.
LEMMA EndReported ==
    ASSUME StepInv, DiskInv, ReportInv, OpenFile \/ CloseFile, trainer.pc # "write"
    PROVE  ReportInv'
<1>1. PICK f \in Files, whole \in BOOLEAN :
         /\ f = File /\ (whole <=> CloseFile)
         /\ disk'[f] = [run |-> IF f = Provenance THEN 0 ELSE Last, whole |-> whole]
         /\ \A g \in Files : g # f => disk'[g] = disk[g]
  BY WriteEffect
<1>2. Last > 0 /\ Last \in Nat /\ UNCHANGED <<data, runs>> /\ Last' = Last /\ TypeOK
      /\ runs[Last].end = "running" /\ Production' = Production
      /\ trainer.pc \in {"provenance", "report"} /\ trainer \in Trainers
  BY WriteEffect, TypeParts DEF StepInv, PhaseInv, Production, Last, Typed, TrainerOK
<1>3. f = (IF trainer.pc = "provenance" THEN Provenance ELSE Report) /\ Report # Provenance
  BY <1>1, <1>2 DEF File, Report, Provenance
<1>4. /\ trainer'.pc = "report" => Production
      /\ trainer'.pc \in {"provenance", "report", "written"}
      /\ trainer.pc = "report" => trainer'.pc \in {"report", "written"}
  <2>1. CASE OpenFile
    <3>1. trainer'.pc = trainer.pc
      BY <1>2, <2>1 DEF OpenFile, Trainers
    <3> QED
      BY <1>2, <3>1 DEF StepInv, PhaseInv
  <2>2. CASE CloseFile
    <3>1. PICK t : t = NextPart
      OBVIOUS
    <3>2. trainer' = t
      BY <1>2, <2>2, <3>1 DEF CloseFile
    <3> QED
      BY <1>2, <3>1, <3>2, NextPartType DEF Writes
  <2> QED
    BY <2>1, <2>2
<1>5. Production => AllComplete
  BY <1>2 DEF ReportInv, ProgressInv
<1>6. AllComplete => AllComplete'
  <2>1. \A g \in Files \ {Report, Provenance} : disk'[g] = disk[g]
    BY <1>1, <1>3
  <2> QED
    BY <1>2, <2>1, AllCompleteKept
<1>7. ProgressInv'
  BY <1>2, <1>4, <1>5, <1>6 DEF ProgressInv
<1>8. CASE trainer.pc = "provenance"
  <2>1. ReportBehindArtifacts' /\ (disk[Report].run)' = disk[Report].run /\ disk[Report].run # Last
    <3>1. \A g \in Files \ {Provenance} : disk'[g] = disk[g]
      BY <1>1, <1>3, <1>8
    <3>2. \A r \in 1..Last : (runs[r].packages)' = runs[r].packages
      BY <1>2
    <3>3. ReportBehindArtifacts' /\ (disk[Report].run)' = disk[Report].run
      BY <1>2, <3>1, <3>2, QuietKept
    <3> QED
      BY <1>2, <1>8, <3>3 DEF ReportInv, ReportedInv
  <2> QED
    BY <1>2, <1>7, <2>1 DEF ReportInv, ReportedInv
<1>9. CASE trainer.pc = "report"
  <2>1. AllComplete' /\ disk'[Report] = [run |-> Last, whole |-> whole]
    BY <1>1, <1>3, <1>5, <1>6, <1>9 DEF StepInv, PhaseInv
  <2>2. ReportedInv'
    BY <1>4, <1>9, <2>1 DEF ReportedInv
  <2>3. \A h \in ArtifactsOf(runs[Last].packages) : disk'[h] = [run |-> Last, whole |-> TRUE]
    <3>1. \A h \in ArtifactsOf(runs[Last].packages) : disk[h] = New
      BY <1>5, <1>9, AllReported DEF StepInv, PhaseInv
    <3>2. \A h \in ArtifactsOf(runs[Last].packages) : disk'[h] = disk[h]
      BY <1>1, <1>3, <1>9, Reported
    <3> QED
      BY <3>1, <3>2 DEF New
  <2>4. ReportBehindArtifacts'
    <3>1. disk'[Report].run = Last
      BY <2>1
    <3>2. \A h \in ArtifactsOf(runs[Last].packages) : disk'[h].run >= Last /\ disk'[h].whole
      BY <1>2, <2>3
    <3>3. ArtifactsOf(runs'[disk'[Report].run].packages) = ArtifactsOf(runs[Last].packages)
      BY <1>2, <3>1
    <3> QED
      BY <1>2, <3>1, <3>2, <3>3 DEF ReportBehindArtifacts, ArtifactsOf, Installed
  <2> QED
    BY <1>7, <2>2, <2>4 DEF ReportInv
<1> QED
  BY <1>2, <1>8, <1>9

LEMMA ServeReported ==
    ASSUME StepInv, DiskInv, ReportInv, Serving
    PROVE  ReportInv'
<1>1. UNCHANGED <<data, runs, trainer>> /\ Last' = Last /\ Production' = Production
      /\ Order' = Order /\ Branch' = Branch /\ BranchFiles' = BranchFiles /\ New' = New
  BY DEF Serving, Last, Production, Order, Branch, BranchFiles, New
<1>2. \A f \in Files \ {Provenance} : disk'[f] = disk[f]
  BY TypeParts DEF StepInv, Serving, Typed, DiskOK
<1>3. /\ Last > 0 /\ AllComplete => AllComplete'
      /\ \A i \in DOMAIN Trained : Last > 0 /\ Complete(i) => Complete(i)'
      /\ ReportBehindArtifacts'
      /\ (disk[Report].run)' = disk[Report].run
  <2>1. \A r \in 1..Last : (runs[r].packages)' = runs[r].packages
    BY <1>1
  <2> QED
    BY <1>1, <1>2, <2>1, QuietKept
<1>4. trainer.pc = "write" => \A k \in DOMAIN BranchFiles : disk'[BranchFiles[k]] = disk[BranchFiles[k]]
  <2>1. trainer.pc = "write" => BranchFiles = FilesOf(Branch) /\ Branch \in Branches
    BY FileType DEF StepInv
  <2> QED
    BY <1>2, <2>1, ModelFiles
<1>5. ProgressInv'
  BY <1>1, <1>3, <1>4 DEF ProgressInv, ReportInv
<1>6. ReportedInv'
  BY <1>1, <1>3 DEF ReportedInv, ReportInv
<1> QED
  BY <1>3, <1>5, <1>6 DEF ReportInv

TrainedInv == StepInv /\ TurnInv /\ DiskInv /\ DataInv /\ ReportInv

LEMMA TrainedInvHolds == Spec => []TrainedInv
<1>1. Init => ReportInv
  <2> SUFFICES ASSUME Init PROVE ReportInv
    OBVIOUS
  <2>1. Last = 0 /\ Report \in Files /\ disk[Report] = Absent
    BY DEF Init, Last, Files
  <2> QED
    BY <2>1 DEF ReportInv, ProgressInv, ReportedInv, ReportBehindArtifacts, Absent
<1>2. StepInv /\ DiskInv /\ ReportInv /\ [Next]_vars => ReportInv'
  BY StepKinds, StartReported, StopReported, GateReported, LearnReported, PassReported,
     ModelReported, EndReported, ServeReported DEF StepInv
<1> QED
  BY <1>1, <1>2, DataInvHolds, PTL DEF Spec, TrainedInv

\* A reader who finds a complete production report finds every model it names in
\* full, of the same run or of one that has begun to replace it: the report is the
\* last thing a run writes, and a later run overwrites it last.
THEOREM ReportIsLast == Spec => []ReportBehindArtifacts
<1>1. TrainedInv => ReportBehindArtifacts
  BY DEF TrainedInv, ReportInv
<1> QED
  BY <1>1, TrainedInvHolds, PTL

-----------------------------------------------------------------------------
(* What the service holds.                                                 *)

\* What each adapter would load from the disk as it is.
NamesNow == IF disk["lstm.json"].whole THEN disk["lstm.json"].run ELSE 0

LstmGiven ==
    IF Installed("lstm", service.packages) /\ disk["lstm.pt"].whole /\ Fits(disk["lstm.pt"].run, NamesNow)
    THEN Native(disk["lstm.pt"].run, NamesNow)
    ELSE FromArtifact("lstm.json")

Given(b) == IF b = "lstm" THEN LstmGiven ELSE Loaded(b)

\* As long as no file was opened since it started, that is what it holds.
ServiceInv ==
    service.pc # "down" /\ service.quiet =>
        /\ ~trainer.open
        /\ \A i \in DOMAIN Trained : i < service.next => adapters[Trained[i]] = Given(Trained[i])
        /\ service.pc = "weights" => service.named = NamesNow
        /\ service.pc = "up" /\ manager.ready => manager.booster = XgboostLoaded.run

LEMMA GivenKept ==
    ASSUME TypeOK, DiskInv, disk' = disk, (service.packages)' = service.packages,
           \A f \in Files : disk[f].run > 0 => runs'[disk[f].run].columns = runs[disk[f].run].columns
    PROVE  /\ NamesNow' = NamesNow /\ XgboostLoaded' = XgboostLoaded
           /\ \A b \in Branches : Given(b)' = Given(b)
<1>1. /\ \A f : FromModel(f)' = FromModel(f) /\ FromArtifact(f)' = FromArtifact(f)
      /\ \A b : Installed(b, service.packages)' = Installed(b, service.packages)
  BY DEF FromModel, FromArtifact, Fallback, Native, Artifact, Installed
<1>2. NamesNow' = NamesNow
  BY DEF NamesNow
<1>3. XgboostLoaded' = XgboostLoaded /\ \A b : Loaded(b)' = Loaded(b)
  BY <1>1 DEF XgboostLoaded, Loaded, ForestLoaded, FftLoaded, KitsuneLoaded, Fallback
<1>4. "lstm" \in Branches => LstmGiven' = LstmGiven
  <2> SUFFICES ASSUME "lstm" \in Branches, disk["lstm.pt"].whole
               PROVE  Fits(disk["lstm.pt"].run, NamesNow)' = Fits(disk["lstm.pt"].run, NamesNow)
    BY <1>1, <1>2 DEF LstmGiven, Native
  <2>1. /\ "lstm.pt" \in Files \ {Provenance} /\ "lstm.json" \in Files \ {Provenance}
    BY LoadedFiles DEF Provenance
  <2>2. disk["lstm.pt"].run > 0 /\ (NamesNow # 0 => NamesNow = disk["lstm.json"].run /\ NamesNow > 0)
    BY <2>1 DEF DiskInv, NamesNow
  <2>3. PICK r, n : r = disk["lstm.pt"].run /\ n = NamesNow
    OBVIOUS
  <2>4. ColumnsOf(r)' = ColumnsOf(r) /\ (n # 0 => ColumnsOf(n)' = ColumnsOf(n))
    BY <2>1, <2>2, <2>3 DEF ColumnsOf
  <2>5. Fits(r, n)' = Fits(r, n)
    BY <2>4 DEF Fits
  <2> QED
    BY <1>2, <2>3, <2>5
<1>5. ASSUME NEW b \in Branches
      PROVE  Given(b)' = Given(b)
  BY <1>3, <1>4 DEF Given
<1> QED
  BY <1>2, <1>3, <1>5

\* While the service does nothing, and no file is opened.
LEMMA ServiceWaits ==
    ASSUME TypeOK, DiskInv, ServiceInv, UNCHANGED <<disk, service, adapters, manager>>, ~trainer'.open,
           \A f \in Files : disk[f].run > 0 => runs'[disk[f].run].columns = runs[disk[f].run].columns
    PROVE  ServiceInv'
<1>1. /\ NamesNow' = NamesNow /\ XgboostLoaded' = XgboostLoaded
      /\ \A b \in Branches : Given(b)' = Given(b)
  BY GivenKept
<1> QED
  BY <1>1, NamedBranches DEF ServiceInv

LEMMA TrainerGiven ==
    ASSUME StepInv, DiskInv, ServiceInv,
           \/ \E p \in PackageSets : StartProduction(p) \/ StartSynthetic(p)
           \/ Stopping \/ Gating \/ Passing
           \/ \E c \in Contracts : ReadAndSplit(c) /\ data = "right"
    PROVE  ServiceInv'
<1>1. TypeOK /\ PhaseInv /\ Typed /\ TrainerOK /\ trainer \in Trainers
      /\ \A f \in Files : disk[f].run \in 0..Last
  BY TypeParts DEF StepInv, Typed, TrainerOK, DiskOK
<1>2. Last \in Nat
  BY <1>1 DEF Typed, RunsOK, Last
<1>3. UNCHANGED <<disk, service, adapters, manager>>
  BY DEF StartProduction, StartSynthetic, Begin, Stopping, Gating, Passing, ReadAndSplit
<1>4. \A f \in Files : disk[f].run > 0 => runs'[disk[f].run].columns = runs[disk[f].run].columns
  <2>1. CASE \E p \in PackageSets : StartProduction(p) \/ StartSynthetic(p)
    <3>1. PICK kind \in {"production", "synthetic"}, p \in PackageSets : Begin(kind, p, LabColumns)
      BY <2>1 DEF StartProduction, StartSynthetic
    <3>2. \A r \in 1..Last : runs'[r] = runs[r]
      BY <1>1, <3>1, RunBegins
    <3> QED
      BY <1>1, <1>2, <3>2
  <2>2. CASE Stopping
    <3>1. PICK how \in {"done", "stopped"} : Ends(how) /\ trainer.pc # "idle"
      BY <2>2 DEF Stopping
    <3>2. \A r \in 1..Last : runs'[r].columns = runs[r].columns
      BY <1>1, <3>1, RunEnds DEF PhaseInv
    <3> QED
      BY <1>1, <1>2, <3>2
  <2>3. CASE \E c \in Contracts : ReadAndSplit(c) /\ data = "right"
    <3>1. PICK c \in Contracts : ReadAndSplit(c) /\ data = "right"
      BY <2>3
    <3>2. Last > 0 /\ trainer.pc \in Gated
      BY <1>1, <3>1 DEF ReadAndSplit, PhaseInv, Gated
    <3>3. \A r \in 1..Last : r # Last => runs'[r] = runs[r]
      BY <1>1, <3>1, <3>2, RunLearns
    <3>4. \A f \in Files : disk[f].run < Last
      BY <3>2 DEF DiskInv
    <3> QED
      BY <1>1, <1>2, <3>3, <3>4
  <2>4. CASE Gating \/ Passing
    BY <2>4 DEF Gating, Passing
  <2> QED
    BY <2>1, <2>2, <2>3, <2>4
<1>5. ~trainer'.open
  <2>1. CASE \E p \in PackageSets : StartProduction(p) \/ StartSynthetic(p)
    BY <2>1 DEF StartProduction, StartSynthetic, Idle
  <2>2. CASE Stopping
    BY <2>2 DEF Stopping, Ends, Idle
  <2>3. CASE \E c \in Contracts : ReadAndSplit(c) /\ data = "right"
    BY <1>1, <2>3 DEF ReadAndSplit, Trainers, TrainerOK, Writing
  <2>4. CASE Gating
    <3>1. ~trainer.open
      BY <1>1, <2>4 DEF Gating, TrainerOK, Writing, Gated
    <3> QED
      BY <1>1, <2>4, <3>1 DEF Gating, Trainers, Idle
  <2>5. CASE Passing
    <3>1. PICK t : t = NextPart
      OBVIOUS
    <3> QED
      BY <2>5, <3>1, NextPartType DEF Passing
  <2> QED
    BY <2>1, <2>2, <2>3, <2>4, <2>5
<1> QED
  BY <1>1, <1>3, <1>4, <1>5, ServiceWaits

\* An adapter takes its turn, and the next follows.
LEMMA AdapterGiven ==
    ASSUME StepInv, DiskInv, ServiceInv, NEW b \in Branches, service.pc # "down",
           service.next \in DOMAIN Trained, Trained[service.next] = b,
           adapters' = [adapters EXCEPT ![b] = Given(b)], service' = Advanced,
           UNCHANGED <<data, disk, runs, trainer, manager>>
    PROVE  ServiceInv'
<1>1. TypeOK /\ adapters \in [Branches -> Adapters] /\ service.next \in Nat
      /\ DOMAIN Trained = 1..Len(Trained) /\ Len(Trained) \in Nat
  BY TypeParts, NamedBranches DEF StepInv, Typed, ServiceOK, Adapters
<1>2. service'.pc = "load" /\ service'.next = service.next + 1 /\ service'.packages = service.packages
      /\ service'.quiet = service.quiet
  <2>1. PICK m : m = service.next + 1
    OBVIOUS
  <2>2. service' = [service EXCEPT !.pc = "load", !.next = m, !.named = 0]
    BY <2>1 DEF Advanced
  <2>3. service \in [pc : {"down", "load", "weights", "up"}, next : 0..(Len(Trained) + 1),
                     packages : PackageSets \cup {{}}, quiet : BOOLEAN, named : 0..Last]
    BY <1>1 DEF TypeOK
  <2> QED
    BY <2>1, <2>2, <2>3
<1>3. \A c \in Branches : Given(c)' = Given(c)
  BY <1>1, <1>2, GivenKept
<1>4. ASSUME service.quiet, NEW i \in DOMAIN Trained, i < service.next + 1
      PROVE  adapters'[Trained[i]] = Given(Trained[i])
  <2>1. CASE i = service.next
    BY <1>1, <2>1
  <2>2. CASE i # service.next
    <3>1. Trained[i] # b /\ Trained[i] \in Branches /\ i < service.next
      BY <1>1, <1>4, <2>2, NamedBranches
    <3>2. adapters[Trained[i]] = Given(Trained[i])
      BY <1>4, <3>1 DEF ServiceInv
    <3> QED
      BY <1>1, <3>1, <3>2
  <2> QED
    BY <2>1, <2>2
<1>5. ASSUME service.quiet, NEW i \in DOMAIN Trained, i < service.next + 1
      PROVE  adapters'[Trained[i]] = Given(Trained[i])'
  BY <1>3, <1>4, <1>5, NamedBranches
<1> QED
  BY <1>2, <1>5 DEF ServiceInv

LEMMA ServiceGiven ==
    ASSUME StepInv, TurnInv, DiskInv, ServiceInv, Serving, ServiceMoves
    PROVE  ServiceInv'
<1> DEFINE Services == [pc : {"down", "load", "weights", "up"}, next : 0..(Len(Trained) + 1),
                        packages : PackageSets \cup {{}}, quiet : BOOLEAN, named : 0..Last]
<1>1. TypeOK /\ TrainerOK /\ service \in Services /\ UNCHANGED <<data, runs, trainer>>
  BY TypeParts DEF StepInv, Serving, Typed, ServiceOK
<1>2. CASE \E p \in PackageSets : StartsBare(p) \/ StartsChecked(p)
  <2>1. PICK p \in PackageSets : ServiceStarts(p)
    BY <1>2 DEF StartsBare, StartsChecked
  <2>2. PICK q \in BOOLEAN : q = ~Active
    BY DEF Active
  <2>3. service' = [pc |-> "load", next |-> 1, packages |-> p, quiet |-> q, named |-> 0]
    BY <2>1, <2>2 DEF ServiceStarts, Down
  <2>4. \A i \in DOMAIN Trained : ~(i < 1)
    BY NamedBranches
  <2>5. q => ~trainer.open
    BY <1>1, <2>2 DEF TrainerOK, Writing, Active
  <2> QED
    BY <1>1, <2>3, <2>4, <2>5 DEF ServiceInv
<1>3. CASE LoadNames
  <2>1. PICK n : n = NamesNow
    OBVIOUS
  <2>2. service' = [service EXCEPT !.pc = "weights", !.named = n]
    BY <1>3, <2>1 DEF LoadNames, NamesNow
  <2>3. /\ service'.pc = "weights" /\ service'.next = service.next /\ service'.quiet = service.quiet
        /\ service'.packages = service.packages /\ service'.named = n
    BY <1>1, <2>2
  <2>4. UNCHANGED <<disk, adapters, manager>> /\ service.pc = "load"
    BY <1>3 DEF LoadNames, Turn
  <2>5. NamesNow' = NamesNow /\ \A b \in Branches : Given(b)' = Given(b)
    BY <1>1, <2>3, <2>4, GivenKept
  <2> QED
    BY <1>1, <2>1, <2>3, <2>4, <2>5, NamedBranches DEF ServiceInv
<1>4. CASE LoadWeights
  <2>1. service.next \in DOMAIN Trained /\ Trained[service.next] = "lstm" /\ "lstm" \in Branches
        /\ Installed("lstm", service.packages) /\ service.pc = "weights"
    BY <1>4 DEF LoadWeights, TurnInv, Branches
  <2>2. CASE service.quiet
    <3>1. service.named = NamesNow
      BY <2>1, <2>2 DEF ServiceInv
    <3>2. Given("lstm") = IF disk["lstm.pt"].whole /\ Fits(disk["lstm.pt"].run, service.named)
                          THEN Native(disk["lstm.pt"].run, service.named)
                          ELSE FromArtifact("lstm.json")
      BY <2>1, <3>1 DEF Given, LstmGiven
    <3>3. adapters' = [adapters EXCEPT !["lstm"] = Given("lstm")] /\ service' = Advanced
          /\ UNCHANGED <<data, disk, runs, trainer, manager>>
      BY <1>4, <3>2 DEF LoadWeights
    <3> QED
      BY <2>1, <3>3, AdapterGiven
  <2>3. CASE ~service.quiet
    <3>1. service'.quiet = service.quiet
      BY <1>1, <1>4 DEF LoadWeights, Advanced
    <3> QED
      BY <2>3, <3>1 DEF ServiceInv
  <2> QED
    BY <2>2, <2>3
<1>5. CASE LoadWithoutNet
  <2>1. service.next \in DOMAIN Trained /\ Trained[service.next] = "lstm" /\ "lstm" \in Branches
        /\ service.pc = "load" /\ (~Installed("lstm", service.packages) \/ disk["lstm.pt"] = Absent)
    BY <1>5 DEF LoadWithoutNet, Turn, Branches
  <2>2. Given("lstm") = FromArtifact("lstm.json")
    BY <2>1 DEF Given, LstmGiven, Absent
  <2>3. adapters' = [adapters EXCEPT !["lstm"] = Given("lstm")] /\ service' = Advanced
        /\ UNCHANGED <<data, disk, runs, trainer, manager>>
    BY <1>5, <2>2 DEF LoadWithoutNet
  <2> QED
    BY <2>1, <2>3, AdapterGiven
<1>6. CASE \E b \in Branches : Load(b)
  <2>1. PICK b \in Branches : Load(b)
    BY <1>6
  <2>2. /\ service.next \in DOMAIN Trained /\ Trained[service.next] = b /\ service.pc = "load"
        /\ adapters' = [adapters EXCEPT ![b] = Given(b)] /\ service' = Advanced
        /\ UNCHANGED <<data, disk, runs, trainer, manager>>
    BY <2>1 DEF Load, Turn, Given
  <2> QED
    BY <2>2, AdapterGiven
<1>7. CASE LoadManager
  <2>1. service' = [service EXCEPT !.pc = "up"] /\ service.pc = "load"
        /\ UNCHANGED <<disk, adapters>>
    BY <1>7 DEF LoadManager
  <2>2. /\ service'.pc = "up" /\ service'.next = service.next /\ service'.quiet = service.quiet
        /\ service'.packages = service.packages
    BY <1>1, <2>1
  <2>3. XgboostLoaded' = XgboostLoaded /\ \A b \in Branches : Given(b)' = Given(b)
    BY <1>1, <2>1, <2>2, GivenKept
  <2>4. manager'.ready => manager'.booster = XgboostLoaded.run
    BY <1>7 DEF LoadManager
  <2> QED
    BY <1>1, <2>1, <2>2, <2>3, <2>4, NamedBranches DEF ServiceInv
<1>8. CASE ServiceStops
  BY <1>8 DEF ServiceStops, Down, ServiceInv
<1>9. CASE UNCHANGED vars
  BY <1>1, <1>9, ServiceWaits DEF vars, ServiceInv
<1> QED
  BY <1>2, <1>3, <1>4, <1>5, <1>6, <1>7, <1>8, <1>9 DEF ServiceMoves

\* A file that is opened or closed is none that a quiet service read.
LEMMA FileGiven ==
    ASSUME StepInv, ServiceInv, OpenFile \/ CloseFile
    PROVE  ServiceInv'
<1>1. service \in [pc : {"down", "load", "weights", "up"}, next : 0..(Len(Trained) + 1),
                   packages : PackageSets \cup {{}}, quiet : BOOLEAN, named : 0..Last]
  BY DEF StepInv, TypeOK
<1>2. CASE OpenFile
  <2>1. PICK q \in BOOLEAN : q = (service.pc = "down")
    OBVIOUS
  <2>2. service' = [service EXCEPT !.quiet = q]
    BY <1>2, <2>1 DEF OpenFile, Disturbed
  <2>3. service'.quiet = q /\ service'.pc = service.pc
    BY <1>1, <2>2
  <2> QED
    BY <2>1, <2>3 DEF ServiceInv
<1>3. CASE CloseFile
  BY <1>3 DEF CloseFile, ServiceInv
<1> QED
  BY <1>2, <1>3

ServedInv == TrainedInv /\ ServiceInv

LEMMA ServedInvHolds == Spec => []ServedInv
<1>1. Init => ServiceInv
  BY DEF Init, ServiceInv, Down
<1>2. TrainedInv /\ ServiceInv /\ [Next]_vars => ServiceInv'
  BY StepKinds, TrainerGiven, ServiceGiven, FileGiven DEF TrainedInv, StepInv
<1> QED
  BY <1>1, <1>2, TrainedInvHolds, PTL DEF Spec, ServedInv

\* Whatever ran before, crashed or was refused: after a production run that is
\* done, a service that starts serves each model of its report from that run, with
\* its library where it is installed, and feeds the LSTM the columns it learnt from.
THEOREM ServedAsReported == Spec => []ReportedModelsServed
<1>1. ServedInv => ReportedModelsServed
  <2> SUFFICES ASSUME ServedInv, service.pc = "up", service.quiet,
                      Last > 0, runs[Last].kind = "production", runs[Last].end = "done"
               PROVE  /\ \A b \in Branches : Installed(b, runs[Last].packages) =>
                            LET a      == adapters[b]
                                native == Installed(b, service.packages)
                            IN  IF b \in {"fft", "kitsune"} THEN a = Artifact(Last)
                                ELSE IF native
                                THEN a.backend = "native" /\ a.run = Last
                                     /\ ColumnsOf(a.named) = ColumnsOf(Last)
                                ELSE a \in {Artifact(Last), Fallback}
                      /\ manager.ready => manager.booster = adapters["xgboost"].run
    BY DEF ReportedModelsServed
  <2>1. AllComplete
    BY DEF ServedInv, TrainedInv, ReportInv, ProgressInv, Production
  <2>2. ASSUME NEW b \in Branches
        PROVE  adapters[b] = Given(b)
    <3>1. PICK i \in DOMAIN Trained : Trained[i] = b
      BY DEF Branches
    <3>2. i < service.next
      BY NamedBranches DEF ServedInv, TrainedInv, TurnInv
    <3> QED
      BY <3>1, <3>2 DEF ServedInv, ServiceInv
  <2>3. manager.ready => manager.booster = adapters["xgboost"].run
    <3>1. Given("xgboost") = XgboostLoaded
      BY DEF Given, Loaded
    <3> QED
      BY <2>2, <3>1, LoadedFiles DEF ServedInv, ServiceInv
  <2>4. ASSUME NEW b \in Branches, Installed(b, runs[Last].packages)
        PROVE  \A k \in DOMAIN FilesOf(b) : disk[FilesOf(b)[k]] = [run |-> Last, whole |-> TRUE]
    <3>1. PICK i \in DOMAIN Trained : Trained[i] = b
      BY DEF Branches
    <3> QED
      BY <2>1, <2>4, <3>1 DEF AllComplete, Complete, New
  <2>5. ASSUME NEW b \in Branches, Installed(b, runs[Last].packages), b \in {"fft", "kitsune"}
        PROVE  adapters[b] = Artifact(Last)
    <3>1. Given(b) = FromArtifact(FilesOf(b)[1])
      BY <2>5, LoadedFiles DEF Given, Loaded, FftLoaded, KitsuneLoaded
    <3> QED
      BY <2>2, <2>4, <2>5, <3>1, LoadedFiles DEF FromArtifact
  <2>6. ASSUME NEW b \in Branches, Installed(b, runs[Last].packages), b \in {"xgboost", "isolation_forest"}
        PROVE  adapters[b] = IF Installed(b, service.packages) THEN Native(Last, Last) ELSE Fallback
    <3>1. Given(b) = IF Installed(b, service.packages) THEN FromModel(FilesOf(b)[1]) ELSE Fallback
      BY <2>6, LoadedFiles DEF Given, Loaded, XgboostLoaded, ForestLoaded
    <3> QED
      BY <2>2, <2>4, <2>6, <3>1, LoadedFiles DEF FromModel
  <2>7. ASSUME "lstm" \in Branches, Installed("lstm", runs[Last].packages)
        PROVE  adapters["lstm"] = IF Installed("lstm", service.packages) THEN Native(Last, Last)
                                  ELSE Artifact(Last)
    <3>1. disk["lstm.pt"] = [run |-> Last, whole |-> TRUE] /\ disk["lstm.json"] = [run |-> Last, whole |-> TRUE]
      <4>1. 1 \in DOMAIN FilesOf("lstm") /\ 2 \in DOMAIN FilesOf("lstm")
        BY LoadedFiles
      <4>2. "lstm.pt" = FilesOf("lstm")[1] /\ "lstm.json" = FilesOf("lstm")[2]
        BY <2>7, LoadedFiles
      <4> QED
        BY <2>4, <2>7, <4>1, <4>2
    <3>2. NamesNow = Last /\ Fits(Last, Last)
      BY <3>1 DEF NamesNow, Fits
    <3> QED
      BY <2>2, <2>7, <3>1, <3>2 DEF Given, LstmGiven, FromArtifact
  <2>8. ASSUME NEW b \in Branches
        PROVE  b \in {"fft", "kitsune"} \cup {"xgboost", "isolation_forest"} \cup {"lstm"}
    BY NamedBranches DEF Names
  <2>9. Native(Last, Last).backend = "native" /\ Native(Last, Last).run = Last
        /\ Native(Last, Last).named = Last
    BY DEF Native
  <2> QED
    BY <2>3, <2>5, <2>6, <2>7, <2>8, <2>9
<1> QED
  BY <1>1, ServedInvHolds, PTL

=============================================================================
