--------------------------- MODULE StoreIndexProofs ---------------------------
(***************************************************************************)
(* Proofs about StoreIndex for every stride, number of records, timestamps *)
(* and prices.                                                             *)
(***************************************************************************)
EXTENDS StoreIndex, FiniteSetTheorems, IntegerLemmas

(* Least and greatest elements. *)

\* An element of a set of integers that is not above any other is its Min.
LEMMA MinIs ==
    ASSUME NEW S \in SUBSET Int, NEW x \in S, \A y \in S : x <= y
    PROVE  Min(S) = x
  <1> DEFINE Q(z) == \A y \in S : z <= y
  <1>1. Q(x)
    OBVIOUS
  <1>2. (CHOOSE z \in S : Q(z)) \in S /\ Q(CHOOSE z \in S : Q(z))
    <2> HIDE DEF Q
    <2> QED
      BY <1>1, Zenon
  <1>3. Min(S) = CHOOSE z \in S : Q(z)
    BY DEF Min
  <1>4. Min(S) \in S /\ Q(Min(S))
    BY <1>2, <1>3, Zenon
  <1>5. Min(S) <= x /\ x <= Min(S)
    BY <1>4
  <1>6. Min(S) \in Int /\ x \in Int
    BY <1>4
  <1> QED
    BY <1>5, <1>6

\* And one that is not below any other its Max.
LEMMA MaxIs ==
    ASSUME NEW S \in SUBSET Int, NEW x \in S, \A y \in S : x >= y
    PROVE  Max(S) = x
  <1> DEFINE Q(z) == \A y \in S : z >= y
  <1>1. Q(x)
    OBVIOUS
  <1>2. (CHOOSE z \in S : Q(z)) \in S /\ Q(CHOOSE z \in S : Q(z))
    <2> HIDE DEF Q
    <2> QED
      BY <1>1, Zenon
  <1>3. Max(S) = CHOOSE z \in S : Q(z)
    BY DEF Max
  <1>4. Max(S) \in S /\ Q(Max(S))
    BY <1>2, <1>3, Zenon
  <1>5. Max(S) >= x /\ x >= Max(S)
    BY <1>4
  <1>6. Max(S) \in Int /\ x \in Int
    BY <1>4
  <1> QED
    BY <1>5, <1>6

\* The lowest and highest price of records that follow each other are prices of some of them.
LEMMA PricesMin ==
    ASSUME NEW a \in Int, NEW b \in Int, a <= b, \A k \in a .. b : price[k] \in Int
    PROVE  \E k \in a .. b : /\ Min(PricesOf(a .. b)) = price[k]
                             /\ \A j \in a .. b : price[k] <= price[j]
  <1>1. PICK k \in a .. b : \A j \in a .. b : price[k] <= price[j]
    BY LeastValue
  <1>2. PricesOf(a .. b) \in SUBSET Int /\ price[k] \in PricesOf(a .. b)
    BY <1>1 DEF PricesOf
  <1>3. \A y \in PricesOf(a .. b) : price[k] <= y
    BY <1>1 DEF PricesOf
  <1> QED
    BY <1>1, <1>2, <1>3, MinIs

\* The greatest price of a range is that of one of its records.
LEMMA PricesMax ==
    ASSUME NEW a \in Int, NEW b \in Int, a <= b, \A k \in a .. b : price[k] \in Int
    PROVE  \E k \in a .. b : /\ Max(PricesOf(a .. b)) = price[k]
                             /\ \A j \in a .. b : price[k] >= price[j]
  <1>1. PICK k \in a .. b : \A j \in a .. b : price[k] >= price[j]
    BY GreatestValue
  <1>2. PricesOf(a .. b) \in SUBSET Int /\ price[k] \in PricesOf(a .. b)
    BY <1>1 DEF PricesOf
  <1>3. \A y \in PricesOf(a .. b) : price[k] >= y
    BY <1>1 DEF PricesOf
  <1> QED
    BY <1>1, <1>2, <1>3, MaxIs

\* What std::upper_bound returns on any range of integers: everything before it is at most t,
\* and what it points to is not.
LEMMA UpperBoundFacts ==
    ASSUME NEW from \in Int, NEW to \in Int, from <= to, NEW f, NEW t \in Int,
           \A k \in from .. to - 1 : f[k] \in Int
    PROVE  LET p == UpperBound(f, from, to, t)
           IN  /\ p \in from .. to
               /\ \A k \in from .. p - 1 : f[k] <= t
               /\ p < to => f[p] > t
  <1> DEFINE S == {k \in from .. to - 1 : f[k] > t} \cup {to}
  <1>1. S \in SUBSET Int /\ S # {} /\ \A x \in S : from <= x /\ x <= to
    OBVIOUS
  <1>2. PICK x \in S : \A y \in S : x <= y
    <2> HIDE DEF S
    <2> QED
      BY <1>1, LeastInteger
  <1>3. Min(S) = x
    <2> HIDE DEF S
    <2> QED
      BY <1>1, <1>2, MinIs
  <1>4. x \in from .. to /\ (x < to => f[x] > t)
    BY <1>1, <1>2
  <1>5. ASSUME NEW k \in from .. x - 1 PROVE f[k] <= t
    <2>1. k \in from .. to - 1 /\ ~(x <= k)
      BY <1>4, <1>5
    <2>2. ~(f[k] > t)
      BY <1>2, <2>1
    <2> QED
      BY <2>1, <2>2
  <1>6. UpperBound(f, from, to, t) = x
    BY <1>3 DEF UpperBound
  <1> QED
    BY <1>4, <1>5, <1>6

\* And std::lower_bound: everything before it is less than t, and what it points to is not.
LEMMA LowerBoundFacts ==
    ASSUME NEW from \in Int, NEW to \in Int, from <= to, NEW f, NEW t \in Int,
           \A k \in from .. to - 1 : f[k] \in Int
    PROVE  LET p == LowerBound(f, from, to, t)
           IN  /\ p \in from .. to
               /\ \A k \in from .. p - 1 : f[k] < t
               /\ p < to => f[p] >= t
  <1> DEFINE S == {k \in from .. to - 1 : f[k] >= t} \cup {to}
  <1>1. S \in SUBSET Int /\ S # {} /\ \A x \in S : from <= x /\ x <= to
    OBVIOUS
  <1>2. PICK x \in S : \A y \in S : x <= y
    <2> HIDE DEF S
    <2> QED
      BY <1>1, LeastInteger
  <1>3. Min(S) = x
    <2> HIDE DEF S
    <2> QED
      BY <1>1, <1>2, MinIs
  <1>4. x \in from .. to /\ (x < to => f[x] >= t)
    BY <1>1, <1>2
  <1>5. ASSUME NEW k \in from .. x - 1 PROVE f[k] < t
    <2>1. k \in from .. to - 1 /\ ~(x <= k)
      BY <1>4, <1>5
    <2>2. ~(f[k] >= t)
      BY <1>2, <2>1
    <2> QED
      BY <2>1, <2>2
  <1>6. LowerBound(f, from, to, t) = x
    BY <1>3 DEF LowerBound
  <1> QED
    BY <1>4, <1>5, <1>6

-----------------------------------------------------------------------------
(* The index. *)

\* There are as many blocks as the records need, the last one not empty.
LEMMA EntriesFacts ==
    ASSUME stride \in Nat \ {0}, count \in Nat
    PROVE  nEntries \in Nat /\ count <= nEntries * stride /\ nEntries * stride < count + stride
  <1> QED
    BY DivideUp DEF nEntries, NumOfIndexEntries

\* A block begins at a record and ends where the next one begins, or with the records.
LEMMA BlockFacts ==
    ASSUME stride \in Nat \ {0}, count \in Nat, NEW b \in Block
    PROVE  /\ b * stride \in Record
           /\ BlockEnd(b * stride) \in b * stride + 1 .. count
           /\ BlockEnd(b * stride) < count => /\ BlockEnd(b * stride) = (b + 1) * stride
                                              /\ b + 1 \in Block
           /\ BlockEnd(b * stride) <= (b + 1) * stride
  <1> DEFINE q == nEntries
  <1>1. q \in Nat /\ count <= q * stride /\ q * stride < count + stride /\ b \in Nat /\ b + 1 <= q
    BY EntriesFacts DEF Block
  <1>2. (b + 1) * stride = b * stride + stride /\ b * stride \in Nat
    BY <1>1
  <1>3. (b + 1) * stride <= q * stride
    <2> HIDE DEF q
    <2>1. q - (b + 1) \in Nat /\ q = (q - (b + 1)) + (b + 1)
      BY <1>1
    <2>2. (q - (b + 1)) * stride \in Nat
      BY <2>1
    <2>3. q * stride = (q - (b + 1)) * stride + (b + 1) * stride
      BY <1>1, <2>1
    <2> QED
      BY <2>2, <2>3, <1>2
  <1>4. q * stride \in Nat /\ (b + 1 = q => (b + 1) * stride = q * stride)
    BY <1>1
  <1> HIDE DEF q
  <1>5. b * stride \in Record
    BY <1>1, <1>2, <1>3, <1>4 DEF Record
  <1>6. BlockEnd(b * stride) \in b * stride + 1 .. count /\ BlockEnd(b * stride) <= (b + 1) * stride
    BY <1>2, <1>5 DEF BlockEnd, Lesser, Record
  <1>7. ASSUME BlockEnd(b * stride) < count
        PROVE  BlockEnd(b * stride) = (b + 1) * stride /\ b + 1 \in Block
    <2>1. BlockEnd(b * stride) = (b + 1) * stride
      BY <1>2, <1>7 DEF BlockEnd, Lesser
    <2>2. (b + 1) * stride < q * stride
      BY <1>1, <1>2, <1>4, <1>7, <2>1
    <2>3. b + 1 # q
      BY <1>4, <2>2
    <2> QED
      BY <1>1, <2>1, <2>3 DEF Block, q
  <1> QED
    BY <1>5, <1>6, <1>7

\* The timestamps of an accepted instrument ascend from any record to any later one.
LEMMA TimesAscend ==
    ASSUME NEW c \in Nat, NEW f, \A k \in 0 .. c - 1 : f[k] \in Int, \A k \in 1 .. c - 1 : f[k - 1] < f[k]
    PROVE  \A j, k \in 0 .. c - 1 : j < k => f[j] < f[k]
  <1> DEFINE S == {m \in Nat : \A j \in 0 .. c - 1 : j + m + 1 < c => f[j] < f[j + m + 1]}
  <1>1. 0 \in S
    <2>1. ASSUME NEW j \in 0 .. c - 1, j + 0 + 1 < c PROVE f[j] < f[j + 0 + 1]
      <3>1. j + 1 \in 1 .. c - 1 /\ (j + 1) - 1 = j /\ j + 0 + 1 = j + 1
        BY <2>1
      <3> QED
        BY <3>1
    <2> QED
      BY <2>1
  <1>2. ASSUME NEW m \in Nat, m \in S PROVE m + 1 \in S
    <2>1. ASSUME NEW j \in 0 .. c - 1, j + (m + 1) + 1 < c PROVE f[j] < f[j + (m + 1) + 1]
      <3> DEFINE k == j + m + 1
      <3>1. k \in 0 .. c - 1 /\ k + 1 \in 1 .. c - 1 /\ k + 1 \in 0 .. c - 1 /\ (k + 1) - 1 = k
        BY <2>1
      <3>2. j + (m + 1) + 1 = k + 1
        OBVIOUS
      <3>3. f[j] < f[k]
        BY <1>2, <3>1
      <3> HIDE DEF k
      <3>4. f[k] < f[k + 1]
        BY <3>1
      <3>5. f[j] < f[k + 1]
        BY <3>1, <3>3, <3>4
      <3> QED
        BY <3>2, <3>5
    <2> QED
      BY <2>1
  <1>3. Nat \subseteq S
    <2> HIDE DEF S
    <2> QED
      BY <1>1, <1>2, NaturalsIn
  <1>4. ASSUME NEW j \in 0 .. c - 1, NEW k \in 0 .. c - 1, j < k PROVE f[j] < f[k]
    <2>1. k - j - 1 \in Nat /\ j + (k - j - 1) + 1 = k
      BY <1>4
    <2>2. k - j - 1 \in S
      BY <1>3, <2>1
    <2>3. j + (k - j - 1) + 1 < c => f[j] < f[j + (k - j - 1) + 1]
      BY <2>2
    <2> QED
      BY <2>1, <2>3
  <1> QED
    BY <1>4

\* A block number is a block's exactly if a record begins it.
LEMMA BlockOfRecord ==
    ASSUME stride \in Nat \ {0}, count \in Nat, NEW b \in 0 .. nEntries
    PROVE  b * stride < count <=> b \in Block
  <1> DEFINE q == nEntries
  <1>1. q \in Nat /\ count <= q * stride
    BY EntriesFacts
  <1>2. b = q => b * stride = q * stride
    OBVIOUS
  <1>3. q * stride \in Nat
    BY <1>1
  <1>4. b * stride < count => b # q
    BY <1>1, <1>2, <1>3
  <1>5. b # q => b \in Block
    BY <1>1 DEF Block
  <1>6. b \in Block => b * stride < count
    BY BlockFacts DEF Record
  <1> QED
    BY <1>4, <1>5, <1>6

\* No block has been filled.
LEMMA IndexInit == Init => IndexInv
  <1> SUFFICES ASSUME Init PROVE IndexInv
    OBVIOUS
  <1>1. PICK c \in 0 .. MaxRecords :
            /\ time \in {f \in [0 .. c - 1 -> Times] : \A k \in 1 .. c - 1 : f[k - 1] < f[k]}
            /\ price \in [0 .. c - 1 -> Prices]
    BY DEF Init
  <1>2. c \in Nat /\ DOMAIN time = 0 .. c - 1
    BY <1>1, MaxRecordsNat
  <1>3. count = c
    BY <1>2, FS_Interval, 0 \in Int, c - 1 \in Int DEF count
  <1>4. Record = 0 .. c - 1
    BY <1>3 DEF Record
  <1>5. time \in [Record -> Times] /\ price \in [Record -> Prices] /\ count \in Nat
    BY <1>1, <1>2, <1>3, <1>4
  <1>6. \A j, k \in Record : j < k => time[j] < time[k]
    <2>1. \A k \in 0 .. c - 1 : time[k] \in Int
      BY <1>1, TimesPricesInt
    <2>2. \A k \in 1 .. c - 1 : time[k - 1] < time[k]
      BY <1>1
    <2> QED
      BY <1>2, <1>4, <2>1, <2>2, TimesAscend
  <1>7. stride \in Strides /\ stride \in Nat \ {0} /\ i = 0 /\ at = 0
        /\ DOMAIN sparse = Block /\ DOMAIN ranges = Block
    BY StridesPositive DEF Init
  <1>8. at \in 0 .. nEntries /\ i = at * stride
    BY <1>5, <1>7, EntriesFacts
  <1> QED
    BY <1>5, <1>6, <1>7, <1>8 DEF IndexInv

\* One turn fills the block at hand from its records and leaves the others.
LEMMA IndexBlockKeeps == IndexInv /\ IndexBlock => IndexInv'
  <1> SUFFICES ASSUME IndexInv, IndexBlock PROVE IndexInv'
    OBVIOUS
  <1>1. stride' = stride /\ time' = time /\ price' = price
    BY DEF IndexBlock
  <1>2. count' = count
    BY <1>1 DEF count
  <1>3. Record' = Record /\ nEntries' = nEntries
    BY <1>1, <1>2 DEF Record, nEntries
  <1>4. Block' = Block
    BY <1>3 DEF Block
  <1>5. stride \in Nat \ {0} /\ count \in Nat /\ nEntries \in Nat
    BY StridesPositive, EntriesFacts DEF IndexInv
  <1>6. at \in Block /\ at \in Nat
    BY <1>5, BlockOfRecord DEF IndexInv, IndexBlock
  <1>7. at' = at + 1 /\ at' \in 0 .. nEntries /\ i' = at' * stride
    <2>1. at' = at + 1 /\ i' = at * stride + stride
      BY DEF IndexInv, IndexBlock
    <2>2. (at + 1) * stride = at * stride + stride
      BY <1>5, <1>6
    <2> QED
      BY <1>5, <1>6, <2>1, <2>2 DEF Block
  <1>8. i .. Lesser(i + stride, count) - 1 = RecordsOf(at)
    BY DEF IndexInv, RecordsOf, BlockEnd
  <1>9. /\ sparse' = [sparse EXCEPT ![at] = time[at * stride]]
         /\ ranges' = [ranges EXCEPT ![at] =
                [minPrice |-> Min(PricesOf(RecordsOf(at))), maxPrice |-> Max(PricesOf(RecordsOf(at)))]]
    BY <1>8 DEF IndexInv, IndexBlock
  <1>10. ASSUME NEW b \in 0 .. at' - 1
         PROVE  /\ sparse'[b] = time[b * stride]
                /\ ranges'[b] = [minPrice |-> Min(PricesOf(RecordsOf(b))), maxPrice |-> Max(PricesOf(RecordsOf(b)))]
    <2>1. b \in Block /\ (b = at \/ b \in 0 .. at - 1)
      BY <1>5, <1>6, <1>7 DEF Block
    <2>2. CASE b = at
      BY <1>6, <1>9, <2>2 DEF IndexInv
    <2>3. CASE b # at
      BY <1>6, <1>9, <2>1, <2>3 DEF IndexInv
    <2> QED
      BY <2>2, <2>3
  <1>11. DOMAIN sparse' = Block' /\ DOMAIN ranges' = Block'
    BY <1>4, <1>9 DEF IndexInv
  <1>12. \A b \in 0 .. at' - 1 :
            /\ sparse'[b] = time'[b * stride']
            /\ ranges'[b] = [minPrice |-> Min(PricesOf(RecordsOf(b))'), maxPrice |-> Max(PricesOf(RecordsOf(b))')]
    <2>1. \A b \in 0 .. at' - 1 : PricesOf(RecordsOf(b))' = PricesOf(RecordsOf(b))
      BY <1>1, <1>2 DEF PricesOf, RecordsOf, BlockEnd
    <2> QED
      BY <1>1, <1>10, <2>1
  <1>13. /\ stride' \in Strides /\ count' \in Nat
         /\ time' \in [Record' -> Times] /\ price' \in [Record' -> Prices]
         /\ \A j, k \in Record' : j < k => time'[j] < time'[k]
    BY <1>1, <1>2, <1>3 DEF IndexInv
  <1> QED
    BY <1>3, <1>7, <1>1, <1>11, <1>12, <1>13 DEF IndexInv

\* The invariant speaks of the variables only.
LEMMA IndexStutter == IndexInv /\ UNCHANGED indexVars => IndexInv'
  <1> SUFFICES ASSUME IndexInv, UNCHANGED indexVars PROVE IndexInv'
    OBVIOUS
  <1>1. UNCHANGED <<stride, time, price, i, at, sparse, ranges>>
    BY DEF indexVars
  <1>2. count' = count
    BY <1>1 DEF count
  <1>3. Record' = Record /\ nEntries' = nEntries /\ Block' = Block
    BY <1>1, <1>2 DEF Record, Block, nEntries
  <1>4. \A b \in 0 .. at - 1 : PricesOf(RecordsOf(b))' = PricesOf(RecordsOf(b))
    BY <1>1, <1>2 DEF PricesOf, RecordsOf, BlockEnd
  <1> QED
    BY <1>1, <1>2, <1>3, <1>4 DEF IndexInv

\* The blocks filled so far are those of their records.
LEMMA IndexInvariant == Spec => []IndexInv
  <1>1. IndexInv /\ [Next]_indexVars => IndexInv'
    BY IndexBlockKeeps, IndexStutter DEF Next, Serve
  <1> QED
    BY <1>1, IndexInit, PTL DEF Spec

-----------------------------------------------------------------------------
(* The lookups. *)

\* When the loop is over every block has its entry.
LEMMA IndexComplete ==
    ASSUME IndexInv, Indexed
    PROVE  /\ stride \in Nat \ {0} /\ count \in Nat /\ nEntries \in Nat
           /\ \A k \in Record : time[k] \in Int /\ price[k] \in Int
           /\ \A j, k \in Record : j < k => time[j] < time[k]
           /\ \A b \in Block :
                 /\ b * stride \in Record /\ sparse[b] = time[b * stride]
                 /\ ranges[b] = [minPrice |-> Min(PricesOf(RecordsOf(b))),
                                 maxPrice |-> Max(PricesOf(RecordsOf(b)))]
  <1>1. stride \in Nat \ {0} /\ count \in Nat /\ nEntries \in Nat
    BY StridesPositive, EntriesFacts DEF IndexInv
  <1>2. \A k \in Record : time[k] \in Int /\ price[k] \in Int
    BY TimesPricesInt DEF IndexInv
  <1>3. \A b \in Block : b * stride \in Record
    BY <1>1, BlockFacts
  <1>4. at \in 0 .. nEntries /\ ~(at * stride < count)
    <2>1. at \in 0 .. nEntries /\ i = at * stride /\ i >= count
      BY DEF IndexInv, Indexed
    <2>2. at * stride \in Int
      BY <1>1, <2>1
    <2> QED
      BY <1>1, <2>1, <2>2
  <1>5. at = nEntries
    <2>1. at \notin Block
      BY <1>1, <1>4, BlockOfRecord
    <2> QED
      BY <1>1, <1>4, <2>1 DEF Block
  <1> QED
    BY <1>1, <1>2, <1>3, <1>5 DEF IndexInv, Block

\* The block a search has ended in is b: the record that begins it is on this side of t, the one
\* that begins the next is not.  The search within the block ends where one of all records would.
LEMMA LastWithin ==
    ASSUME IndexInv, Indexed, NEW t \in Int, NEW b \in Block, time[b * stride] <= t,
           b + 1 \in Block => time[(b + 1) * stride] > t
    PROVE  LET p == UpperBound(time, b * stride, BlockEnd(b * stride), t)
           IN  /\ p - 1 \in Record /\ time[p - 1] <= t
               /\ \A k \in Record : time[k] <= t => k <= p - 1
  <1> DEFINE lo == b * stride
             hi == BlockEnd(b * stride)
             p == UpperBound(time, lo, hi, t)
  <1>1. /\ stride \in Nat \ {0} /\ count \in Nat
        /\ \A k \in Record : time[k] \in Int
        /\ \A j, k \in Record : j < k => time[j] < time[k]
    BY IndexComplete
  <1>2. lo \in Record /\ hi \in lo + 1 .. count /\ (hi < count => hi = (b + 1) * stride /\ b + 1 \in Block)
    BY <1>1, BlockFacts
  <1>3. (b + 1) * stride \in Int
    BY <1>1 DEF Block
  <1>4. time[lo] <= t
    OBVIOUS
  <1> HIDE DEF lo, hi
  <1>5. lo \in Int /\ hi \in Int /\ lo <= hi /\ \A k \in lo .. hi - 1 : k \in Record
    BY <1>1, <1>2 DEF Record
  <1>6. p \in lo .. hi /\ (\A k \in lo .. p - 1 : time[k] <= t) /\ (p < hi => time[p] > t)
    <2>1. \A k \in lo .. hi - 1 : time[k] \in Int
      BY <1>1, <1>5
    <2> QED
      BY <1>5, <2>1, UpperBoundFacts
  <1> HIDE DEF p
  <1>7. p # lo
    <2>1. ASSUME p = lo PROVE FALSE
      <3>1. lo < hi /\ lo \in Record
        BY <1>1, <1>2 DEF Record
      <3>2. time[lo] > t /\ time[lo] \in Int
        BY <1>1, <1>6, <2>1, <3>1
      <3> QED
        BY <1>4, <3>2
    <2> QED
      BY <2>1
  <1>8. p \in Int /\ p - 1 \in lo .. p - 1 /\ p - 1 \in lo .. hi - 1
    BY <1>5, <1>6, <1>7
  <1>9. p - 1 \in Record /\ time[p - 1] <= t
    BY <1>5, <1>6, <1>8
  <1>10. p \in Record => time[p] > t
    <2>1. CASE p < hi
      BY <1>6, <2>1
    <2>2. CASE p = hi /\ p \in Record
      <3>1. hi < count
        BY <1>1, <2>2 DEF Record
      <3> QED
        BY <1>2, <2>2, <3>1
    <2> QED
      BY <1>5, <1>6, <2>1, <2>2
  <1>11. ASSUME NEW k \in Record, time[k] <= t PROVE k <= p - 1
    <2>1. SUFFICES ASSUME p <= k PROVE FALSE
      BY <1>1, <1>8 DEF Record
    <2>2. p \in Record
      BY <1>1, <1>5, <1>8, <1>9, <2>1 DEF Record
    <2>3. time[p] \in Int /\ time[k] \in Int /\ time[p] <= time[k]
      BY <1>1, <1>8, <2>1, <2>2 DEF Record
    <2> QED
      BY <1>10, <1>11, <2>2, <2>3
  <1> QED
    BY <1>9, <1>11 DEF p, lo, hi

\* A block that begins before t, with the next at or after it, holds the first record at or after
\* t, if any does; otherwise its end is that record.
LEMMA FirstWithin ==
    ASSUME IndexInv, Indexed, NEW t \in Int, NEW b \in Block, time[b * stride] < t,
           b + 1 \in Block => time[(b + 1) * stride] >= t
    PROVE  LET p == LowerBound(time, b * stride, BlockEnd(b * stride), t)
           IN  /\ p \in 0 .. count /\ (p \in Record => time[p] >= t)
               /\ \A k \in Record : time[k] >= t => p <= k
  <1> DEFINE lo == b * stride
             hi == BlockEnd(b * stride)
             p == LowerBound(time, lo, hi, t)
  <1>1. /\ stride \in Nat \ {0} /\ count \in Nat
        /\ \A k \in Record : time[k] \in Int
        /\ \A j, k \in Record : j < k => time[j] < time[k]
    BY IndexComplete
  <1>2. lo \in Record /\ hi \in lo + 1 .. count /\ (hi < count => hi = (b + 1) * stride /\ b + 1 \in Block)
    BY <1>1, BlockFacts
  <1>3. time[lo] < t
    OBVIOUS
  <1> HIDE DEF lo, hi
  <1>4. lo \in Int /\ hi \in Int /\ lo <= hi /\ \A k \in lo .. hi - 1 : k \in Record
    BY <1>1, <1>2 DEF Record
  <1>5. p \in lo .. hi /\ (\A k \in lo .. p - 1 : time[k] < t) /\ (p < hi => time[p] >= t)
    <2>1. \A k \in lo .. hi - 1 : time[k] \in Int
      BY <1>1, <1>4
    <2> QED
      BY <1>4, <2>1, LowerBoundFacts
  <1> HIDE DEF p
  <1>6. p \in 0 .. count
    BY <1>1, <1>2, <1>4, <1>5 DEF Record
  <1>7. p \in Record => time[p] >= t
    <2>1. CASE p < hi
      BY <1>5, <2>1
    <2>2. CASE p = hi /\ p \in Record
      <3>1. hi < count
        BY <1>1, <2>2 DEF Record
      <3> QED
        BY <1>2, <2>2, <3>1
    <2> QED
      BY <1>4, <1>5, <2>1, <2>2
  <1>8. ASSUME NEW k \in Record, time[k] >= t PROVE p <= k
    <2>1. SUFFICES ASSUME k < p PROVE FALSE
      BY <1>1, <1>6 DEF Record
    <2>2. CASE k < lo
      <3>1. time[k] < time[lo] /\ time[k] \in Int /\ time[lo] \in Int
        BY <1>1, <1>2, <2>2
      <3> QED
        BY <1>3, <1>8, <3>1
    <2>3. CASE lo <= k
      <3>1. k \in lo .. p - 1 /\ time[k] \in Int
        BY <1>1, <1>4, <1>6, <2>1, <2>3 DEF Record
      <3>2. time[k] < t
        BY <1>5, <3>1
      <3> QED
        BY <1>8, <3>1, <3>2
    <2> QED
      BY <1>4, <2>2, <2>3 DEF Record
  <1> QED
    BY <1>6, <1>7, <1>8 DEF p, lo, hi

\* The last record at or before t is found, and -1 returned exactly if there is none.
LEMMA LastFound ==
    ASSUME IndexInv, Indexed, NEW t \in Int
    PROVE  LET last == LastAtOrBefore(t)
           IN  \/ last = -1 /\ Before(t) = {}
               \/ last \in Before(t) /\ \A k \in Before(t) : last >= k
  <1> DEFINE after == UpperBound(sparse, 0, nEntries, t)
             lo == (after - 1) * stride
             p == UpperBound(time, lo, BlockEnd(lo), t)
  <1>1. /\ stride \in Nat \ {0} /\ count \in Nat /\ nEntries \in Nat
        /\ \A k \in Record : time[k] \in Int
        /\ \A j, k \in Record : j < k => time[j] < time[k]
        /\ \A b \in Block : b * stride \in Record /\ sparse[b] = time[b * stride]
    BY IndexComplete
  <1>2. /\ after \in 0 .. nEntries
        /\ \A k \in 0 .. after - 1 : sparse[k] <= t
        /\ after < nEntries => sparse[after] > t
    <2>1. \A k \in 0 .. nEntries - 1 : sparse[k] \in Int
      BY <1>1 DEF Block
    <2> QED
      BY <1>1, <2>1, UpperBoundFacts
  <1>3. LastAtOrBefore(t) = IF count = 0 \/ after = 0 THEN -1 ELSE p - 1
    BY DEF LastAtOrBefore
  <1>4. CASE count = 0
    <2>1. Before(t) = {}
      BY <1>4 DEF Before, Record
    <2> QED
      BY <1>3, <1>4, <2>1
  <1>5. CASE count # 0 /\ after = 0
    <2>1. 0 \in Block
      <3>1. 0 * stride < count /\ 0 \in 0 .. nEntries
        BY <1>1, <1>5
      <3> QED
        BY <1>1, <3>1, BlockOfRecord
    <2>2. time[0] > t /\ 0 \in Record /\ time[0] \in Int
      <3>1. sparse[0] > t /\ 0 * stride = 0
        BY <1>1, <1>2, <1>5, <2>1 DEF Block
      <3> QED
        BY <1>1, <2>1, <3>1
    <2>3. ASSUME NEW k \in Record PROVE ~(time[k] <= t)
      <3>1. time[0] <= time[k] /\ time[k] \in Int
        BY <1>1, <2>2 DEF Record
      <3> QED
        BY <2>2, <3>1
    <2> QED
      BY <1>3, <1>5, <2>3 DEF Before
  <1>6. CASE count # 0 /\ after # 0
    <2> DEFINE b == after - 1
    <2>1. b \in Block /\ b + 1 = after /\ b \in 0 .. after - 1
      BY <1>1, <1>2, <1>6 DEF Block
    <2>2. time[b * stride] <= t
      BY <1>1, <1>2, <2>1
    <2>3. b + 1 \in Block => time[(b + 1) * stride] > t
      BY <1>1, <1>2, <2>1 DEF Block
    <2> HIDE DEF after
    <2>4. p - 1 \in Record /\ time[p - 1] <= t /\ \A k \in Record : time[k] <= t => k <= p - 1
      BY <2>1, <2>2, <2>3, LastWithin
    <2> HIDE DEF p
    <2>5. p - 1 \in Before(t) /\ \A k \in Before(t) : p - 1 >= k
      BY <1>1, <2>4 DEF Before, Record
    <2> QED
      BY <1>3, <1>6, <2>5
  <1> QED
    BY <1>4, <1>5, <1>6

\* And the first one at or after t.
LEMMA FirstFound ==
    ASSUME IndexInv, Indexed, NEW t \in Int
    PROVE  LET first == FirstAtOrAfter(t)
           IN  \/ first = -1 /\ After(t) = {}
               \/ first \in After(t) /\ \A k \in After(t) : first <= k
  <1> DEFINE fst == LowerBound(sparse, 0, nEntries, t)
             lo == (fst - 1) * stride
             p == LowerBound(time, lo, BlockEnd(lo), t)
  <1>1. /\ stride \in Nat \ {0} /\ count \in Nat /\ nEntries \in Nat
        /\ \A k \in Record : time[k] \in Int
        /\ \A j, k \in Record : j < k => time[j] < time[k]
        /\ \A b \in Block : b * stride \in Record /\ sparse[b] = time[b * stride]
    BY IndexComplete
  <1>2. /\ fst \in 0 .. nEntries
        /\ \A k \in 0 .. fst - 1 : sparse[k] < t
        /\ fst < nEntries => sparse[fst] >= t
    <2>1. \A k \in 0 .. nEntries - 1 : sparse[k] \in Int
      BY <1>1 DEF Block
    <2> QED
      BY <1>1, <2>1, LowerBoundFacts
  <1>3. FirstAtOrAfter(t) = IF count = 0 THEN -1
                            ELSE IF fst = 0 THEN 0
                            ELSE IF p = count THEN -1 ELSE p
    BY DEF FirstAtOrAfter
  <1>4. CASE count = 0
    <2>1. After(t) = {}
      BY <1>4 DEF After, Record
    <2> QED
      BY <1>3, <1>4, <2>1
  <1>5. CASE count # 0 /\ fst = 0
    <2>1. 0 \in Block
      <3>1. 0 * stride < count /\ 0 \in 0 .. nEntries
        BY <1>1, <1>5
      <3> QED
        BY <1>1, <3>1, BlockOfRecord
    <2>2. time[0] >= t /\ 0 \in Record
      <3>1. sparse[0] >= t /\ 0 * stride = 0
        BY <1>1, <1>2, <1>5, <2>1 DEF Block
      <3> QED
        BY <1>1, <2>1, <3>1
    <2>3. 0 \in After(t) /\ \A k \in After(t) : 0 <= k
      BY <1>1, <2>2 DEF After, Record
    <2> QED
      BY <1>3, <1>5, <2>3
  <1>6. CASE count # 0 /\ fst # 0
    <2> DEFINE b == fst - 1
    <2>1. b \in Block /\ b + 1 = fst /\ b \in 0 .. fst - 1
      BY <1>1, <1>2, <1>6 DEF Block
    <2>2. time[b * stride] < t
      BY <1>1, <1>2, <2>1
    <2>3. b + 1 \in Block => time[(b + 1) * stride] >= t
      BY <1>1, <1>2, <2>1 DEF Block
    <2> HIDE DEF fst
    <2>4. p \in 0 .. count /\ (p \in Record => time[p] >= t) /\ \A k \in Record : time[k] >= t => p <= k
      BY <2>1, <2>2, <2>3, FirstWithin
    <2> HIDE DEF p
    <2>5. CASE p = count
      <3>1. After(t) = {}
        BY <1>1, <2>4, <2>5 DEF After, Record
      <3> QED
        BY <1>3, <1>6, <2>5, <3>1
    <2>6. CASE p # count
      <3>1. p \in After(t) /\ \A k \in After(t) : p <= k
        BY <1>1, <2>4, <2>6 DEF After, Record
      <3> QED
        BY <1>3, <1>6, <2>6, <3>1
    <2> QED
      BY <2>5, <2>6
  <1> QED
    BY <1>4, <1>5, <1>6

\* The two-level search of Store finds what a scan of all records would, for every stride and
\* however many records the last block has.
THEOREM StoreSnapsExact == Spec => []SnapsExact
  <1>1. IndexInv => SnapsExact
    <2> SUFFICES ASSUME IndexInv, Indexed, NEW t \in Times
                 PROVE  /\ LastAtOrBefore(t) = IF Before(t) = {} THEN -1 ELSE Max(Before(t))
                        /\ FirstAtOrAfter(t) = IF After(t) = {} THEN -1 ELSE Min(After(t))
      BY DEF SnapsExact
    <2>1. t \in Int /\ count \in Nat
      BY TimesPricesInt DEF IndexInv
    <2>2. Before(t) \in SUBSET Int /\ After(t) \in SUBSET Int
      BY <2>1 DEF Before, After, Record
    <2>3. LastAtOrBefore(t) = IF Before(t) = {} THEN -1 ELSE Max(Before(t))
      <3>1. CASE LastAtOrBefore(t) = -1 /\ Before(t) = {}
        BY <3>1
      <3>2. CASE LastAtOrBefore(t) \in Before(t) /\ \A k \in Before(t) : LastAtOrBefore(t) >= k
        BY <2>2, <3>2, MaxIs
      <3> QED
        BY <2>1, <3>1, <3>2, LastFound
    <2>4. FirstAtOrAfter(t) = IF After(t) = {} THEN -1 ELSE Min(After(t))
      <3>1. CASE FirstAtOrAfter(t) = -1 /\ After(t) = {}
        BY <3>1
      <3>2. CASE FirstAtOrAfter(t) \in After(t) /\ \A k \in After(t) : FirstAtOrAfter(t) <= k
        BY <2>2, <3>2, MinIs
      <3> QED
        BY <2>1, <3>1, <3>2, FirstFound
    <2> QED
      BY <2>3, <2>4
  <1> QED
    BY <1>1, IndexInvariant, PTL

-----------------------------------------------------------------------------
(* The extrema. *)

\* A block boundary divided by the length of a block is the number of the block.
LEMMA BoundaryBlock ==
    ASSUME NEW unit \in Nat \ {0}, NEW b \in Nat
    PROVE  (b * unit) \div unit = b
  <1> DEFINE q == (b * unit) \div unit
  <1>1. b * unit \in Nat
    OBVIOUS
  <1>2. q \in Nat /\ q * unit <= b * unit /\ b * unit < q * unit + unit
    BY <1>1, DivideDown
  <1> HIDE DEF q
  <1>3. ASSUME q + 1 <= b PROVE FALSE
    <2>1. (b - (q + 1)) * unit \in Nat
      BY <1>2, <1>3
    <2>2. b * unit = (b - (q + 1)) * unit + q * unit + unit
      BY <1>2
    <2> QED
      BY <1>1, <1>2, <2>1, <2>2
  <1>4. ASSUME b + 1 <= q PROVE FALSE
    <2>1. (q - (b + 1)) * unit \in Nat
      BY <1>2, <1>4
    <2>2. q * unit = (q - (b + 1)) * unit + b * unit + unit
      BY <1>2
    <2> QED
      BY <1>1, <1>2, <2>1, <2>2
  <1>5. q = b
    BY <1>2, <1>3, <1>4
  <1> QED
    BY <1>5 DEF q

\* Multiples keep the order of what they are multiples of.
LEMMA MultiplesOrdered ==
    ASSUME NEW unit \in Nat \ {0}, NEW a \in Nat, NEW b \in Nat, a <= b
    PROVE  a * unit <= b * unit
  <1>1. (b - a) * unit \in Nat
    OBVIOUS
  <1>2. b * unit = (b - a) * unit + a * unit
    OBVIOUS
  <1> QED
    BY <1>1, <1>2

\* The blocks inside a range and its ragged ends have the records of the range and no others.
LEMMA ExtremaCover ==
    ASSUME IndexInv, Indexed, NEW end \in 1 .. count, NEW begin \in 0 .. end - 1
    PROVE  /\ \A b \in Inside(begin, end) : b \in Block /\ RecordsOf(b) \subseteq begin .. end - 1
           /\ Ragged(begin, end) \subseteq begin .. end - 1
           /\ \A k \in begin .. end - 1 :
                 k \in Ragged(begin, end) \/ \E b \in Inside(begin, end) : k \in RecordsOf(b)
  <1> DEFINE h == (begin + stride - 1) \div stride
             l == end \div stride
  <1>1. stride \in Nat \ {0} /\ count \in Nat /\ nEntries \in Nat
    BY IndexComplete
  <1>2. begin \in Nat /\ end \in Nat /\ begin < end /\ end <= count
    BY <1>1
  <1>3. h \in Nat /\ begin <= h * stride /\ h * stride < begin + stride
    BY <1>1, <1>2, DivideUp
  <1>4. l \in Nat /\ l * stride <= end /\ end < l * stride + stride
    BY <1>1, <1>2, DivideDown
  <1>5. HeadEnd(begin) = h * stride /\ TailStart(end) = l * stride
    BY DEF HeadEnd, TailStart
  <1> HIDE DEF h, l
  <1>6. h * stride \in Nat /\ l * stride \in Nat
    BY <1>1, <1>3, <1>4
  <1>7. Inside(begin, end) = h .. l - 1
    BY <1>1, <1>3, <1>4, <1>5, BoundaryBlock DEF Inside
  <1>8. ASSUME NEW b \in h .. l - 1
        PROVE  /\ b \in Block /\ b \in Nat /\ h * stride <= b * stride
               /\ BlockEnd(b * stride) = (b + 1) * stride /\ (b + 1) * stride <= l * stride
               /\ (b + 1) * stride = b * stride + stride
    <2>1. b \in Nat /\ b + 1 \in Nat /\ h <= b /\ b + 1 <= l
      BY <1>3, <1>4
    <2>2. h * stride <= b * stride /\ (b + 1) * stride <= l * stride
      BY <1>1, <1>3, <1>4, <2>1, MultiplesOrdered
    <2>3. (b + 1) * stride = b * stride + stride /\ b * stride \in Nat
      BY <1>1, <2>1
    <2>4. b * stride < count /\ BlockEnd(b * stride) = (b + 1) * stride
      BY <1>1, <1>2, <1>4, <1>6, <2>2, <2>3 DEF BlockEnd, Lesser
    <2>5. b < nEntries
      <3>1. ASSUME nEntries <= b PROVE FALSE
        <4>1. nEntries * stride <= b * stride
          BY <1>1, <2>1, <3>1, MultiplesOrdered
        <4>2. count <= nEntries * stride /\ nEntries * stride \in Nat
          BY <1>1, EntriesFacts
        <4> QED
          BY <1>1, <2>3, <2>4, <4>1, <4>2
      <3> QED
        BY <1>1, <2>1, <3>1
    <2> QED
      BY <1>1, <2>1, <2>2, <2>3, <2>4, <2>5 DEF Block
  <1>9. ASSUME NEW b \in Inside(begin, end) PROVE b \in Block /\ RecordsOf(b) \subseteq begin .. end - 1
    <2>1. b \in h .. l - 1
      BY <1>7, <1>9
    <2>2. b \in Block /\ h * stride <= b * stride /\ b * stride \in Int
          /\ BlockEnd(b * stride) <= l * stride /\ BlockEnd(b * stride) \in Int
      BY <1>1, <1>8, <2>1
    <2>3. begin <= b * stride /\ BlockEnd(b * stride) <= end
      BY <1>2, <1>3, <1>4, <1>6, <2>2
    <2> QED
      BY <1>2, <2>2, <2>3 DEF RecordsOf
  <1>10. Ragged(begin, end) \subseteq begin .. end - 1
    <2>1. CASE h * stride >= l * stride
      BY <1>5, <2>1 DEF Ragged
    <2>2. CASE ~(h * stride >= l * stride)
      BY <1>2, <1>3, <1>4, <1>5, <1>6, <2>2 DEF Ragged
    <2> QED
      BY <2>1, <2>2
  <1>11. ASSUME NEW k \in begin .. end - 1, k \notin Ragged(begin, end)
         PROVE  \E b \in Inside(begin, end) : k \in RecordsOf(b)
    <2>1. h * stride <= k /\ k < l * stride /\ k \in Nat
      BY <1>2, <1>5, <1>6, <1>11 DEF Ragged
    <2> DEFINE b == k \div stride
    <2>2. b \in Nat /\ b * stride <= k /\ k < b * stride + stride
      BY <1>1, <2>1, DivideDown
    <2> HIDE DEF b
    <2>3. ASSUME l <= b PROVE FALSE
      <3>1. l * stride <= b * stride /\ b * stride \in Nat
        BY <1>1, <1>4, <2>2, <2>3, MultiplesOrdered
      <3> QED
        BY <1>6, <2>1, <2>2, <3>1
    <2>4. ASSUME b + 1 <= h PROVE FALSE
      <3>1. (b + 1) * stride <= h * stride
        BY <1>1, <1>3, <2>2, <2>4, MultiplesOrdered
      <3>2. (b + 1) * stride = b * stride + stride /\ b * stride \in Nat
        BY <1>1, <2>2
      <3> QED
        BY <1>1, <1>6, <2>1, <2>2, <3>1, <3>2
    <2>5. b \in h .. l - 1
      BY <1>3, <1>4, <2>2, <2>3, <2>4
    <2>6. k \in RecordsOf(b)
      BY <1>1, <1>8, <2>1, <2>2, <2>5 DEF RecordsOf
    <2> QED
      BY <1>7, <2>5, <2>6
  <1> QED
    BY <1>9, <1>10, <1>11

\* The extrema from blocks and ragged ends are those of exactly the records asked for.
LEMMA ExtremaFound ==
    ASSUME IndexInv, Indexed, NEW end \in 1 .. count, NEW begin \in 0 .. end - 1
    PROVE  /\ PriceExtrema(begin, end).lo = Min(PricesOf(begin .. end - 1))
           /\ PriceExtrema(begin, end).hi = Max(PricesOf(begin .. end - 1))
  <1> DEFINE seen == {price[begin]} \cup PricesOf(Ragged(begin, end))
             lows == seen \cup {ranges[b].minPrice : b \in Inside(begin, end)}
             highs == seen \cup {ranges[b].maxPrice : b \in Inside(begin, end)}
  <1>1. /\ stride \in Nat \ {0} /\ count \in Nat
        /\ \A k \in Record : price[k] \in Int
        /\ \A b \in Block : b * stride \in Record
        /\ \A b \in Block : /\ ranges[b].minPrice = Min(PricesOf(RecordsOf(b)))
                            /\ ranges[b].maxPrice = Max(PricesOf(RecordsOf(b)))
    <2>1. /\ stride \in Nat \ {0} /\ count \in Nat
          /\ \A k \in Record : price[k] \in Int
          /\ \A b \in Block : b * stride \in Record
      BY IndexComplete
    <2>2. ASSUME NEW b \in Block
          PROVE  /\ ranges[b].minPrice = Min(PricesOf(RecordsOf(b)))
                 /\ ranges[b].maxPrice = Max(PricesOf(RecordsOf(b)))
      <3>1. ranges[b] = [minPrice |-> Min(PricesOf(RecordsOf(b))),
                         maxPrice |-> Max(PricesOf(RecordsOf(b)))]
        BY IndexComplete
      <3> QED
        BY <3>1
    <2> QED
      BY <2>1, <2>2
  <1>2. /\ begin \in Int /\ end - 1 \in Int /\ begin <= end - 1 /\ begin \in begin .. end - 1
        /\ \A k \in begin .. end - 1 : price[k] \in Int
    BY <1>1 DEF Record
  <1>3. ASSUME NEW b \in Inside(begin, end)
        PROVE  /\ b * stride \in Int /\ BlockEnd(b * stride) - 1 \in Int
               /\ b * stride <= BlockEnd(b * stride) - 1
               /\ RecordsOf(b) = b * stride .. BlockEnd(b * stride) - 1
               /\ RecordsOf(b) \subseteq begin .. end - 1
               /\ \A k \in RecordsOf(b) : price[k] \in Int
    <2>1. b \in Block /\ RecordsOf(b) \subseteq begin .. end - 1
      BY ExtremaCover
    <2>2. b * stride \in Int /\ BlockEnd(b * stride) \in b * stride + 1 .. count
      BY <1>1, <2>1, BlockFacts DEF Record
    <2> QED
      BY <1>2, <2>1, <2>2 DEF RecordsOf
  <1>4. PriceExtrema(begin, end).lo = Min(lows) /\ PriceExtrema(begin, end).hi = Max(highs)
    BY DEF PriceExtrema
  <1>5. Min(lows) = Min(PricesOf(begin .. end - 1))
    <2>1. PICK m \in begin .. end - 1 : /\ Min(PricesOf(begin .. end - 1)) = price[m]
                                        /\ \A j \in begin .. end - 1 : price[m] <= price[j]
      BY <1>2, PricesMin
    <2>2. ASSUME NEW b \in Inside(begin, end)
          PROVE  \E k \in RecordsOf(b) : /\ ranges[b].minPrice = price[k]
                                         /\ \A j \in RecordsOf(b) : price[k] <= price[j]
      <3>1. \E k \in RecordsOf(b) : /\ Min(PricesOf(RecordsOf(b))) = price[k]
                                    /\ \A j \in RecordsOf(b) : price[k] <= price[j]
        <4> DEFINE lo == b * stride
                   hi == BlockEnd(b * stride) - 1
        <4>1. /\ lo \in Int /\ hi \in Int /\ lo <= hi /\ RecordsOf(b) = lo .. hi
              /\ \A k \in lo .. hi : price[k] \in Int
          BY <1>3
        <4> HIDE DEF lo, hi
        <4>2. \E k \in lo .. hi : /\ Min(PricesOf(lo .. hi)) = price[k]
                                 /\ \A j \in lo .. hi : price[k] <= price[j]
          BY <4>1, PricesMin
        <4> QED
          BY <4>1, <4>2
      <3>2. ranges[b].minPrice = Min(PricesOf(RecordsOf(b)))
        BY <1>1, ExtremaCover
      <3> QED
        BY <3>1, <3>2
    <2>3. ASSUME NEW y \in lows PROVE y \in Int /\ price[m] <= y
      <3>1. CASE y \in seen
        <4>1. \E j \in begin .. end - 1 : y = price[j]
          BY <1>2, <3>1, ExtremaCover DEF PricesOf
        <4> QED
          BY <1>2, <2>1, <4>1
      <3>2. CASE y \in {ranges[b].minPrice : b \in Inside(begin, end)}
        <4>1. PICK b \in Inside(begin, end) : y = ranges[b].minPrice
          BY <3>2
        <4>2. \E j \in begin .. end - 1 : y = price[j]
          BY <1>3, <2>2, <4>1
        <4> QED
          BY <1>2, <2>1, <4>2
      <3> QED
        BY <3>1, <3>2
    <2>4. price[m] \in lows
      <3>1. CASE m \in Ragged(begin, end)
        BY <3>1 DEF PricesOf
      <3>2. CASE m \notin Ragged(begin, end)
        <4>1. PICK b \in Inside(begin, end) : m \in RecordsOf(b)
          BY <3>2, <2>1, ExtremaCover
        <4>2. PICK k \in RecordsOf(b) : /\ ranges[b].minPrice = price[k]
                                        /\ \A j \in RecordsOf(b) : price[k] <= price[j]
          BY <2>2, <4>1
        <4>3. price[k] <= price[m] /\ price[m] <= price[k] /\ price[k] \in Int /\ price[m] \in Int
          BY <1>2, <1>3, <2>1, <4>1, <4>2
        <4>4. price[m] = ranges[b].minPrice
          BY <4>2, <4>3
        <4> QED
          BY <4>1, <4>4
      <3> QED
        BY <3>1, <3>2
    <2> HIDE DEF lows
    <2>5. lows \in SUBSET Int
      BY <2>3
    <2>6. Min(lows) = price[m]
      BY <2>3, <2>4, <2>5, MinIs
    <2> QED
      BY <2>1, <2>6
  <1>6. Max(highs) = Max(PricesOf(begin .. end - 1))
    <2>1. PICK m \in begin .. end - 1 : /\ Max(PricesOf(begin .. end - 1)) = price[m]
                                        /\ \A j \in begin .. end - 1 : price[m] >= price[j]
      BY <1>2, PricesMax
    <2>2. ASSUME NEW b \in Inside(begin, end)
          PROVE  \E k \in RecordsOf(b) : /\ ranges[b].maxPrice = price[k]
                                         /\ \A j \in RecordsOf(b) : price[k] >= price[j]
      <3>1. \E k \in RecordsOf(b) : /\ Max(PricesOf(RecordsOf(b))) = price[k]
                                    /\ \A j \in RecordsOf(b) : price[k] >= price[j]
        <4> DEFINE lo == b * stride
                   hi == BlockEnd(b * stride) - 1
        <4>1. /\ lo \in Int /\ hi \in Int /\ lo <= hi /\ RecordsOf(b) = lo .. hi
              /\ \A k \in lo .. hi : price[k] \in Int
          BY <1>3
        <4> HIDE DEF lo, hi
        <4>2. \E k \in lo .. hi : /\ Max(PricesOf(lo .. hi)) = price[k]
                                 /\ \A j \in lo .. hi : price[k] >= price[j]
          BY <4>1, PricesMax
        <4> QED
          BY <4>1, <4>2
      <3>2. ranges[b].maxPrice = Max(PricesOf(RecordsOf(b)))
        BY <1>1, ExtremaCover
      <3> QED
        BY <3>1, <3>2
    <2>3. ASSUME NEW y \in highs PROVE y \in Int /\ price[m] >= y
      <3>1. CASE y \in seen
        <4>1. \E j \in begin .. end - 1 : y = price[j]
          BY <1>2, <3>1, ExtremaCover DEF PricesOf
        <4> QED
          BY <1>2, <2>1, <4>1
      <3>2. CASE y \in {ranges[b].maxPrice : b \in Inside(begin, end)}
        <4>1. PICK b \in Inside(begin, end) : y = ranges[b].maxPrice
          BY <3>2
        <4>2. \E j \in begin .. end - 1 : y = price[j]
          BY <1>3, <2>2, <4>1
        <4> QED
          BY <1>2, <2>1, <4>2
      <3> QED
        BY <3>1, <3>2
    <2>4. price[m] \in highs
      <3>1. CASE m \in Ragged(begin, end)
        BY <3>1 DEF PricesOf
      <3>2. CASE m \notin Ragged(begin, end)
        <4>1. PICK b \in Inside(begin, end) : m \in RecordsOf(b)
          BY <3>2, <2>1, ExtremaCover
        <4>2. PICK k \in RecordsOf(b) : /\ ranges[b].maxPrice = price[k]
                                        /\ \A j \in RecordsOf(b) : price[k] >= price[j]
          BY <2>2, <4>1
        <4>3. price[k] <= price[m] /\ price[m] <= price[k] /\ price[k] \in Int /\ price[m] \in Int
          BY <1>2, <1>3, <2>1, <4>1, <4>2
        <4>4. price[m] = ranges[b].maxPrice
          BY <4>2, <4>3
        <4> QED
          BY <4>1, <4>4
      <3> QED
        BY <3>1, <3>2
    <2> HIDE DEF highs
    <2>5. highs \in SUBSET Int
      BY <2>3
    <2>6. Max(highs) = price[m]
      BY <2>3, <2>4, <2>5, MaxIs
    <2> QED
      BY <2>1, <2>6
  <1> QED
    BY <1>4, <1>5, <1>6

\* Block minima and maxima with the ragged ends give the extrema of exactly the records asked
\* for, for every stride and every range.
THEOREM StoreExtremaExact == Spec => []ExtremaExact
  <1>1. IndexInv => ExtremaExact
    <2> SUFFICES ASSUME IndexInv, Indexed, NEW end \in 1 .. count, NEW begin \in 0 .. end - 1
                 PROVE  PriceExtrema(begin, end) = [lo |-> Min(PricesOf(begin .. end - 1)),
                                                    hi |-> Max(PricesOf(begin .. end - 1))]
      BY DEF ExtremaExact
    <2> QED
      BY ExtremaFound DEF PriceExtrema
  <1> QED
    BY <1>1, IndexInvariant, PTL

-----------------------------------------------------------------------------
(* Pricing. *)

\* A position is resolved exactly if some record lies within it, and what is found are the first
\* and the last of them.
LEMMA HeldFound ==
    ASSUME IndexInv, Indexed, NEW entry \in Int, NEW exit \in Int
    PROVE  LET first == FirstAtOrAfter(entry)
               last == LastAtOrBefore(exit)
           IN  /\ Unresolved(first, last) => Held(entry, exit) = {}
               /\ ~Unresolved(first, last) =>
                     /\ first \in Record /\ last \in Record /\ first <= last
                     /\ Held(entry, exit) = first .. last
  <1> DEFINE first == FirstAtOrAfter(entry)
             last == LastAtOrBefore(exit)
  <1>1. /\ count \in Nat
        /\ \A k \in Record : time[k] \in Int
        /\ \A j, k \in Record : j < k => time[j] < time[k]
    BY IndexComplete
  <1>2. \/ first = -1 /\ After(entry) = {}
        \/ first \in After(entry) /\ \A k \in After(entry) : first <= k
    BY FirstFound
  <1>3. \/ last = -1 /\ Before(exit) = {}
        \/ last \in Before(exit) /\ \A k \in Before(exit) : last >= k
    BY LastFound
  <1> HIDE DEF first, last
  <1>4. /\ \A k \in After(entry) : k \in Record /\ k \in Nat
        /\ \A k \in Before(exit) : k \in Record /\ k \in Nat
    BY <1>1 DEF After, Before, Record
  <1>5. first \in Int /\ last \in Int
    BY <1>2, <1>3, <1>4
  <1>6. ASSUME NEW k \in Held(entry, exit) PROVE ~Unresolved(first, last)
    <2>1. k \in After(entry) /\ k \in Before(exit) /\ k \in Nat
      BY <1>4, <1>6 DEF Held
    <2>2. first \in Nat /\ last \in Nat /\ first <= k /\ k <= last
      BY <1>2, <1>3, <1>4, <2>1
    <2> QED
      BY <2>1, <2>2 DEF Unresolved
  <1>7. ASSUME ~Unresolved(first, last)
        PROVE  first \in Record /\ last \in Record /\ first <= last /\ Held(entry, exit) = first .. last
    <2>1. first >= 0 /\ last >= 0 /\ first <= last
      BY <1>5, <1>7 DEF Unresolved
    <2>2. first \in After(entry) /\ \A k \in After(entry) : first <= k
      BY <1>2, <2>1
    <2>3. last \in Before(exit) /\ \A k \in Before(exit) : last >= k
      BY <1>3, <2>1
    <2>4. first \in Record /\ last \in Record /\ entry <= time[first] /\ time[last] <= exit
      BY <1>4, <2>2, <2>3 DEF After, Before
    <2>5. ASSUME NEW k \in first .. last PROVE k \in Held(entry, exit)
      <3>1. k \in Record
        BY <1>1, <2>4, <2>5 DEF Record
      <3>2. time[first] <= time[k] /\ time[k] <= time[last]
        BY <1>1, <1>5, <2>4, <2>5, <3>1
      <3>3. entry <= time[k] /\ time[k] <= exit
        BY <1>1, <2>4, <3>1, <3>2
      <3> QED
        BY <1>1, <3>1, <3>3 DEF Held, After, Before
    <2>6. ASSUME NEW k \in Held(entry, exit) PROVE k \in first .. last
      <3>1. k \in After(entry) /\ k \in Before(exit) /\ k \in Int
        BY <1>4, <2>6 DEF Held
      <3> QED
        BY <1>5, <2>2, <2>3, <3>1
    <2> QED
      BY <2>1, <2>4, <2>5, <2>6
  <1> QED
    BY <1>6, <1>7 DEF first, last

\* Both modes know the extrema of the records first .. last.
LEMMA ExtremaOfHeld ==
    ASSUME IndexInv, Indexed, NEW mode \in {"blocks", "scan"},
           NEW first \in Record, NEW last \in Record, first <= last
    PROVE  /\ Extrema(mode, first, last).lo = Min(PricesOf(first .. last))
           /\ Extrema(mode, first, last).hi = Max(PricesOf(first .. last))
  <1> DEFINE end == last + 1
  <1>1. count \in Nat
    BY IndexComplete
  <1>2. end \in 1 .. count /\ first \in 0 .. end - 1 /\ end - 1 = last
    BY <1>1 DEF Record
  <1>3. CASE mode = "blocks"
    <2>1. Extrema(mode, first, last) = PriceExtrema(first, end)
      BY <1>3 DEF Extrema
    <2> HIDE DEF end
    <2>2. /\ PriceExtrema(first, end).lo = Min(PricesOf(first .. end - 1))
          /\ PriceExtrema(first, end).hi = Max(PricesOf(first .. end - 1))
      BY <1>2, ExtremaFound
    <2> QED
      BY <1>2, <2>1, <2>2
  <1>4. CASE mode = "scan"
    BY <1>4 DEF Extrema
  <1> QED
    BY <1>3, <1>4

\* The loss found from the extreme price is the deepest of the losses of the records held, and at
\* least what is lost at the end.
LEMMA DeepestLoss ==
    ASSUME NEW first \in Int, NEW last \in Int, first <= last,
           \A k \in first .. last : price[k] \in Int, NEW side \in {1, -1}
    PROVE  LET loss == IF side > 0 THEN price[first] - Min(PricesOf(first .. last))
                       ELSE Max(PricesOf(first .. last)) - price[first]
               mae == IF loss > 0 THEN loss ELSE 0
           IN  /\ mae = Max({side * (price[first] - price[k]) : k \in first .. last} \cup {0})
               /\ side * (price[last] - price[first]) + mae >= 0
  <1> DEFINE Loss(k) == side * (price[first] - price[k])
             losses == {Loss(k) : k \in first .. last} \cup {0}
             loss == IF side > 0 THEN price[first] - Min(PricesOf(first .. last))
                     ELSE Max(PricesOf(first .. last)) - price[first]
             mae == IF loss > 0 THEN loss ELSE 0
  <1>1. first \in first .. last /\ last \in first .. last /\ price[first] \in Int /\ price[last] \in Int
    OBVIOUS
  <1>2. \A k \in first .. last : Loss(k) \in Int
    BY <1>1
  <1>3. \E m \in first .. last : loss = Loss(m) /\ \A k \in first .. last : Loss(k) <= Loss(m)
    <2>1. CASE side = 1
      <3>1. PICK m \in first .. last : /\ Min(PricesOf(first .. last)) = price[m]
                                       /\ \A k \in first .. last : price[m] <= price[k]
        BY PricesMin
      <3>2. \A k \in first .. last : Loss(k) = price[first] - price[k]
        BY <1>1, <2>1
      <3>3. \A k \in first .. last : price[first] - price[k] <= price[first] - price[m]
        BY <1>1, <3>1
      <3>4. loss = price[first] - price[m]
        BY <2>1, <3>1
      <3> HIDE DEF Loss, loss
      <3> QED
        BY <3>1, <3>2, <3>3, <3>4
    <2>2. CASE side = -1
      <3>1. PICK m \in first .. last : /\ Max(PricesOf(first .. last)) = price[m]
                                       /\ \A k \in first .. last : price[m] >= price[k]
        BY PricesMax
      <3>2. \A k \in first .. last : Loss(k) = price[k] - price[first]
        BY <1>1, <2>2
      <3>3. \A k \in first .. last : price[k] - price[first] <= price[m] - price[first]
        BY <1>1, <3>1
      <3>4. loss = price[m] - price[first]
        BY <2>2, <3>1
      <3> HIDE DEF Loss, loss
      <3> QED
        BY <3>1, <3>2, <3>3, <3>4
    <2> QED
      BY <2>1, <2>2
  <1>4. side * (price[last] - price[first]) = -Loss(last)
    <2>1. CASE side = 1
      BY <1>1, <2>1
    <2>2. CASE side = -1
      BY <1>1, <2>2
    <2> QED
      BY <2>1, <2>2
  <1> HIDE DEF Loss, loss
  <1>5. PICK m \in first .. last : loss = Loss(m) /\ \A k \in first .. last : Loss(k) <= Loss(m)
    BY <1>3
  <1>6. mae \in losses /\ losses \in SUBSET Int
    BY <1>2, <1>5
  <1>7. \A y \in losses : mae >= y
    BY <1>2, <1>5
  <1>8. mae = Max(losses)
    <2> HIDE DEF mae, losses
    <2> QED
      BY <1>6, <1>7, MaxIs
  <1>9. -Loss(last) + mae >= 0
    <2>1. Loss(last) <= mae /\ mae \in Int /\ Loss(last) \in Int
      BY <1>1, <1>2, <1>6, <1>7
    <2> HIDE DEF mae
    <2> QED
      BY <2>1
  <1> QED
    BY <1>4, <1>8, <1>9 DEF loss, Loss

\* A position is priced exactly if some record lies within it, then from the first to the last such
\* record; both modes of --mae find its deepest loss over every second held, which is never less
\* than the loss it realises.
THEOREM StoreTradesPriced == Spec => []TradesPriced
  <1>1. IndexInv => TradesPriced
    <2> SUFFICES ASSUME IndexInv, Indexed, NEW entry \in Times, NEW exit \in Times,
                        NEW side \in {1, -1}, NEW mode \in {"blocks", "scan"}
                 PROVE  LET trade == PriceTrade(side, entry, exit, mode)
                            held == Held(entry, exit)
                            losses == {side * (price[trade.first] - price[k]) : k \in held}
                        IN  /\ trade.ok <=> held # {}
                            /\ trade.ok => /\ trade.first = Min(held) /\ trade.last = Max(held)
                                           /\ trade.mae = Max(losses \cup {0})
                                           /\ trade.pnl + trade.mae >= 0
      BY DEF TradesPriced
    <2> DEFINE trade == PriceTrade(side, entry, exit, mode)
               first == FirstAtOrAfter(entry)
               last == LastAtOrBefore(exit)
               ends == Extrema(mode, first, last)
               loss == IF side > 0 THEN price[first] - ends.lo ELSE ends.hi - price[first]
               mae == IF loss > 0 THEN loss ELSE 0
    <2>1. entry \in Int /\ exit \in Int
      BY TimesPricesInt
    <2>2. /\ Unresolved(first, last) => Held(entry, exit) = {}
          /\ ~Unresolved(first, last) => /\ first \in Record /\ last \in Record /\ first <= last
                                         /\ Held(entry, exit) = first .. last
      BY <2>1, HeldFound
    <2>3. trade = IF Unresolved(first, last) THEN NotPriced
                  ELSE [ok |-> TRUE, first |-> first, last |-> last,
                        pnl |-> side * (price[last] - price[first]), mae |-> mae]
      BY DEF PriceTrade
    <2> HIDE DEF trade, first, last
    <2>4. CASE Unresolved(first, last)
      <3>1. ~trade.ok
        BY <2>3, <2>4 DEF NotPriced
      <3>2. Held(entry, exit) = {}
        BY <2>2, <2>4
      <3> QED
        BY <3>1, <3>2 DEF trade
    <2>5. CASE ~Unresolved(first, last)
      <3>1. /\ trade.ok /\ trade.first = first /\ trade.last = last
            /\ trade.pnl = side * (price[last] - price[first]) /\ trade.mae = mae
        <4> HIDE DEF mae
        <4> QED
          BY <2>3, <2>5
      <3>2. /\ first \in Record /\ last \in Record /\ first <= last
            /\ Held(entry, exit) = first .. last
        BY <2>2, <2>5
      <3>3. first \in Int /\ last \in Int /\ \A k \in first .. last : price[k] \in Int
        BY <3>2, IndexComplete DEF Record
      <3>4. first .. last # {} /\ Min(first .. last) = first /\ Max(first .. last) = last
        <4>1. first .. last \in SUBSET Int /\ first \in first .. last /\ last \in first .. last
          BY <3>2, <3>3
        <4>2. \A k \in first .. last : first <= k /\ last >= k
          BY <3>3
        <4> QED
          BY <4>1, <4>2, MinIs, MaxIs
      <3>5. loss = IF side > 0 THEN price[first] - Min(PricesOf(first .. last))
                   ELSE Max(PricesOf(first .. last)) - price[first]
        BY <3>2, ExtremaOfHeld
      <3>6. /\ mae = Max({side * (price[first] - price[k]) : k \in first .. last} \cup {0})
            /\ side * (price[last] - price[first]) + mae >= 0
        BY <3>2, <3>3, <3>5, DeepestLoss
      <3> HIDE DEF mae
      <3>7. trade.mae = Max({side * (price[trade.first] - price[k]) : k \in Held(entry, exit)} \cup {0})
        BY <3>1, <3>2, <3>6
      <3>8. trade.pnl + trade.mae >= 0
        BY <3>1, <3>6
      <3>9. trade.ok /\ Held(entry, exit) # {} /\ trade.first = Min(Held(entry, exit))
            /\ trade.last = Max(Held(entry, exit))
        BY <3>1, <3>2, <3>4
      <3> QED
        BY <3>7, <3>8, <3>9 DEF trade
    <2> QED
      BY <2>4, <2>5
  <1> QED
    BY <1>1, IndexInvariant, PTL

=============================================================================
