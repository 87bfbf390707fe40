------------------------ MODULE FlightPipelineProofs ------------------------
(***************************************************************************)
(* Theorems about FlightPipeline, for any offers, criteria and number of   *)
(* flights: the scores are normalised and fair, filtering, ranking and     *)
(* sorting lose and invent nothing, and it does not matter in what order   *)
(* the providers answered.                                                 *)
(***************************************************************************)
EXTENDS FlightPipeline, FiniteSetTheorems, FunctionTheorems, LeastNumbers, TLAPS

-----------------------------------------------------------------------------
(* Greatest numbers *)

\* Finitely many natural numbers have a greatest one.
LEMMA GreatestOfList ==
  ASSUME NEW n \in Nat \ {0}, NEW s \in [1..n -> Nat]
  PROVE  \E i \in 1..n : \A j \in 1..n : s[j] <= s[i]
  <1>. DEFINE T == {k \in 1..n : \A i \in 1..k : \E j \in 1..k : s[j] > s[i]}
  <1>1. \A i \in 1..n : s[i] \in Nat
    OBVIOUS
  <1>2. \A k \in 1..n : k \in T <=> \A i \in 1..k : \E j \in 1..k : s[j] > s[i]
    OBVIOUS
  <1>3. T \subseteq 1..n /\ T \in SUBSET Nat
    OBVIOUS
  <1>. HIDE DEF T
  <1>4. ASSUME T # {} PROVE FALSE
    <2>1. PICK k \in T : \A m \in T : k <= m
      BY <1>4, <1>3, LeastNatural
    <2>2. k \in 1..n /\ \A i \in 1..k : \E j \in 1..k : s[j] > s[i]
      BY <2>1, <1>2, <1>3
    <2>3. k # 1
      BY <2>2, <1>1
    <2>4. k - 1 \in 1..n /\ k - 1 \notin T
      <3>1. k - 1 \in 1..n /\ ~(k <= k - 1)
        BY <2>2, <2>3
      <3>. QED
        BY <3>1, <2>1
    <2>5. PICK i \in 1..(k - 1) : \A j \in 1..(k - 1) : ~(s[j] > s[i])
      BY <2>4, <1>2
    <2>6. \A j \in 1..k : j \in 1..(k - 1) \/ j = k
      BY <2>2
    <2>7. CASE s[k] > s[i]
      <3>1. PICK j \in 1..k : s[j] > s[k]
        BY <2>2
      <3>2. j \in 1..n /\ i \in 1..n /\ k \in 1..n
        BY <2>2
      <3>3. s[j] > s[i] /\ j # k
        BY <3>1, <3>2, <2>7, <1>1
      <3>. QED
        BY <3>3, <2>5, <2>6
    <2>8. CASE ~(s[k] > s[i])
      <3>1. PICK j \in 1..k : s[j] > s[i]
        BY <2>2
      <3>. QED
        BY <3>1, <2>5, <2>6, <2>8
    <2>. QED
      BY <2>7, <2>8
  <1>5. n \in 1..n /\ n \notin T
    <2>1. n \in 1..n
      OBVIOUS
    <2>. QED
      BY <2>1, <1>4
  <1>6. PICK i \in 1..n : \A j \in 1..n : ~(s[j] > s[i])
    BY <1>5, <1>2
  <1>. QED
    BY <1>6, <1>1

\* What Min and Max of a range of values are used for.
Bounded(values) ==
  /\ values \in SUBSET Nat
  /\ Min(values) \in values /\ Max(values) \in values
  /\ \A v \in values : Min(values) <= v /\ v <= Max(values)

LEMMA ListBounded ==
  ASSUME NEW n \in Nat \ {0}, NEW s \in [1..n -> Nat]
  PROVE  Bounded({s[i] : i \in 1..n})
  <1>. DEFINE V == {s[i] : i \in 1..n}
  <1>1. V \in SUBSET Nat /\ V # {}
    <2>1. s[1] \in V
      BY 1 \in 1..n
    <2>. QED
      BY <2>1
  <1>2. \E x \in V : \A y \in V : x <= y
    BY <1>1, LeastNatural
  <1>3. Min(V) \in V /\ \A y \in V : Min(V) <= y
    BY <1>2, Zenon DEF Min
  <1>4. \E x \in V : \A y \in V : x >= y
    <2>1. PICK i \in 1..n : \A j \in 1..n : s[j] <= s[i]
      BY GreatestOfList
    <2>2. s[i] \in V /\ \A y \in V : s[i] >= y
      BY <2>1
    <2>. QED
      BY <2>2
  <1>5. Max(V) \in V /\ \A y \in V : Max(V) >= y
    BY <1>4, Zenon DEF Max
  <1>6. \A y \in V : y <= Max(V)
    BY <1>5, <1>1
  <1>. QED
    BY <1>1, <1>3, <1>5, <1>6 DEF Bounded
-----------------------------------------------------------------------------
(* Scores *)

\* The weighted sum of a score, of shares x, y, z, u of ranges p, d, s, a.
WeightedSum(x, y, z, u, p, d, s, a) ==
    WeightPrice * x * d * s * a
  + WeightDurationInMinutes * y * p * s * a
  + WeightStops * z * p * d * a
  + WeightAmenities * u * p * d * s

LEMMA ProductType ==
  ASSUME NEW x \in Nat, NEW y \in Nat
  PROVE  x * y \in Nat /\ (x # 0 /\ y # 0 => x * y # 0)
  OBVIOUS

LEMMA ProductMonotone ==
  ASSUME NEW x \in Nat, NEW y \in Nat, NEW z \in Nat, x <= y
  PROVE  x * z <= y * z /\ (x < y /\ z # 0 => x * z < y * z)
  OBVIOUS

\* The sum is a natural number, grows with every share, and has its greatest value
\* when every share is its range.
LEMMA WeightedSumMonotone ==
  ASSUME NEW p \in Nat \ {0}, NEW d \in Nat \ {0}, NEW s \in Nat \ {0},
         NEW a \in Nat \ {0},
         NEW x \in Nat, NEW y \in Nat, NEW z \in Nat, NEW u \in Nat,
         NEW x1 \in Nat, NEW y1 \in Nat, NEW z1 \in Nat, NEW u1 \in Nat,
         x <= x1, y <= y1, z <= z1, u <= u1
  PROVE  /\ WeightedSum(x, y, z, u, p, d, s, a) \in Nat
         /\ WeightedSum(x, y, z, u, p, d, s, a)
              <= WeightedSum(x1, y1, z1, u1, p, d, s, a)
         /\ <<x, y, z, u>> # <<x1, y1, z1, u1>> =>
              WeightedSum(x, y, z, u, p, d, s, a)
                < WeightedSum(x1, y1, z1, u1, p, d, s, a)
  <1>. DEFINE X == d * s * a
              Y == p * s * a
              Z == p * d * a
              U == p * d * s
  <1>1. X \in Nat \ {0} /\ Y \in Nat \ {0} /\ Z \in Nat \ {0} /\ U \in Nat \ {0}
    BY ProductType
  <1>2. ASSUME NEW i \in Nat, NEW j \in Nat, NEW k \in Nat, NEW l \in Nat
        PROVE  WeightedSum(i, j, k, l, p, d, s, a)
                 = 12 * (i * X) + 4 * (j * Y) + 3 * (k * Z) + l * U
    BY DEF WeightedSum, WeightPrice, WeightDurationInMinutes, WeightStops,
           WeightAmenities
  <1>. HIDE DEF X, Y, Z, U
  <1>3. /\ x * X \in Nat /\ y * Y \in Nat /\ z * Z \in Nat /\ u * U \in Nat
        /\ x1 * X \in Nat /\ y1 * Y \in Nat /\ z1 * Z \in Nat /\ u1 * U \in Nat
    BY <1>1, ProductType
  <1>4. /\ x * X <= x1 * X /\ y * Y <= y1 * Y /\ z * Z <= z1 * Z /\ u * U <= u1 * U
        /\ x # x1 => x * X < x1 * X
        /\ y # y1 => y * Y < y1 * Y
        /\ z # z1 => z * Z < z1 * Z
        /\ u # u1 => u * U < u1 * U
    BY <1>1, ProductMonotone
  <1>5. /\ WeightedSum(x, y, z, u, p, d, s, a)
             = 12 * (x * X) + 4 * (y * Y) + 3 * (z * Z) + u * U
        /\ WeightedSum(x1, y1, z1, u1, p, d, s, a)
             = 12 * (x1 * X) + 4 * (y1 * Y) + 3 * (z1 * Z) + u1 * U
    BY <1>2
  <1>6. <<x, y, z, u>> # <<x1, y1, z1, u1>> => x # x1 \/ y # y1 \/ z # z1 \/ u # u1
    OBVIOUS
  <1>. QED
    BY <1>3, <1>4, <1>5, <1>6

LEMMA WeightedSumWorst ==
  ASSUME NEW p \in Nat, NEW d \in Nat, NEW s \in Nat, NEW a \in Nat
  PROVE  20 * p * d * s * a = WeightedSum(p, d, s, a, p, d, s, a)
  BY DEF WeightedSum, WeightPrice, WeightDurationInMinutes, WeightStops,
         WeightAmenities

LEMMA FlightFields ==
  ASSUME NEW f \in Flight
  PROVE  /\ f.price \in Nat /\ f.minutes \in Nat /\ f.stops \in Nat
         /\ f.amenities \in Nat /\ f.score \in Nat /\ f.seats \in Nat
         /\ f.departure.local \in Int /\ f.departure.offset \in Int
         /\ f.arrival.local \in Int /\ f.arrival.offset \in Int
  BY DEF Flight, Times

LEMMA RangesBounded ==
  ASSUME NEW list \in Seq(Flight), list # <<>>
  PROVE  /\ Bounded(Prices(list)) /\ Bounded(Durations(list))
         /\ Bounded(Stops(list)) /\ Bounded(Amenities(list))
  <1>. DEFINE n == Len(list)
  <1>1. n \in Nat \ {0} /\ DOMAIN list = 1..n /\ \A i \in 1..n : list[i] \in Flight
    OBVIOUS
  <1>. HIDE DEF n
  <1>2. Bounded(Prices(list))
    <2>. DEFINE s == [i \in 1..n |-> list[i].price]
    <2>1. s \in [1..n -> Nat]
      BY <1>1, FlightFields
    <2>2. Prices(list) = {s[i] : i \in 1..n}
      BY <1>1 DEF Prices, Range
    <2>. QED
      BY <1>1, <2>1, <2>2, ListBounded
  <1>3. Bounded(Durations(list))
    <2>. DEFINE s == [i \in 1..n |-> list[i].minutes]
    <2>1. s \in [1..n -> Nat]
      BY <1>1, FlightFields
    <2>2. Durations(list) = {s[i] : i \in 1..n}
      BY <1>1 DEF Durations, Range
    <2>. QED
      BY <1>1, <2>1, <2>2, ListBounded
  <1>4. Bounded(Stops(list))
    <2>. DEFINE s == [i \in 1..n |-> list[i].stops]
    <2>1. s \in [1..n -> Nat]
      BY <1>1, FlightFields
    <2>2. Stops(list) = {s[i] : i \in 1..n}
      BY <1>1 DEF Stops, Range
    <2>. QED
      BY <1>1, <2>1, <2>2, ListBounded
  <1>5. Bounded(Amenities(list))
    <2>. DEFINE s == [i \in 1..n |-> list[i].amenities]
    <2>1. s \in [1..n -> Nat]
      BY <1>1, FlightFields
    <2>2. Amenities(list) = {s[i] : i \in 1..n}
      BY <1>1 DEF Amenities, Range
    <2>. QED
      BY <1>1, <2>1, <2>2, ListBounded
  <1>. QED
    BY <1>2, <1>3, <1>4, <1>5

\* normalizeValue maps the values of a range to the numbers from 0 to its spread.
LEMMA NormalizedInSpread ==
  ASSUME NEW values, Bounded(values)
  PROVE  /\ Spread(values) \in Nat \ {0}
         /\ \A v \in values : Normalized(v, values) \in 0..Spread(values)
         /\ \A v, w \in values : v <= w =>
              /\ Normalized(v, values) <= Normalized(w, values)
              /\ v # w => Normalized(v, values) # Normalized(w, values)
  <1>. DEFINE lo == Min(values)
              hi == Max(values)
  <1>1. values \subseteq Nat /\ lo \in values /\ hi \in values
    BY DEF Bounded
  <1>2. \A v \in values : v \in Nat /\ lo <= v /\ v <= hi
    BY DEF Bounded
  <1>3. Spread(values) = IF lo = hi THEN 1 ELSE hi - lo
    BY DEF Spread
  <1>4. \A v : Normalized(v, values) = v - lo
    BY DEF Normalized
  <1>. HIDE DEF lo, hi
  <1>5. lo \in Nat /\ hi \in Nat /\ lo <= hi
    BY <1>1, <1>2
  <1>. QED
    BY <1>2, <1>3, <1>4, <1>5

\* RankFlights of a list that is not empty: scores are between the best and the
\* worst, and a flight that dominates another has the smaller one.
LEMMA ScoresNormalisedAndFair ==
  ASSUME NEW list \in Seq(Flight), list # <<>>
  PROVE  /\ Worst(list) \in Nat
         /\ \A f \in Range(list) : Score(f, list) \in 0..Worst(list)
         /\ \A f, g \in Range(list) :
              Dominates(f, g) => Score(f, list) < Score(g, list)
  <1>. DEFINE p == Spread(Prices(list))
              d == Spread(Durations(list))
              s == Spread(Stops(list))
              a == Spread(Amenities(list))
              x(f) == Normalized(f.price, Prices(list))
              y(f) == Normalized(f.minutes, Durations(list))
              z(f) == Normalized(f.stops, Stops(list))
              u(f) == AmenitiesShare(f, list)
  <1>1. p \in Nat \ {0} /\ d \in Nat \ {0} /\ s \in Nat \ {0} /\ a \in Nat \ {0}
    BY RangesBounded, NormalizedInSpread
  <1>2. ASSUME NEW f \in Range(list)
        PROVE  /\ f.price \in Prices(list) /\ f.minutes \in Durations(list)
               /\ f.stops \in Stops(list) /\ f.amenities \in Amenities(list)
    BY DEF Prices, Durations, Stops, Amenities
  <1>3. ASSUME NEW f \in Range(list)
        PROVE  x(f) \in 0..p /\ y(f) \in 0..d /\ z(f) \in 0..s /\ u(f) \in 0..a
    BY <1>1, <1>2, RangesBounded, NormalizedInSpread DEF AmenitiesShare
  <1>4. ASSUME NEW f \in Range(list)
        PROVE  Score(f, list) = WeightedSum(x(f), y(f), z(f), u(f), p, d, s, a)
    BY DEF Score, WeightedSum
  <1>5. Worst(list) = WeightedSum(p, d, s, a, p, d, s, a)
    BY <1>1, WeightedSumWorst DEF Worst
  <1>6. ASSUME NEW f \in Range(list), NEW g \in Range(list), Dominates(f, g)
        PROVE  /\ x(f) <= x(g) /\ y(f) <= y(g) /\ z(f) <= z(g) /\ u(f) <= u(g)
               /\ <<x(f), y(f), z(f), u(f)>> # <<x(g), y(g), z(g), u(g)>>
    <2>1. \/ f.price # g.price \/ f.minutes # g.minutes \/ f.stops # g.stops
          \/ f.amenities # g.amenities
      BY <1>6 DEF Dominates
    <2>2. x(f) <= x(g) /\ (f.price # g.price => x(f) # x(g))
      BY <1>6, <1>2, RangesBounded, NormalizedInSpread DEF Dominates
    <2>3. y(f) <= y(g) /\ (f.minutes # g.minutes => y(f) # y(g))
      BY <1>6, <1>2, RangesBounded, NormalizedInSpread DEF Dominates
    <2>4. z(f) <= z(g) /\ (f.stops # g.stops => z(f) # z(g))
      BY <1>6, <1>2, RangesBounded, NormalizedInSpread DEF Dominates
    <2>5. u(f) <= u(g) /\ (f.amenities # g.amenities => u(f) # u(g))
      <3>1. f.amenities \in Nat /\ g.amenities \in Nat
        BY <1>2, RangesBounded DEF Bounded
      <3>2. g.amenities <= f.amenities
        BY <3>1, <1>6 DEF Dominates
      <3>3. /\ Normalized(g.amenities, Amenities(list)) \in 0..a
            /\ Normalized(f.amenities, Amenities(list)) \in 0..a
            /\ Normalized(g.amenities, Amenities(list))
                 <= Normalized(f.amenities, Amenities(list))
            /\ f.amenities # g.amenities =>
                 Normalized(g.amenities, Amenities(list))
                   # Normalized(f.amenities, Amenities(list))
        BY <3>2, <1>2, RangesBounded, NormalizedInSpread
      <3>. QED
        BY <3>3, <1>1 DEF AmenitiesShare
    <2>. QED
      BY <2>1, <2>2, <2>3, <2>4, <2>5
  <1>. HIDE DEF p, d, s, a, x, y, z, u
  <1>7. ASSUME NEW i \in Nat, NEW j \in Nat, NEW k \in Nat, NEW l \in Nat,
               NEW i1 \in Nat, NEW j1 \in Nat, NEW k1 \in Nat, NEW l1 \in Nat,
               i <= i1, j <= j1, k <= k1, l <= l1
        PROVE  /\ WeightedSum(i, j, k, l, p, d, s, a) \in Nat
               /\ WeightedSum(i, j, k, l, p, d, s, a)
                    <= WeightedSum(i1, j1, k1, l1, p, d, s, a)
               /\ i # i1 \/ j # j1 \/ k # k1 \/ l # l1 =>
                    WeightedSum(i, j, k, l, p, d, s, a)
                      < WeightedSum(i1, j1, k1, l1, p, d, s, a)
    <2>1. i # i1 \/ j # j1 \/ k # k1 \/ l # l1 =>
            <<i, j, k, l>> # <<i1, j1, k1, l1>>
      OBVIOUS
    <2>. QED
      BY <1>1, <1>7, <2>1, WeightedSumMonotone, Zenon
  <1>8. Worst(list) \in Nat
    <2>1. /\ p \in Nat /\ d \in Nat /\ s \in Nat /\ a \in Nat
          /\ p <= p /\ d <= d /\ s <= s /\ a <= a
      BY <1>1
    <2>2. WeightedSum(p, d, s, a, p, d, s, a) \in Nat
      BY <2>1, <1>7, Zenon
    <2>. QED
      BY <2>2, <1>5
  <1>9. ASSUME NEW f \in Range(list) PROVE Score(f, list) \in 0..Worst(list)
    <2>1. /\ x(f) \in Nat /\ y(f) \in Nat /\ z(f) \in Nat /\ u(f) \in Nat
          /\ x(f) <= p /\ y(f) <= d /\ z(f) <= s /\ u(f) <= a
      BY <1>1, <1>3
    <2>2. p \in Nat /\ d \in Nat /\ s \in Nat /\ a \in Nat
      BY <1>1
    <2>3. /\ WeightedSum(x(f), y(f), z(f), u(f), p, d, s, a) \in Nat
          /\ WeightedSum(x(f), y(f), z(f), u(f), p, d, s, a)
               <= WeightedSum(p, d, s, a, p, d, s, a)
      BY <2>1, <2>2, <1>7, Zenon
    <2>. QED
      BY <2>3, <1>4, <1>5, <1>8
  <1>10. ASSUME NEW f \in Range(list), NEW g \in Range(list), Dominates(f, g)
         PROVE  Score(f, list) < Score(g, list)
    <2>1. /\ x(f) \in Nat /\ y(f) \in Nat /\ z(f) \in Nat /\ u(f) \in Nat
          /\ x(g) \in Nat /\ y(g) \in Nat /\ z(g) \in Nat /\ u(g) \in Nat
      BY <1>1, <1>3
    <2>2. /\ x(f) <= x(g) /\ y(f) <= y(g) /\ z(f) <= z(g) /\ u(f) <= u(g)
          /\ x(f) # x(g) \/ y(f) # y(g) \/ z(f) # z(g) \/ u(f) # u(g)
      BY <1>6, <1>10
    <2>3. WeightedSum(x(f), y(f), z(f), u(f), p, d, s, a)
            < WeightedSum(x(g), y(g), z(g), u(g), p, d, s, a)
      BY <2>1, <2>2, <1>7
    <2>. QED
      BY <2>3, <1>4
  <1>. QED
    BY <1>8, <1>9, <1>10
-----------------------------------------------------------------------------
(* Lists and where their elements come from *)

LEMMA BijectionIs ==
  ASSUME NEW A, NEW B, NEW w
  PROVE  w \in Bijection(A, B) <=>
           /\ w \in [A -> B]
           /\ \A i, j \in A : w[i] = w[j] => i = j
           /\ \A t \in B : \E i \in A : w[i] = t
  BY DEF Bijection, Injection, Surjection, IsInjective

\* A bijection that respects two properties pairs the elements that have them.
LEMMA SameCount ==
  ASSUME NEW B, NEW C, NEW w \in Bijection(B, C), IsFiniteSet(B),
         NEW K \in SUBSET B, NEW L \in SUBSET C,
         \A b \in B : b \in K <=> w[b] \in L
  PROVE  Cardinality(K) = Cardinality(L)
  <1>. DEFINE v == [b \in K |-> w[b]]
  <1>1. /\ w \in [B -> C] /\ \A b, c \in B : w[b] = w[c] => b = c
        /\ \A t \in C : \E b \in B : w[b] = t
    BY DEF Bijection, Injection, Surjection, IsInjective
  <1>2. v \in Bijection(K, L)
    <2>1. v \in [K -> L]
      BY <1>1
    <2>2. \A b, c \in K : v[b] = v[c] => b = c
      BY <1>1
    <2>3. \A t \in L : \E b \in K : v[b] = t
      BY <1>1
    <2>. QED
      BY <2>1, <2>2, <2>3 DEF Bijection, Injection, Surjection, IsInjective
  <1>3. IsFiniteSet(K)
    BY FS_Subset
  <1>. QED
    BY <1>2, <1>3, FS_Bijection DEF ExistsBijection

\* What Keep leaves of a list.
LEMMA Kept ==
  ASSUME NEW S, NEW list \in Seq(S), NEW kept \in SUBSET DOMAIN list,
         NEW left \in Keep(list, kept)
  PROVE  /\ left \in Seq(S) /\ DOMAIN left = 1..Cardinality(kept)
         /\ \E e \in Bijection(DOMAIN left, kept) :
              \A i \in DOMAIN left : left[i] = list[e[i]]
  <1>. DEFINE n == Cardinality(kept)
  <1>1. IsFiniteSet(kept) /\ n \in Nat
    <2>1. kept \subseteq 1..Len(list) /\ Len(list) \in Nat
      OBVIOUS
    <2>2. IsFiniteSet(1..Len(list))
      BY <2>1, FS_Interval
    <2>. QED
      BY <2>1, <2>2, FS_Subset, FS_CardinalityType
  <1>2. PICK e \in Bijection(1..n, kept) : left = [i \in 1..n |-> list[e[i]]]
    BY Zenon DEF Keep
  <1>3. e \in [1..n -> kept]
    BY DEF Bijection, Injection
  <1>. HIDE DEF n
  <1>4. DOMAIN left = 1..n /\ \A i \in 1..n : left[i] = list[e[i]] /\ left[i] \in S
    BY <1>2, <1>3
  <1>5. left \in Seq(S)
    BY <1>1, <1>2, <1>4
  <1>. QED
    BY <1>2, <1>4, <1>5 DEF n

\* Sort only permutes.
LEMMA Sorted ==
  ASSUME NEW list \in Seq(Flight), NEW sort, NEW left \in Sortings(list, sort)
  PROVE  /\ left \in Seq(Flight) /\ Range(left) = Range(list)
         /\ Ordered(left, sort)
         /\ DOMAIN left = DOMAIN list
         /\ \E e \in Bijection(DOMAIN left, DOMAIN list) :
              \A i \in DOMAIN left : left[i] = list[e[i]]
  <1>1. PICK e \in Bijection(DOMAIN list, DOMAIN list) :
          left = [i \in DOMAIN list |-> list[e[i]]]
    BY Zenon DEF Sortings
  <1>2. Ordered(left, sort)
    BY Zenon DEF Sortings
  <1>3. /\ e \in [DOMAIN list -> DOMAIN list]
        /\ \A k \in DOMAIN list : \E i \in DOMAIN list : e[i] = k
    BY DEF Bijection, Injection, Surjection
  <1>4. DOMAIN left = DOMAIN list /\ \A i \in DOMAIN list : left[i] = list[e[i]]
    BY <1>1
  <1>5. left \in Seq(Flight)
    <2>1. Len(list) \in Nat /\ DOMAIN list = 1..Len(list)
      OBVIOUS
    <2>2. \A i \in DOMAIN list : list[e[i]] \in Flight
      BY <1>3
    <2>. QED
      BY <2>1, <2>2, <1>1
  <1>6. Range(left) = Range(list)
    BY <1>3, <1>4 DEF Range
  <1>. QED
    BY <1>2, <1>4, <1>5, <1>6

\* A score depends on what a list has besides scores, and on nothing else.
SameBesidesScores(list, other) ==
  {Unscored(f) : f \in Range(list)} = {Unscored(f) : f \in Range(other)}

LEMMA UnscoredFields ==
  ASSUME NEW f \in Flight
  PROVE  /\ Unscored(f) \in Flight /\ Unscored(f).score = 0
         /\ Unscored(Unscored(f)) = Unscored(f)
         /\ f.score = 0 => Unscored(f) = f
         /\ Unscored(f).price = f.price /\ Unscored(f).minutes = f.minutes
         /\ Unscored(f).stops = f.stops /\ Unscored(f).amenities = f.amenities
         /\ \A n \in Nat : /\ [f EXCEPT !.score = n] \in Flight
                           /\ [f EXCEPT !.score = n].score = n
                           /\ Unscored([f EXCEPT !.score = n]) = Unscored(f)
  BY DEF Unscored, Flight

LEMMA ScoreOfUnscored ==
  ASSUME NEW f \in Flight, NEW list
  PROVE  Score(Unscored(f), list) = Score(f, list)
  BY UnscoredFields, Zenon DEF Score, AmenitiesShare

LEMMA ScoresDependOnFlights ==
  ASSUME NEW list \in Seq(Flight), NEW other \in Seq(Flight),
         SameBesidesScores(list, other)
  PROVE  /\ Worst(other) = Worst(list)
         /\ \A f : Score(f, other) = Score(f, list)
  <1>1. \A l \in Seq(Flight) :
          /\ Prices(l) = {g.price : g \in {Unscored(f) : f \in Range(l)}}
          /\ Durations(l) = {g.minutes : g \in {Unscored(f) : f \in Range(l)}}
          /\ Stops(l) = {g.stops : g \in {Unscored(f) : f \in Range(l)}}
          /\ Amenities(l) = {g.amenities : g \in {Unscored(f) : f \in Range(l)}}
    <2>. SUFFICES ASSUME NEW l \in Seq(Flight)
                  PROVE  /\ Prices(l) = {g.price : g \in {Unscored(f) : f \in Range(l)}}
                         /\ Durations(l) = {g.minutes : g \in {Unscored(f) : f \in Range(l)}}
                         /\ Stops(l) = {g.stops : g \in {Unscored(f) : f \in Range(l)}}
                         /\ Amenities(l) = {g.amenities : g \in {Unscored(f) : f \in Range(l)}}
      OBVIOUS
    <2>1. \A f \in Range(l) : f \in Flight
      BY DEF Range
    <2>2. \A f \in Range(l) :
            /\ Unscored(f).price = f.price /\ Unscored(f).minutes = f.minutes
            /\ Unscored(f).stops = f.stops /\ Unscored(f).amenities = f.amenities
      BY <2>1, UnscoredFields, Zenon
    <2>. QED
      BY <2>2 DEF Prices, Durations, Stops, Amenities
  <1>2. /\ Prices(other) = Prices(list) /\ Durations(other) = Durations(list)
        /\ Stops(other) = Stops(list) /\ Amenities(other) = Amenities(list)
    BY <1>1, Zenon DEF SameBesidesScores
  <1>. QED
    BY <1>2, Zenon DEF Worst, Score, AmenitiesShare

\* Rank only sets the scores.
LEMMA Ranked ==
  ASSUME NEW list \in Seq(Flight)
  PROVE  /\ RankFlights(list) \in Seq(Flight)
         /\ DOMAIN RankFlights(list) = DOMAIN list
         /\ \A i \in DOMAIN list :
              /\ Unscored(RankFlights(list)[i]) = Unscored(list[i])
              /\ RankFlights(list)[i].score = Score(list[i], list)
         /\ SameBesidesScores(list, RankFlights(list))
  <1>. DEFINE r == RankFlights(list)
  <1>1. DOMAIN r = DOMAIN list
        /\ \A i \in DOMAIN list :
             r[i] = [list[i] EXCEPT !.score = Score(list[i], list)]
    BY DEF RankFlights
  <1>2. \A i \in DOMAIN list : list[i] \in Flight /\ Score(list[i], list) \in Nat
    <2>. SUFFICES ASSUME NEW i \in DOMAIN list
                  PROVE  list[i] \in Flight /\ Score(list[i], list) \in Nat
      OBVIOUS
    <2>1. list # <<>> /\ list[i] \in Range(list) /\ list[i] \in Flight
      BY DEF Range
    <2>2. Score(list[i], list) \in 0..Worst(list) /\ Worst(list) \in Nat
      BY <2>1, ScoresNormalisedAndFair, Zenon
    <2>. QED
      BY <2>1, <2>2
  <1>3. \A i \in DOMAIN list :
          /\ r[i] \in Flight /\ Unscored(r[i]) = Unscored(list[i])
          /\ r[i].score = Score(list[i], list)
    <2>. SUFFICES ASSUME NEW i \in DOMAIN list
                  PROVE  /\ r[i] \in Flight /\ Unscored(r[i]) = Unscored(list[i])
                         /\ r[i].score = Score(list[i], list)
      OBVIOUS
    <2>. DEFINE f == list[i]
                n == Score(f, list)
    <2>1. f \in Flight /\ n \in Nat /\ r[i] = [f EXCEPT !.score = n]
      BY <1>1, <1>2
    <2>. HIDE DEF f, n, r
    <2>2. /\ [f EXCEPT !.score = n] \in Flight
          /\ [f EXCEPT !.score = n].score = n
          /\ Unscored([f EXCEPT !.score = n]) = Unscored(f)
      BY <2>1, UnscoredFields
    <2>. QED
      BY <2>1, <2>2 DEF f, n
  <1>4. r \in Seq(Flight)
    <2>1. Len(list) \in Nat /\ DOMAIN list = 1..Len(list)
      OBVIOUS
    <2>2. r = [i \in 1..Len(list) |-> r[i]]
      BY <2>1 DEF RankFlights
    <2>. QED
      BY <2>1, <2>2, <1>3
  <1>5. SameBesidesScores(list, r)
    <2>1. \A l \in Seq(Flight) :
            {Unscored(f) : f \in Range(l)} = {Unscored(l[i]) : i \in DOMAIN l}
      BY DEF Range
    <2>2. {Unscored(r[i]) : i \in DOMAIN r} = {Unscored(list[i]) : i \in DOMAIN list}
      BY <1>1, <1>3
    <2>. QED
      BY <2>1, <2>2, <1>4, Zenon DEF SameBesidesScores
  <1>. QED
    BY <1>1, <1>3, <1>4, <1>5
-----------------------------------------------------------------------------
(* The order of a list *)

\* The positions of a list that are kept can be taken in their order.
LEMMA EnumerationExists ==
  ASSUME NEW n \in Nat, NEW kept \in SUBSET (1..n)
  PROVE  \E e \in Bijection(1..Cardinality(kept), kept) :
           \A i, j \in 1..Cardinality(kept) : i < j => e[i] < e[j]
  <1>. DEFINE Enumerated(K) ==
                \E e \in Bijection(1..Cardinality(K), K) :
                  \A i, j \in 1..Cardinality(K) : i < j => e[i] < e[j]
              T == {m \in Nat : \A K \in SUBSET (1..m) : Enumerated(K)}
  <1>1. 0 \in T
    <2>1. \A K \in SUBSET (1..0) : K = {}
      OBVIOUS
    <2>2. Cardinality({}) = 0 /\ 1..0 = {}
      BY FS_EmptySet
    <2>3. <<>> \in Bijection({}, {})
      BY DEF Bijection, Injection, Surjection, IsInjective
    <2>4. Enumerated({})
      BY <2>2, <2>3
    <2>. QED
      BY <2>1, <2>4
  <1>2. ASSUME NEW m \in Nat, \A K \in SUBSET (1..m) : Enumerated(K),
               NEW K \in SUBSET (1..(m + 1))
        PROVE  Enumerated(K)
    <2>. DEFINE L == K \ {m + 1}
                c == Cardinality(L)
    <2>1. L \in SUBSET (1..m)
      OBVIOUS
    <2>2. PICK e \in Bijection(1..c, L) : \A i, j \in 1..c : i < j => e[i] < e[j]
      BY <1>2, <2>1
    <2>3. IsFiniteSet(L) /\ c \in Nat
      <3>1. IsFiniteSet(1..m)
        BY FS_Interval
      <3>2. IsFiniteSet(L)
        BY <2>1, <3>1, FS_Subset
      <3>. QED
        BY <3>2, FS_CardinalityType
    <2>4. CASE m + 1 \notin K
      <3>1. L = K
        BY <2>4
      <3>. QED
        BY <2>2, <3>1
    <2>5. CASE m + 1 \in K
      <3>1. Cardinality(K) = c + 1
        <4>1. K = L \cup {m + 1} /\ m + 1 \notin L
          BY <2>5
        <4>. QED
          BY <2>3, <4>1, FS_AddElement
      <3>. DEFINE d == [i \in 1..(c + 1) |-> IF i = c + 1 THEN m + 1 ELSE e[i]]
      <3>2. /\ e \in [1..c -> L]
            /\ \A i, j \in 1..c : e[i] = e[j] => i = j
            /\ \A t \in L : \E i \in 1..c : e[i] = t
        <4>. HIDE DEF c, L
        <4>1. e \in Bijection(1..c, L)
          BY <2>2
        <4>. QED
          BY <4>1 DEF Bijection, Injection, Surjection, IsInjective
      <3>. HIDE DEF c
      <3>3. /\ c + 1 \in 1..(c + 1) /\ d[c + 1] = m + 1
            /\ \A i \in 1..(c + 1) : i # c + 1 =>
                 i \in 1..c /\ i < c + 1 /\ d[i] = e[i] /\ d[i] \in L
        BY <2>3, <3>2
      <3>4. /\ \A t \in L : t \in 1..m /\ t \in K /\ t # m + 1 /\ t < m + 1
            /\ \A t \in K : t = m + 1 \/ t \in L
        BY <2>1
      <3>. HIDE DEF d, L
      <3>5. d \in Bijection(1..(c + 1), K)
        <4>1. d \in [1..(c + 1) -> K]
          BY <2>5, <3>3, <3>4 DEF d
        <4>2. \A i, j \in 1..(c + 1) : d[i] = d[j] => i = j
          BY <3>2, <3>3, <3>4
        <4>3. \A t \in K : \E i \in 1..(c + 1) : d[i] = t
          <5>1. \A i \in 1..c : i \in 1..(c + 1) /\ i # c + 1
            BY <2>3
          <5>. QED
            BY <3>2, <3>3, <3>4, <5>1
        <4>. QED
          BY <4>1, <4>2, <4>3, BijectionIs
      <3>6. \A i, j \in 1..(c + 1) : i < j => d[i] < d[j]
        <4>. SUFFICES ASSUME NEW i \in 1..(c + 1), NEW j \in 1..(c + 1), i < j
                      PROVE  d[i] < d[j]
          OBVIOUS
        <4>1. i # c + 1
          BY <2>3
        <4>2. CASE j = c + 1
          BY <3>3, <3>4, <4>1, <4>2
        <4>3. CASE j # c + 1
          BY <2>2, <3>3, <4>1, <4>3
        <4>. QED
          BY <4>2, <4>3
      <3>. QED
        BY <3>1, <3>5, <3>6
    <2>. QED
      BY <2>4, <2>5
  <1>3. T = Nat
    <2>1. T \in SUBSET Nat
      OBVIOUS
    <2>2. ASSUME NEW m \in T PROVE m + 1 \in T
      <3>1. m \in Nat /\ \A K \in SUBSET (1..m) : Enumerated(K)
        OBVIOUS
      <3>. HIDE DEF Enumerated
      <3>2. \A K \in SUBSET (1..(m + 1)) : Enumerated(K)
        BY <1>2, <3>1
      <3>3. m + 1 \in Nat
        BY <3>1
      <3>. QED
        BY <3>2, <3>3
    <2>. HIDE DEF T
    <2>. QED
      BY <1>1, <2>1, <2>2, InductiveSet
  <1>. QED
    BY <1>3 DEF T

\* A loop that appends some elements of a list leaves a list.
LEMMA KeepExists ==
  ASSUME NEW S, NEW list \in Seq(S), NEW kept \in SUBSET DOMAIN list
  PROVE  \E left : left \in Keep(list, kept)
  <1>. DEFINE c == Cardinality(kept)
  <1>1. Len(list) \in Nat /\ kept \in SUBSET (1..Len(list))
    OBVIOUS
  <1>2. PICK e \in Bijection(1..c, kept) : \A i, j \in 1..c : i < j => e[i] < e[j]
    BY <1>1, EnumerationExists
  <1>3. DOMAIN e = 1..c
    BY DEF Bijection, Injection
  <1>4. [i \in 1..c |-> list[e[i]]] \in Keep(list, kept)
    BY <1>2, <1>3 DEF Keep
  <1>. QED
    BY <1>4

\* Is other the list in an order of its own?
Permuted(other, list) ==
  \E p \in Bijection(DOMAIN list, DOMAIN list) : other = [i \in DOMAIN list |-> list[p[i]]]

LEMMA PermutedBack ==
  ASSUME NEW list, list = [i \in DOMAIN list |-> list[i]], NEW other,
         Permuted(other, list)
  PROVE  Permuted(list, other)
  <1>. DEFINE D == DOMAIN list
  <1>1. PICK p \in Bijection(D, D) : other = [i \in D |-> list[p[i]]]
    BY DEF Permuted
  <1>. DEFINE b == [k \in D |-> CHOOSE i \in D : p[i] = k]
  <1>2. /\ p \in [D -> D] /\ \A i, j \in D : p[i] = p[j] => i = j
        /\ \A k \in D : \E i \in D : p[i] = k
    BY BijectionIs
  <1>3. \A k \in D : b[k] \in D /\ p[b[k]] = k
    BY <1>2
  <1>4. \A i \in D : b[p[i]] = i
    BY <1>2, <1>3
  <1>. HIDE DEF b
  <1>5. b \in Bijection(D, D)
    <2>1. b \in [D -> D]
      BY <1>3 DEF b
    <2>2. \A j, k \in D : b[j] = b[k] => j = k
      BY <1>3
    <2>3. \A i \in D : \E k \in D : b[k] = i
      BY <1>2, <1>4
    <2>. QED
      BY <2>1, <2>2, <2>3, BijectionIs
  <1>6. DOMAIN other = D
    BY <1>1
  <1>7. \A k \in D : other[b[k]] = list[k]
    BY <1>1, <1>3
  <1>8. list = [k \in D |-> other[b[k]]]
    BY <1>7
  <1>. QED
    BY <1>5, <1>6, <1>8 DEF Permuted

\* Sorting forgets the order, except for what the sort cannot tell apart.
LEMMA SortingsForget ==
  ASSUME NEW list, NEW other, Permuted(other, list), NEW sort
  PROVE  Sortings(other, sort) \subseteq Sortings(list, sort)
  <1>. DEFINE D == DOMAIN list
  <1>1. PICK p \in Bijection(D, D) : other = [i \in D |-> list[p[i]]]
    BY DEF Permuted
  <1>. SUFFICES ASSUME NEW l \in Sortings(other, sort) PROVE l \in Sortings(list, sort)
    OBVIOUS
  <1>2. DOMAIN other = D
    BY <1>1
  <1>3. PICK e \in Bijection(D, D) : l = [i \in D |-> other[e[i]]]
    BY <1>2, Zenon DEF Sortings
  <1>4. Ordered(l, sort)
    BY Zenon DEF Sortings
  <1>. DEFINE q == [i \in D |-> p[e[i]]]
  <1>5. /\ p \in [D -> D] /\ \A i, j \in D : p[i] = p[j] => i = j
        /\ \A k \in D : \E i \in D : p[i] = k
        /\ e \in [D -> D] /\ \A i, j \in D : e[i] = e[j] => i = j
        /\ \A k \in D : \E i \in D : e[i] = k
    BY BijectionIs
  <1>6. q \in Bijection(D, D)
    <2>1. q \in [D -> D]
      BY <1>5
    <2>2. \A i, j \in D : q[i] = q[j] => i = j
      BY <1>5
    <2>3. \A k \in D : \E i \in D : q[i] = k
      BY <1>5
    <2>. QED
      BY <2>1, <2>2, <2>3, BijectionIs
  <1>7. l = [i \in D |-> list[q[i]]]
    BY <1>1, <1>3, <1>5
  <1>. HIDE DEF q
  <1>. QED
    BY <1>4, <1>6, <1>7, Zenon DEF Sortings

\* A flight is scored alike wherever it is in the list.
LEMMA RanksPermuted ==
  ASSUME NEW list \in Seq(Flight), NEW other \in Seq(Flight), Permuted(other, list)
  PROVE  Permuted(RankFlights(other), RankFlights(list))
  <1>. DEFINE D == DOMAIN list
  <1>1. PICK p \in Bijection(D, D) : other = [i \in D |-> list[p[i]]]
    BY DEF Permuted
  <1>2. /\ p \in [D -> D] /\ \A k \in D : \E i \in D : p[i] = k
    BY BijectionIs
  <1>3. DOMAIN other = D /\ \A i \in D : other[i] = list[p[i]]
    BY <1>1
  <1>4. Range(other) = Range(list)
    BY <1>2, <1>3 DEF Range
  <1>5. \A f : Score(f, other) = Score(f, list)
    BY <1>4, ScoresDependOnFlights, Zenon DEF SameBesidesScores
  <1>6. DOMAIN RankFlights(list) = D
    BY DEF RankFlights
  <1>7. RankFlights(other) = [i \in D |-> [list[p[i]] EXCEPT !.score = Score(list[p[i]], list)]]
    BY <1>3, <1>5, Zenon DEF RankFlights
  <1>8. \A i \in D : RankFlights(list)[p[i]]
                       = [list[p[i]] EXCEPT !.score = Score(list[p[i]], list)]
    BY <1>2 DEF RankFlights
  <1>9. RankFlights(other) = [i \in D |-> RankFlights(list)[p[i]]]
    BY <1>7, <1>8
  <1>. QED
    BY <1>1, <1>6, <1>9 DEF Permuted

\* What a loop leaves of another order of a list is another order of what it leaves.
LEMMA KeptPermuted ==
  ASSUME NEW S, NEW list \in Seq(S), NEW other \in Seq(S),
         NEW p \in Bijection(DOMAIN list, DOMAIN list),
         other = [i \in DOMAIN list |-> list[p[i]]],
         NEW K \in SUBSET DOMAIN list, NEW L \in SUBSET DOMAIN list,
         \A i \in DOMAIN list : i \in L <=> p[i] \in K,
         NEW left \in Keep(list, K), NEW right \in Keep(other, L)
  PROVE  Permuted(right, left)
  <1>. DEFINE D == DOMAIN list
  <1>1. DOMAIN other = D /\ IsFiniteSet(D) /\ \A i \in D : other[i] = list[p[i]]
    <2>1. D = 1..Len(list) /\ Len(list) \in Nat
      OBVIOUS
    <2>. QED
      BY <2>1, FS_Interval
  <1>2. /\ left \in Seq(S) /\ DOMAIN left = 1..Cardinality(K)
        /\ \E e \in Bijection(DOMAIN left, K) :
             \A i \in DOMAIN left : left[i] = list[e[i]]
    BY Kept
  <1>3. /\ right \in Seq(S) /\ DOMAIN right = 1..Cardinality(L)
        /\ \E e \in Bijection(DOMAIN right, L) :
             \A i \in DOMAIN right : right[i] = other[e[i]]
    BY <1>1, Kept
  <1>4. Cardinality(L) = Cardinality(K)
    BY <1>1, SameCount
  <1>. DEFINE C == DOMAIN left
  <1>5. DOMAIN right = C
    BY <1>2, <1>3, <1>4
  <1>6. PICK a \in Bijection(C, K) : \A i \in C : left[i] = list[a[i]]
    BY <1>2
  <1>7. PICK b \in Bijection(C, L) : \A i \in C : right[i] = other[b[i]]
    BY <1>3, <1>5
  <1>8. /\ a \in [C -> K] /\ \A i, j \in C : a[i] = a[j] => i = j
        /\ \A k \in K : \E i \in C : a[i] = k
    BY <1>6, BijectionIs
  <1>9. /\ b \in [C -> L] /\ \A i, j \in C : b[i] = b[j] => i = j
        /\ \A k \in L : \E i \in C : b[i] = k
    BY <1>7, BijectionIs
  <1>10. /\ p \in [D -> D] /\ \A i, j \in D : p[i] = p[j] => i = j
         /\ \A k \in D : \E i \in D : p[i] = k
    BY BijectionIs
  <1>. DEFINE q == [i \in C |-> CHOOSE j \in C : a[j] = p[b[i]]]
  <1>11. \A i \in C : b[i] \in D /\ p[b[i]] \in K
    BY <1>9
  <1>12. \A i \in C : q[i] \in C /\ a[q[i]] = p[b[i]]
    BY <1>8, <1>11
  <1>. HIDE DEF q
  <1>13. q \in Bijection(C, C)
    <2>1. q \in [C -> C]
      BY <1>12 DEF q
    <2>2. ASSUME NEW i \in C, NEW j \in C, q[i] = q[j] PROVE i = j
      <3>1. p[b[i]] = p[b[j]]
        BY <1>12, <2>2
      <3>2. b[i] = b[j]
        <4>1. b[i] \in D /\ b[j] \in D
          BY <1>11
        <4>. QED
          BY <1>10, <3>1, <4>1
      <3>. QED
        BY <1>9, <3>2
    <2>3. ASSUME NEW j \in C PROVE \E i \in C : q[i] = j
      <3>1. a[j] \in D /\ a[j] \in K
        BY <1>8
      <3>2. PICK k \in D : p[k] = a[j]
        BY <3>1, <1>10
      <3>3. k \in L
        BY <3>1, <3>2
      <3>4. PICK i \in C : b[i] = k
        BY <3>3, <1>9
      <3>5. a[q[i]] = a[j] /\ q[i] \in C
        BY <3>2, <3>4, <1>12
      <3>. QED
        BY <3>5, <1>8
    <2>. QED
      BY <2>1, <2>2, <2>3, BijectionIs
  <1>14. \A i \in C : right[i] = left[q[i]]
    BY <1>1, <1>6, <1>7, <1>11, <1>12
  <1>15. right = [i \in C |-> left[q[i]]]
    <2>1. right = [i \in DOMAIN right |-> right[i]]
      BY <1>3
    <2>2. right = [i \in C |-> right[i]]
      BY <1>5, <2>1
    <2>. QED
      BY <1>14, <2>2
  <1>. QED
    BY <1>13, <1>15 DEF Permuted

LEMMA OutcomesForget ==
  ASSUME NEW list \in Seq(Flight), NEW other \in Seq(Flight), Permuted(other, list),
         NEW c
  PROVE  Outcomes(other, c) \subseteq Outcomes(list, c)
  <1>. DEFINE Answers(k) == Sortings(RankFlights(k), SortOf(c))
  <1>0. \A x, l : l \in Outcomes(x, c)
                   <=> \E k \in FilterFlights(x, c.filter) : l \in Answers(k)
    BY DEF Outcomes
  <1>. SUFFICES ASSUME NEW right \in FilterFlights(other, c.filter),
                       NEW l, l \in Answers(right)
                PROVE  \E left \in FilterFlights(list, c.filter) : l \in Answers(left)
    <2>. HIDE DEF Answers
    <2>. QED
      BY <1>0
  <1>1. PICK left \in FilterFlights(list, c.filter) :
          left \in Seq(Flight) /\ right \in Seq(Flight) /\ Permuted(right, left)
    <2>1. CASE IsSet(c.filter)
      <3>. DEFINE D == DOMAIN list
                  K == {i \in D : Passes(list[i], c.filter)}
                  L == {i \in DOMAIN other : Passes(other[i], c.filter)}
      <3>1. PICK p \in Bijection(D, D) : other = [i \in D |-> list[p[i]]]
        BY DEF Permuted
      <3>2. /\ DOMAIN other = D /\ p \in [D -> D]
            /\ \A i \in D : other[i] = list[p[i]] /\ p[i] \in D
        BY <3>1, BijectionIs
      <3>3. K \in SUBSET D /\ L \in SUBSET D /\ L \in SUBSET DOMAIN other
            /\ \A i \in D : i \in L <=> p[i] \in K
        BY <3>2
      <3>4. /\ FilterFlights(list, c.filter) = Keep(list, K)
            /\ FilterFlights(other, c.filter) = Keep(other, L)
        BY <2>1, Zenon DEF FilterFlights
      <3>. HIDE DEF K, L
      <3>5. PICK left : left \in Keep(list, K)
        BY <3>3, KeepExists
      <3>6. right \in Keep(other, L)
        BY <3>4
      <3>7. left \in Seq(Flight) /\ right \in Seq(Flight)
        BY <3>3, <3>5, <3>6, Kept
      <3>8. Permuted(right, left)
        BY <3>1, <3>3, <3>5, <3>6, KeptPermuted
      <3>. QED
        BY <3>4, <3>5, <3>7, <3>8
    <2>2. CASE ~IsSet(c.filter)
      BY <2>2 DEF FilterFlights
    <2>. QED
      BY <2>1, <2>2
  <1>2. Permuted(RankFlights(right), RankFlights(left))
    BY <1>1, RanksPermuted
  <1>3. l \in Sortings(RankFlights(left), SortOf(c))
    BY <1>2, SortingsForget
  <1>. QED
    BY <1>1, <1>3

-----------------------------------------------------------------------------
(* The inductive invariant *)

FilterDone == stage \in {"filtered", "ranked", "sorted", "answered"}
RankDone == stage \in {"ranked", "sorted"} \/ status = 200
SortDone == stage = "sorted" \/ status = 200

\* Has f passed the filters that were applied so far?
Survives(f) ==
  /\ Matches(f, criteria)
  /\ FilterDone /\ IsSet(criteria.filter) => Passes(f, criteria.filter)

Survivors == {k \in DOMAIN offers : Survives(FlightToDTO(offers[k]))}

Types ==
  /\ stage \in {"received", "accepted", "found", "filtered", "ranked", "sorted",
                "answered"}
  /\ criteria \in Criteria
  /\ offers \in Seq(Offers)
  /\ flights \in Seq(Flight)
  /\ status \in {0, 200, 400, 404}
  /\ status = 0 <=> stage # "answered"

Accepted == stage # "received" /\ status # 400 => Valid(criteria)

\* Every flight of the list comes from its own offer, one that survived.
Traced ==
  status # 400 =>
    \E w \in Bijection(DOMAIN flights, Survivors) :
      \A i \in DOMAIN flights : Unscored(flights[i]) = FlightToDTO(offers[w[i]])

Scored ==
  \A i \in DOMAIN flights :
    flights[i].score = IF RankDone THEN Score(flights[i], flights) ELSE 0

SortedAsAsked == SortDone => Ordered(flights, SortOf(criteria))

PipelineInv == Types /\ Accepted /\ Traced /\ Scored /\ SortedAsAsked

\* Filters look at no score.
LEMMA PassesUnscored ==
  ASSUME NEW f \in Flight, NEW o
  PROVE  Passes(Unscored(f), o) <=> Passes(f, o)
  <1>1. /\ Unscored(f).airline = f.airline /\ Unscored(f).price = f.price
        /\ Unscored(f).stops = f.stops /\ Unscored(f).minutes = f.minutes
        /\ Unscored(f).departure = f.departure /\ Unscored(f).arrival = f.arrival
    BY DEF Unscored, Flight
  <1>. QED
    BY <1>1, Zenon DEF Passes

\* Normalisation gives every field its type, whatever text of a time, a zone or a
\* class an API answers.
LEMMA AirlineNames == {"JT", "ID", "QZ", "GA"} \subseteq STRING
  BY AnswersAssumption DEF Names

LEMMA LionAirTyped ==
  ASSUME NEW raw \in LionAirRaw
  PROVE  LionAirFlight(raw) \in Flight /\ LionAirFlight(raw).score = 0
  <1>1. ASSUME NEW time \in ZonedTexts PROVE ParseTimeWithLocation(time) \in Times
    BY <1>1, AnswersAssumption DEF ZonedTexts, ParseTimeWithLocation, ZeroTime, Times
  <1>2. /\ ParseTimeWithLocation(raw.departure) \in Times
        /\ ParseTimeWithLocation(raw.arrival) \in Times
    BY <1>1 DEF LionAirRaw
  <1>3. ToLower[raw.fareType] \in STRING
    <2>1. DOMAIN ToLower = {"ECONOMY", "BUSINESS", "FIRST"}
      BY DEF ToLower
    <2>2. raw.fareType \in {"ECONOMY", "BUSINESS", "FIRST"}
      BY <2>1 DEF LionAirRaw
    <2>3. /\ ToLower["ECONOMY"] = "economy" /\ ToLower["BUSINESS"] = "business"
          /\ ToLower["FIRST"] = "first"
      BY DEF ToLower
    <2>4. ToLower[raw.fareType] \in Names
      BY <2>2, <2>3 DEF Names
    <2>. QED
      BY <2>4, AnswersAssumption
  <1>4. raw.wifi + raw.meals \in Nat
    BY DEF LionAirRaw
  <1>5. /\ raw.from \in STRING /\ raw.to \in STRING /\ raw.flightTime \in Nat
        /\ raw.stopCount \in Nat /\ raw.total \in Nat /\ raw.seatsLeft \in Nat
    BY DEF LionAirRaw
  <1>. QED
    BY <1>2, <1>3, <1>4, <1>5, AirlineNames DEF LionAirFlight, Flight

LEMMA MinutesRead ==
  ASSUME NEW d \in DurationTexts
  PROVE  ConvertDurationToMinutes(d) \in Nat
  <1>1. CASE d = Malformed
    BY <1>1 DEF ConvertDurationToMinutes
  <1>2. CASE d # Malformed /\ d \in [h : Nat, m : Nat \cup {Unset}]
    <2>1. IsSet(d.h) /\ d.h \in Nat /\ (IF IsSet(d.m) THEN d.m ELSE 0) \in Nat
      BY <1>2, AnswersAssumption DEF IsSet
    <2>2. ConvertDurationToMinutes(d) = 60 * d.h + (IF IsSet(d.m) THEN d.m ELSE 0)
      BY <1>2, <2>1, Zenon DEF ConvertDurationToMinutes
    <2>. QED
      BY <2>1, <2>2
  <1>3. CASE d # Malformed /\ d \in [h : {Unset}, m : Nat]
    <2>1. ~IsSet(d.h) /\ d.m \in Nat
      BY <1>3 DEF IsSet
    <2>2. ConvertDurationToMinutes(d) = 60 * d.m
      BY <1>3, <2>1, Zenon DEF ConvertDurationToMinutes
    <2>. QED
      BY <2>1, <2>2
  <1>. QED
    BY <1>1, <1>2, <1>3 DEF DurationTexts

\* The loop over the connections of a Batik Air flight.
Totals(raw, total) ==
  total = [n \in 0..Len(raw.connections) |->
             IF n = 0 THEN ConvertDurationToMinutes(raw.travelTime)
             ELSE total[n - 1] + ConvertDurationToMinutes(raw.connections[n])]

LEMMA TotalsExist ==
  ASSUME NEW raw \in BatikAirRaw
  PROVE  \E total : Totals(raw, total)
  <1>. DEFINE length == Len(raw.connections)
              first == ConvertDurationToMinutes(raw.travelTime)
              next == [n \in Nat |-> [sum \in Nat |->
                        IF n \in 1..length
                        THEN sum + ConvertDurationToMinutes(raw.connections[n])
                        ELSE sum]]
  <1>1. /\ length \in Nat /\ first \in Nat
        /\ \A n \in 1..length : ConvertDurationToMinutes(raw.connections[n]) \in Nat
    BY MinutesRead DEF BatikAirRaw
  <1>2. next \in [Nat -> [Nat -> Nat]]
    BY <1>1
  <1>3. PICK f : Recurs(f, Nat, first, next)
    <2>. HIDE DEF next, first
    <2>. QED
      BY <1>1, <1>2, RecursionExists
  <1>. DEFINE total == [n \in 0..length |-> f[n]]
  <1>4. ASSUME NEW n \in 0..length, n # 0
        PROVE  total[n] = total[n - 1] + ConvertDurationToMinutes(raw.connections[n])
    <2>1. n \in Nat /\ n \in 1..length /\ n - 1 \in Nat /\ n - 1 \in 0..length
      BY <1>1, <1>4
    <2>2. f[n] = next[n][f[n - 1]] /\ f[n - 1] \in Nat
      <3>. HIDE DEF next, first
      <3>. QED
        BY <1>3, <1>4, <2>1 DEF Recurs
    <2>3. next[n][f[n - 1]] = f[n - 1] + ConvertDurationToMinutes(raw.connections[n])
      BY <2>1, <2>2
    <2>. QED
      BY <2>1, <2>2, <2>3
  <1>5. total[0] = first
    <2>. HIDE DEF next, first
    <2>. QED
      BY <1>1, <1>3 DEF Recurs
  <1>6. total = [n \in 0..length |-> total[n]]
    OBVIOUS
  <1>. HIDE DEF total
  <1>7. Totals(raw, total)
    BY <1>4, <1>5, <1>6 DEF Totals
  <1>. QED
    BY <1>7

LEMMA TotalsTyped ==
  ASSUME NEW raw \in BatikAirRaw, NEW total, Totals(raw, total)
  PROVE  total[Len(raw.connections)] \in Nat
  <1>. DEFINE length == Len(raw.connections)
              T == {n \in Nat : n \in 0..length => total[n] \in Nat}
  <1>1. /\ length \in Nat /\ ConvertDurationToMinutes(raw.travelTime) \in Nat
        /\ \A n \in 1..length : ConvertDurationToMinutes(raw.connections[n]) \in Nat
    BY MinutesRead DEF BatikAirRaw
  <1>2. 0 \in T
    BY <1>1 DEF Totals
  <1>3. ASSUME NEW n \in T PROVE n + 1 \in T
    <2>1. CASE n + 1 \in 0..length
      <3>1. /\ total[n] \in Nat /\ n + 1 # 0 /\ n + 1 \in 1..length /\ (n + 1) - 1 = n
        BY <1>1, <2>1
      <3>2. total[n + 1] = total[n] + ConvertDurationToMinutes(raw.connections[n + 1])
        BY <2>1, <3>1 DEF Totals
      <3>. QED
        BY <1>1, <3>1, <3>2
    <2>. QED
      BY <2>1
  <1>. HIDE DEF T
  <1>4. T = Nat
    <2>1. T \in SUBSET Nat
      BY DEF T
    <2>. QED
      BY <1>2, <1>3, <2>1, InductiveSet
  <1>. QED
    BY <1>1, <1>4 DEF T

LEMMA ActualDurationTyped ==
  ASSUME NEW raw \in BatikAirRaw
  PROVE  GetActualDuration(raw) \in Nat
  <1>. DEFINE total == CHOOSE f : Totals(raw, f)
  <1>1. GetActualDuration(raw) = total[Len(raw.connections)]
    BY Zenon DEF GetActualDuration, Totals
  <1>2. Totals(raw, total)
    BY TotalsExist, Zenon
  <1>. HIDE DEF total
  <1>. QED
    BY <1>1, <1>2, TotalsTyped

LEMMA BatikAirTyped ==
  ASSUME NEW raw \in BatikAirRaw
  PROVE  BatikAirFlight(raw) \in Flight /\ BatikAirFlight(raw).score = 0
  <1>1. CASE Malformed \in {raw.departure, raw.arrival}
    <2>1. ZeroFlight \in Flight /\ ZeroFlight.score = 0
      BY DEF ZeroFlight, ZeroTime, Times, Flight
    <2>. QED
      BY <1>1, <2>1 DEF BatikAirFlight
  <1>2. CASE Malformed \notin {raw.departure, raw.arrival}
    <2>1. raw.departure \in Times /\ raw.arrival \in Times
      BY <1>2 DEF BatikAirRaw
    <2>2. GetCabinClass(raw.class) \in STRING
      <3>1. DOMAIN CabinOfClass = {"Y", "W", "C", "J", "F"}
        BY DEF CabinOfClass
      <3>2. /\ CabinOfClass["Y"] = "economy" /\ CabinOfClass["W"] = "premium_economy"
            /\ CabinOfClass["C"] = "business" /\ CabinOfClass["J"] = "business"
            /\ CabinOfClass["F"] = "first"
        BY DEF CabinOfClass
      <3>3. GetCabinClass(raw.class) \in Names
        BY <3>1, <3>2 DEF GetCabinClass, Names
      <3>. QED
        BY <3>3, AnswersAssumption
    <2>3. raw.basePrice + raw.taxes \in Nat /\ Len(raw.onboardServices) \in Nat
      BY DEF BatikAirRaw
    <2>4. /\ raw.origin \in STRING /\ raw.destination \in STRING
          /\ raw.numberOfStops \in Nat /\ raw.seatsAvailable \in Nat
      BY DEF BatikAirRaw
    <2>. QED
      BY <1>2, <2>1, <2>2, <2>3, <2>4, ActualDurationTyped, AirlineNames
      DEF BatikAirFlight, Flight
  <1>. QED
    BY <1>1, <1>2

LEMMA AirAsiaTyped ==
  ASSUME NEW raw \in AirAsiaRaw
  PROVE  AirAsiaFlight(raw) \in Flight /\ AirAsiaFlight(raw).score = 0
  <1>1. TruncatedMinutes(raw.durationHundredths) \in Nat
    <2>. DEFINE n == raw.durationHundredths
    <2>1. n \in Nat
      <3>1. n \in 0..2999
        BY DEF AirAsiaRaw
      <3>. HIDE DEF n
      <3>. QED
        BY <3>1
    <2>. HIDE DEF n
    <2>2. (n * 60) \div 100 \in Nat
      BY <2>1
    <2>3. n >= 205 => (n * 60) \div 100 >= 1
      BY <2>1
    <2>4. n \in BelowWholeMinute => n >= 205
      BY DEF BelowWholeMinute
    <2>5. TruncatedMinutes(n) \in Nat
      BY <2>1, <2>2, <2>3, <2>4 DEF TruncatedMinutes
    <2>. QED
      BY <2>5 DEF n
  <1>2. (IF raw.directFlight THEN 0 ELSE Len(raw.stops)) \in Nat
    BY DEF AirAsiaRaw
  <1>3. /\ raw.fromAirport \in STRING /\ raw.toAirport \in STRING
        /\ raw.departTime \in Times /\ raw.arriveTime \in Times
        /\ raw.priceIDR \in Nat /\ raw.seats \in Nat /\ raw.cabinClass \in STRING
    BY DEF AirAsiaRaw
  <1>. QED
    BY <1>1, <1>2, <1>3, AirlineNames DEF AirAsiaFlight, Flight

LEMMA GarudaTyped ==
  ASSUME NEW raw \in GarudaRaw
  PROVE  GarudaFlight(raw) \in Flight /\ GarudaFlight(raw).score = 0
  <1>1. /\ raw.from \in STRING /\ raw.to \in STRING /\ raw.departure \in Times
        /\ raw.arrival \in Times /\ raw.durationMinutes \in Nat /\ raw.stops \in Nat
        /\ raw.amount \in Nat /\ raw.availableSeats \in Nat /\ raw.fareClass \in STRING
        /\ Len(raw.amenities) \in Nat
    BY DEF GarudaRaw
  <1>. QED
    BY <1>1, AirlineNames DEF GarudaFlight, Flight

LEMMA OfferedFlight ==
  ASSUME NEW raw \in Offers
  PROVE  /\ FlightToDTO(raw) \in Flight /\ FlightToDTO(raw).score = 0
         /\ Unscored(FlightToDTO(raw)) = FlightToDTO(raw)
  <1>1. CASE raw \in LionAirRaw
    <2>1. FlightToDTO(raw) = LionAirFlight(raw)
      BY <1>1 DEF LionAirRaw, FlightToDTO
    <2>. QED
      BY <1>1, <2>1, LionAirTyped, UnscoredFields
  <1>2. CASE raw \in BatikAirRaw
    <2>1. FlightToDTO(raw) = BatikAirFlight(raw)
      BY <1>2 DEF BatikAirRaw, FlightToDTO
    <2>. QED
      BY <1>2, <2>1, BatikAirTyped, UnscoredFields
  <1>3. CASE raw \in AirAsiaRaw
    <2>1. FlightToDTO(raw) = AirAsiaFlight(raw)
      BY <1>3 DEF AirAsiaRaw, FlightToDTO
    <2>. QED
      BY <1>3, <2>1, AirAsiaTyped, UnscoredFields
  <1>4. CASE raw \in GarudaRaw
    <2>1. FlightToDTO(raw) = GarudaFlight(raw)
      BY <1>4 DEF GarudaRaw, FlightToDTO
    <2>. QED
      BY <1>4, <2>1, GarudaTyped, UnscoredFields
  <1>. QED
    BY <1>1, <1>2, <1>3, <1>4, PipelineAssumption DEF RawFlights

LEMMA EmptyTraced == <<>> \in Bijection({}, {})
  BY DEF Bijection, Injection, Surjection, IsInjective

LEMMA PipelineInit == Init => PipelineInv
  <1>. SUFFICES ASSUME Init PROVE PipelineInv
    OBVIOUS
  <1>1. Types
    BY DEF Init, Types
  <1>2. Traced
    <2>1. offers = <<>> /\ flights = <<>> /\ DOMAIN flights = {} /\ DOMAIN offers = {}
      BY DEF Init
    <2>2. Survivors = {}
      BY <2>1, Zenon DEF Survivors
    <2>. QED
      BY <2>1, <2>2, EmptyTraced DEF Traced
  <1>3. Accepted /\ Scored /\ SortedAsAsked
    BY DEF Init, Accepted, Scored, SortedAsAsked, SortDone
  <1>. QED
    BY <1>1, <1>2, <1>3 DEF PipelineInv

LEMMA BindKeeps == ASSUME PipelineInv, Bind PROVE PipelineInv'
  <1>1. Types'
    BY DEF PipelineInv, Types, Bind
  <1>2. Accepted'
    BY DEF PipelineInv, Types, Accepted, Bind
  <1>3. stage = "received" /\ ~FilterDone /\ ~RankDone /\ ~SortDone
    BY DEF PipelineInv, Types, Bind, FilterDone, RankDone, SortDone
  <1>4. ~RankDone' /\ ~SortDone' /\ (status' # 400 => ~FilterDone' /\ status # 400)
    BY DEF PipelineInv, Types, Bind, FilterDone, RankDone, SortDone
  <1>5. UNCHANGED <<criteria, offers, flights>>
    BY DEF Bind
  <1>6. Traced'
    <2>. SUFFICES ASSUME status' # 400 PROVE Traced'
      BY DEF Traced
    <2>1. Survivors' = Survivors
      BY <1>3, <1>4, <1>5, Zenon DEF Survivors, Survives
    <2>. QED
      BY <1>4, <1>5, <2>1, Zenon DEF PipelineInv, Traced
  <1>7. Scored' /\ SortedAsAsked'
    BY <1>3, <1>4, <1>5 DEF PipelineInv, Scored, SortedAsAsked
  <1>. QED
    BY <1>1, <1>2, <1>6, <1>7 DEF PipelineInv

LEMMA FindKeeps == ASSUME PipelineInv, Find PROVE PipelineInv'
  <1>. DEFINE list == [i \in DOMAIN offers' |-> FlightToDTO(offers'[i])]
              kept == {i \in DOMAIN offers' : Matches(FlightToDTO(offers'[i]), criteria)}
  <1>1. offers' \in Seq(Offers)
    <2>1. offers' \in SeqOf(Offers, MaxFlights)
      BY DEF Find, BoundedSeq
    <2>2. PICK m \in 0..MaxFlights : offers' \in [1..m -> Offers]
      BY <2>1, Zenon DEF SeqOf
    <2>. QED
      BY <2>2, PipelineAssumption
  <1>2. /\ list \in Seq(Flight) /\ kept \in SUBSET DOMAIN list
        /\ \A i \in kept : i \in DOMAIN offers' /\ list[i] = FlightToDTO(offers'[i])
    <2>1. Len(offers') \in Nat /\ DOMAIN offers' = 1..Len(offers')
          /\ \A i \in DOMAIN offers' : offers'[i] \in Offers
      BY <1>1
    <2>2. \A i \in DOMAIN offers' : FlightToDTO(offers'[i]) \in Flight
      BY <2>1, OfferedFlight, Zenon
    <2>. QED
      BY <2>1, <2>2
  <1>3. flights' \in Keep(list, kept)
    BY DEF Find, Answer
  <1>. HIDE DEF list, kept
  <1>4. PICK e \in Bijection(DOMAIN flights', kept) :
          \A i \in DOMAIN flights' : flights'[i] = list[e[i]]
    BY <1>2, <1>3, Kept
  <1>5. flights' \in Seq(Flight)
    BY <1>2, <1>3, Kept
  <1>6. /\ stage = "accepted" /\ stage' = "found" /\ UNCHANGED <<criteria, status>>
        /\ status = 0 /\ ~FilterDone' /\ ~RankDone' /\ ~SortDone'
    BY DEF PipelineInv, Types, Find, FilterDone, RankDone, SortDone
  <1>7. \A i \in DOMAIN flights' :
          /\ e[i] \in DOMAIN offers' /\ offers'[e[i]] \in Offers
          /\ flights'[i] = FlightToDTO(offers'[e[i]])
    <2>1. \A i \in DOMAIN flights' : e[i] \in kept
      BY <1>4, Zenon DEF Bijection, Injection
    <2>2. \A i \in DOMAIN offers' : offers'[i] \in Offers
      BY <1>1
    <2>. QED
      BY <1>2, <1>4, <2>1, <2>2, Zenon
  <1>8. Traced'
    <2>1. Survivors' = kept
      BY <1>6, Zenon DEF Survivors, Survives, kept
    <2>2. \A i \in DOMAIN flights' :
            Unscored(flights'[i]) = FlightToDTO(offers'[e[i]])
      BY <1>7, OfferedFlight, Zenon
    <2>. QED
      BY <1>4, <2>1, <2>2, Zenon DEF Traced
  <1>9. Scored'
    BY <1>6, <1>7, OfferedFlight, Zenon DEF Scored
  <1>10. Types' /\ Accepted' /\ SortedAsAsked'
    BY <1>1, <1>5, <1>6 DEF PipelineInv, Types, Accepted, SortedAsAsked
  <1>. QED
    BY <1>8, <1>9, <1>10 DEF PipelineInv
LEMMA FilterKeeps == ASSUME PipelineInv, Filter PROVE PipelineInv'
  <1>. DEFINE o == criteria.filter
              kept == {i \in DOMAIN flights : Passes(flights[i], o)}
  <1>1. /\ stage = "found" /\ stage' = "filtered" /\ UNCHANGED <<criteria, offers, status>>
        /\ status = 0 /\ status # 400 /\ ~FilterDone /\ FilterDone'
        /\ ~RankDone /\ ~RankDone' /\ ~SortDone'
    BY DEF PipelineInv, Types, Filter, FilterDone, RankDone, SortDone
  <1>2. flights \in Seq(Flight) /\ offers \in Seq(Offers)
    BY DEF PipelineInv, Types
  <1>3. /\ \A i \in DOMAIN flights : flights[i] \in Flight /\ flights[i].score = 0
        /\ \A k \in DOMAIN offers : offers[k] \in Offers
    BY <1>1, <1>2 DEF PipelineInv, Scored
  <1>4. PICK w \in Bijection(DOMAIN flights, Survivors) :
          \A i \in DOMAIN flights : Unscored(flights[i]) = FlightToDTO(offers[w[i]])
    BY <1>1, Zenon DEF PipelineInv, Traced
  <1>5. /\ \A i \in DOMAIN flights : w[i] \in Survivors
        /\ \A k \in Survivors : \E i \in DOMAIN flights : w[i] = k
    BY <1>4, Zenon DEF Bijection, Injection, Surjection
  <1>6. \A k \in Survivors : k \in DOMAIN offers
    BY DEF Survivors
  <1>7. CASE ~IsSet(o)
    <2>1. flights' = flights
      BY <1>7 DEF Filter, FilterFlights
    <2>2. Survivors' = Survivors
      BY <1>1, <1>7, Zenon DEF Survivors, Survives
    <2>3. Traced'
      BY <1>1, <1>4, <2>1, <2>2, Zenon DEF Traced
    <2>. QED
      BY <1>1, <2>1, <2>3
         DEF PipelineInv, Types, Accepted, Scored, SortedAsAsked
  <1>8. CASE IsSet(o)
    <2>1. flights' \in Keep(flights, kept)
      BY <1>8 DEF Filter, FilterFlights
    <2>2. kept \in SUBSET DOMAIN flights
          /\ \A i \in DOMAIN flights : i \in kept <=> Passes(flights[i], o)
      OBVIOUS
    <2>. HIDE DEF kept
    <2>3. flights' \in Seq(Flight)
      BY <2>1, <2>2, <1>2, Kept
    <2>4. PICK e \in Bijection(DOMAIN flights', kept) :
            \A i \in DOMAIN flights' : flights'[i] = flights[e[i]]
      BY <2>1, <2>2, <1>2, Kept
    <2>5. \A i \in DOMAIN flights' : e[i] \in DOMAIN flights
      BY <2>2, <2>4 DEF Bijection, Injection
    <2>6. \A t : t \in Survivors' <=> \E i \in kept : w[i] = t
      <3>1. \A k \in DOMAIN offers :
              k \in Survivors' <=> k \in Survivors /\ Passes(FlightToDTO(offers[k]), o)
        BY <1>1, <1>8, Zenon DEF Survivors, Survives
      <3>2. \A i \in DOMAIN flights :
              Passes(FlightToDTO(offers[w[i]]), o) <=> i \in kept
        BY <1>3, <1>4, <2>2, PassesUnscored
      <3>3. \A k \in Survivors' : k \in DOMAIN offers
        BY <1>1 DEF Survivors
      <3>. QED
        BY <3>1, <3>2, <3>3, <1>5, <1>6, <2>2
    <2>. DEFINE v == [i \in DOMAIN flights' |-> w[e[i]]]
    <2>7. v \in Bijection(DOMAIN flights', Survivors')
      <3>1. /\ \A i, j \in DOMAIN flights : w[i] = w[j] => i = j
            /\ \A i \in DOMAIN flights' : e[i] \in kept
            /\ \A i, j \in DOMAIN flights' : e[i] = e[j] => i = j
            /\ \A k \in kept : \E i \in DOMAIN flights' : e[i] = k
        BY BijectionIs
      <3>2. v \in [DOMAIN flights' -> Survivors']
        BY <3>1, <2>6
      <3>3. \A i, j \in DOMAIN flights' : v[i] = v[j] => i = j
        BY <3>1, <2>5
      <3>4. \A t \in Survivors' : \E i \in DOMAIN flights' : v[i] = t
        BY <3>1, <2>6
      <3>. QED
        BY <3>2, <3>3, <3>4, BijectionIs
    <2>8. \A i \in DOMAIN flights' : Unscored(flights'[i]) = FlightToDTO(offers[v[i]])
      BY <1>4, <2>4, <2>5, <2>7
    <2>9. Traced'
      BY <1>1, <2>7, <2>8, Zenon DEF Traced
    <2>10. Scored'
      BY <1>1, <1>3, <2>4, <2>5 DEF Scored
    <2>. QED
      BY <1>1, <2>3, <2>9, <2>10 DEF PipelineInv, Types, Accepted, SortedAsAsked
  <1>. QED
    BY <1>7, <1>8

LEMMA RankKeeps == ASSUME PipelineInv, Rank PROVE PipelineInv'
  <1>1. /\ stage = "filtered" /\ stage' = "ranked" /\ UNCHANGED <<criteria, offers, status>>
        /\ status = 0 /\ FilterDone /\ FilterDone' /\ RankDone' /\ ~SortDone'
    BY DEF PipelineInv, Types, Rank, FilterDone, RankDone, SortDone
  <1>2. flights \in Seq(Flight) /\ flights' = RankFlights(flights)
    BY DEF PipelineInv, Types, Rank
  <1>3. /\ flights' \in Seq(Flight) /\ DOMAIN flights' = DOMAIN flights
        /\ \A i \in DOMAIN flights :
              /\ Unscored(flights'[i]) = Unscored(flights[i])
              /\ flights'[i].score = Score(flights[i], flights)
        /\ SameBesidesScores(flights, flights')
    BY <1>2, Ranked, Zenon
  <1>4. Survivors' = Survivors
    BY <1>1, Zenon DEF Survivors, Survives
  <1>5. Traced'
    BY <1>1, <1>3, <1>4, Zenon DEF PipelineInv, Traced
  <1>6. \A i \in DOMAIN flights : Score(flights'[i], flights') = Score(flights[i], flights)
    <2>1. \A f : Score(f, flights') = Score(f, flights)
      BY <1>2, <1>3, ScoresDependOnFlights
    <2>2. \A i \in DOMAIN flights : flights[i] \in Flight /\ flights'[i] \in Flight
      BY <1>2, <1>3
    <2>3. ASSUME NEW i \in DOMAIN flights
          PROVE  Score(flights'[i], flights') = Score(flights[i], flights)
      <3>1. Score(flights'[i], flights') = Score(flights'[i], flights)
        BY <2>1, Zenon
      <3>2. /\ Score(Unscored(flights'[i]), flights) = Score(flights'[i], flights)
            /\ Score(Unscored(flights[i]), flights) = Score(flights[i], flights)
        BY <2>2, ScoreOfUnscored, Zenon
      <3>3. Unscored(flights'[i]) = Unscored(flights[i])
        BY <1>3, Zenon
      <3>. QED
        BY <3>1, <3>2, <3>3, Zenon
    <2>. QED
      BY <2>3, Zenon
  <1>7. Scored'
    BY <1>1, <1>3, <1>6, Zenon DEF Scored
  <1>. QED
    BY <1>1, <1>3, <1>5, <1>7 DEF PipelineInv, Types, Accepted, SortedAsAsked

LEMMA SortKeeps == ASSUME PipelineInv, Sort PROVE PipelineInv'
  <1>. DEFINE sort == SortOf(criteria)
  <1>1. /\ stage = "ranked" /\ stage' = "sorted" /\ UNCHANGED <<criteria, offers, status>>
        /\ status = 0 /\ status # 400 /\ FilterDone /\ FilterDone'
        /\ RankDone /\ RankDone'
    BY DEF PipelineInv, Types, Sort, FilterDone, RankDone
  <1>2. flights \in Seq(Flight) /\ flights' \in Sortings(flights, sort)
    BY DEF PipelineInv, Types, Sort
  <1>. HIDE DEF sort
  <1>3. /\ flights' \in Seq(Flight) /\ Range(flights') = Range(flights)
        /\ Ordered(flights', sort) /\ DOMAIN flights' = DOMAIN flights
    BY <1>2, Sorted, Zenon
  <1>4. PICK e \in Bijection(DOMAIN flights', DOMAIN flights) :
          \A i \in DOMAIN flights' : flights'[i] = flights[e[i]]
    BY <1>2, Sorted
  <1>5. PICK w \in Bijection(DOMAIN flights, Survivors) :
          \A i \in DOMAIN flights : Unscored(flights[i]) = FlightToDTO(offers[w[i]])
    BY <1>1, Zenon DEF PipelineInv, Traced
  <1>6. Survivors' = Survivors
    BY <1>1, Zenon DEF Survivors, Survives
  <1>7. /\ \A i \in DOMAIN flights' : e[i] \in DOMAIN flights
        /\ \A t : t \in Survivors <=> \E i \in DOMAIN flights : w[i] = t
    BY <1>4, <1>5 DEF Bijection, Injection, Surjection
  <1>. DEFINE v == [i \in DOMAIN flights' |-> w[e[i]]]
  <1>8. v \in Bijection(DOMAIN flights', Survivors)
    <2>1. /\ \A i, j \in DOMAIN flights : w[i] = w[j] => i = j
          /\ \A i, j \in DOMAIN flights' : e[i] = e[j] => i = j
          /\ \A k \in DOMAIN flights : \E i \in DOMAIN flights' : e[i] = k
      BY BijectionIs
    <2>2. v \in [DOMAIN flights' -> Survivors]
      BY <1>7
    <2>3. \A i, j \in DOMAIN flights' : v[i] = v[j] => i = j
      BY <2>1, <1>7
    <2>4. \A t \in Survivors : \E i \in DOMAIN flights' : v[i] = t
      BY <2>1, <1>7
    <2>. QED
      BY <2>2, <2>3, <2>4, BijectionIs
  <1>9. \A i \in DOMAIN flights' : Unscored(flights'[i]) = FlightToDTO(offers[v[i]])
    BY <1>4, <1>5, <1>7, <1>8
  <1>10. Traced'
    BY <1>1, <1>6, <1>8, <1>9, Zenon DEF Traced
  <1>11. \A f : Score(f, flights') = Score(f, flights)
    <2>1. SameBesidesScores(flights, flights')
      BY <1>3, Zenon DEF SameBesidesScores
    <2>. QED
      BY <1>2, <1>3, <2>1, ScoresDependOnFlights
  <1>12. Scored'
    <2>1. \A i \in DOMAIN flights : flights[i].score = Score(flights[i], flights)
      BY <1>1, Zenon DEF PipelineInv, Scored
    <2>2. \A i \in DOMAIN flights' : flights'[i].score = Score(flights'[i], flights')
      <3>1. ASSUME NEW i \in DOMAIN flights'
            PROVE  flights'[i].score = Score(flights'[i], flights')
        <4>1. e[i] \in DOMAIN flights /\ flights'[i] = flights[e[i]]
          BY <1>4, <1>7, Zenon
        <4>2. flights[e[i]].score = Score(flights[e[i]], flights)
          BY <2>1, <4>1, Zenon
        <4>3. Score(flights[e[i]], flights') = Score(flights[e[i]], flights)
          BY <1>11, Zenon
        <4>. QED
          BY <4>1, <4>2, <4>3, Zenon
      <3>. QED
        BY <3>1, Zenon
    <2>. QED
      BY <2>2, <1>1, Zenon DEF Scored
  <1>13. SortedAsAsked'
    BY <1>1, <1>3 DEF SortedAsAsked, sort
  <1>. QED
    BY <1>1, <1>3, <1>10, <1>12, <1>13 DEF PipelineInv, Types, Accepted

LEMMA RespondKeeps == ASSUME PipelineInv, Respond PROVE PipelineInv'
  <1>1. /\ stage = "sorted" /\ stage' = "answered" /\ UNCHANGED <<criteria, offers, flights>>
        /\ status = 0 /\ status # 400 /\ status' \in {200, 404} /\ FilterDone /\ FilterDone' /\ RankDone
        /\ SortDone /\ (flights # <<>> => RankDone') /\ (SortDone' => SortDone)
    BY DEF PipelineInv, Types, Respond, FilterDone, RankDone, SortDone
  <1>2. Survivors' = Survivors
    <2>1. criteria' = criteria /\ offers' = offers /\ FilterDone /\ FilterDone'
      BY <1>1
    <2>. QED
      BY <2>1, Zenon DEF Survivors, Survives
  <1>3. Traced'
    <2>1. UNCHANGED <<offers, flights>> /\ status # 400
      BY <1>1
    <2>. QED
      BY <2>1, <1>2, Zenon DEF PipelineInv, Traced
  <1>4. Scored'
    <2>1. CASE flights = <<>>
      BY <1>1, <2>1 DEF Scored
    <2>2. CASE flights # <<>>
      BY <1>1, <2>2 DEF PipelineInv, Scored
    <2>. QED
      BY <2>1, <2>2
  <1>. QED
    BY <1>1, <1>3, <1>4 DEF PipelineInv, Types, Accepted, SortedAsAsked

\* The invariant is inductive.
THEOREM PipelineInvariant == Spec => []PipelineInv
  <1>1. Init => PipelineInv
    BY PipelineInit
  <1>2. PipelineInv /\ [Next]_vars => PipelineInv'
    <2>. SUFFICES ASSUME PipelineInv, [Next]_vars PROVE PipelineInv'
      OBVIOUS
    <2>1. CASE Bind
      BY <2>1, BindKeeps
    <2>2. CASE Find
      BY <2>2, FindKeeps
    <2>3. CASE Filter
      BY <2>3, FilterKeeps
    <2>4. CASE Rank
      BY <2>4, RankKeeps
    <2>5. CASE Sort
      BY <2>5, SortKeeps
    <2>6. CASE Respond
      BY <2>6, RespondKeeps
    <2>7. CASE UNCHANGED vars
      <3>1. UNCHANGED <<stage, criteria, offers, flights, status>>
        BY <2>7 DEF vars
      <3>2. UNCHANGED <<FilterDone, RankDone, SortDone>>
        BY <3>1 DEF FilterDone, RankDone, SortDone
      <3>3. Survivors' = Survivors
        BY <3>1, <3>2, Zenon DEF Survivors, Survives
      <3>4. Traced'
        BY <3>1, <3>3, Zenon DEF PipelineInv, Traced
      <3>5. Scored'
        BY <3>1, <3>2, Zenon DEF PipelineInv, Scored
      <3>. QED
        BY <3>1, <3>2, <3>4, <3>5 DEF PipelineInv, Types, Accepted, SortedAsAsked
    <2>. QED
      BY <2>1, <2>2, <2>3, <2>4, <2>5, <2>6, <2>7 DEF Next
  <1>. QED
    BY <1>1, <1>2, PTL DEF Spec
-----------------------------------------------------------------------------
(* What the answer shows *)

LEMMA HoursAndMinutes ==
  ASSUME NEW a \in Int, NEW b \in Int
  PROVE  a <= b => a \div 60 <= b \div 60
  OBVIOUS

LEMMA DateAndMinutes ==
  ASSUME NEW local \in Int, NEW date \in Int
  PROVE  local \div 1440 = date <=> local - 1440 * date \in 0..1439
  OBVIOUS

\* What is in a window to the minute is in it to the hour.
LEMMA WindowOfHours ==
  ASSUME NEW local \in Int, NEW start \in WindowEnd, NEW end \in WindowEnd,
         Within(local % 1440, start, end)
  PROVE  InWindow(local % 1440, start, end)
  <1>. DEFINE clock == local % 1440
  <1>1. clock \in Int
    OBVIOUS
  <1>2. Within(clock, start, end)
    OBVIOUS
  <1>. HIDE DEF clock
  <1>3. CASE ~IsSet(start) \/ ~IsSet(end)
    BY <1>3 DEF InWindow, clock
  <1>4. CASE IsSet(start) /\ IsSet(end)
    <2>1. Malformed \notin {start, end} /\ start <= clock /\ clock <= end
      BY <1>2, <1>4 DEF Within, InRange
    <2>2. start \in Int /\ end \in Int
      BY <1>4, <2>1 DEF WindowEnd, IsSet
    <2>3. Hour(start) <= Hour(clock) /\ Hour(clock) <= Hour(end)
      BY <1>1, <2>1, <2>2, HoursAndMinutes DEF Hour
    <2>4. Hour(start) \in Int /\ Hour(clock) \in Int /\ Hour(end) \in Int
      BY <1>1, <2>2 DEF Hour
    <2>. HIDE DEF Hour
    <2>5. IsWithinTimeRange(clock, start, end)
      BY <2>1, <2>3, <2>4 DEF IsWithinTimeRange
    <2>. QED
      BY <2>5 DEF InWindow, clock
  <1>. QED
    BY <1>3, <1>4

LEMMA OptionChecks ==
  ASSUME NEW o \in FilterOption, NEW f \in Flight
  PROVE  /\ (IsSet(o.airline) => f.airline = o.airline) <=> o.airline \in {Unset, f.airline}
         /\ Above(o.min_price, f.price) /\ Below(f.price, o.max_price)
              <=> InRange(f.price, o.min_price, o.max_price)
         /\ Above(o.min_stops, f.stops) /\ Below(f.stops, o.max_stops)
              <=> InRange(f.stops, o.min_stops, o.max_stops)
         /\ Above(o.min_minutes, f.minutes) /\ Below(f.minutes, o.max_minutes)
              <=> InRange(f.minutes, o.min_minutes, o.max_minutes)
  <1>1. /\ f.price \in Nat /\ f.stops \in Nat /\ f.minutes \in Nat
        /\ o.min_price \in Option /\ o.max_price \in Option
        /\ o.min_stops \in Option /\ o.max_stops \in Option
        /\ o.min_minutes \in Option /\ o.max_minutes \in Option
    BY DEF Flight, FilterOption
  <1>2. \A v \in Nat, low, high \in Option :
          Above(low, v) /\ Below(v, high) <=> InRange(v, low, high)
    BY DEF Above, Below, InRange, Option, IsSet
  <1>3. (IsSet(o.airline) => f.airline = o.airline) <=> o.airline \in {Unset, f.airline}
    BY DEF IsSet
  <1>. QED
    BY <1>1, <1>2, <1>3, Zenon

\* What is wanted passes, and what passes was asked for but for the time windows.
LEMMA SurvivesIsWanted ==
  ASSUME PipelineInv, stage = "answered", status # 400, NEW f \in Flight
  PROVE  /\ Wanted(f, criteria) => Survives(f)
         /\ Survives(f) =>
              Meant(f, criteria) /\ (IsSet(criteria.filter) => Asked(f, criteria.filter))
  <1>. DEFINE c == criteria
              o == criteria.filter
  <1>1. Valid(c) /\ c \in SearchCriteria
    BY PipelineAssumption DEF PipelineInv, Types, Accepted
  <1>2. c.departure_date \in Int /\ c.passengers \in Int
    BY <1>1 DEF Valid, ValidTags, SearchCriteria
  <1>3. /\ f.departure.local \in Int /\ f.arrival.local \in Int /\ f.seats \in Nat
    BY FlightFields DEF Flight
  <1>4. Meant(f, c) <=> Matches(f, c)
    <2>. HIDE DEF c
    <2>1. Date(f.departure) = c.departure_date
            <=> f.departure.local - 1440 * c.departure_date \in 0..1439
      <3>. DEFINE l == f.departure.local
                  t == c.departure_date
      <3>1. l \in Int /\ t \in Int
        BY <1>2, <1>3
      <3>. HIDE DEF l, t
      <3>2. l \div 1440 = t <=> l - 1440 * t \in 0..1439
        BY <3>1, DateAndMinutes
      <3>. QED
        BY <3>2 DEF l, t, Date
    <2>2. c.passengers <= f.seats <=> f.seats >= c.passengers
      BY <1>2, <1>3
    <2>3. <<f.from, f.to, f.cabin>> = <<c.origin, c.destination, c.cabin_class>>
            <=> f.from = c.origin /\ f.to = c.destination /\ f.cabin = c.cabin_class
      OBVIOUS
    <2>. QED
      BY <2>1, <2>2, <2>3 DEF Meant, Matches
  <1>5. FilterDone
    BY DEF FilterDone
  <1>6. ASSUME IsSet(o)
        PROVE  /\ /\ Asked(f, o)
                  /\ Within(f.departure.local % 1440, o.departure_start, o.departure_end)
                  /\ Within(f.arrival.local % 1440, o.arrival_start, o.arrival_end)
                  => Passes(f, o)
               /\ Passes(f, o) => Asked(f, o)
    <2>1. o \in FilterOption
      BY <1>1, <1>6 DEF SearchCriteria, IsSet
    <2>2. /\ o.departure_start \in WindowEnd /\ o.departure_end \in WindowEnd
          /\ o.arrival_start \in WindowEnd /\ o.arrival_end \in WindowEnd
      BY <2>1 DEF FilterOption
    <2>. HIDE DEF o
    <2>3. Within(f.departure.local % 1440, o.departure_start, o.departure_end)
            => InWindow(Clock(f.departure), o.departure_start, o.departure_end)
      BY <1>3, <2>2, WindowOfHours DEF Clock
    <2>4. Within(f.arrival.local % 1440, o.arrival_start, o.arrival_end)
            => InWindow(Clock(f.arrival), o.arrival_start, o.arrival_end)
      BY <1>3, <2>2, WindowOfHours DEF Clock
    <2>5. /\ (IsSet(o.airline) => f.airline = o.airline) <=> o.airline \in {Unset, f.airline}
          /\ Above(o.min_price, f.price) /\ Below(f.price, o.max_price)
               <=> InRange(f.price, o.min_price, o.max_price)
          /\ Above(o.min_stops, f.stops) /\ Below(f.stops, o.max_stops)
               <=> InRange(f.stops, o.min_stops, o.max_stops)
          /\ Above(o.min_minutes, f.minutes) /\ Below(f.minutes, o.max_minutes)
               <=> InRange(f.minutes, o.min_minutes, o.max_minutes)
      BY <2>1, OptionChecks
    <2>6. Passes(f, o) <=>
            /\ Asked(f, o)
            /\ InWindow(Clock(f.departure), o.departure_start, o.departure_end)
            /\ InWindow(Clock(f.arrival), o.arrival_start, o.arrival_end)
      BY <2>5, Zenon DEF Asked, Passes
    <2>. QED
      BY <2>3, <2>4, <2>6
  <1>7. Survives(f) <=> Meant(f, c) /\ (IsSet(o) => Passes(f, o))
    BY <1>4, <1>5, Zenon DEF Survives
  <1>8. Wanted(f, c) <=>
          /\ Meant(f, c)
          /\ IsSet(o) =>
               /\ Asked(f, o)
               /\ Within(f.departure.local % 1440, o.departure_start, o.departure_end)
               /\ Within(f.arrival.local % 1440, o.arrival_start, o.arrival_end)
    BY DEF Wanted
  <1>. QED
    BY <1>6, <1>7, <1>8

LEMMA CountsMatch ==
  ASSUME PipelineInv, stage = "answered", status # 400, NEW f \in Flight
  PROVE  LET given == Cardinality({i \in DOMAIN flights : Unscored(flights[i]) = f})
             offered == Cardinality({i \in DOMAIN offers : FlightToDTO(offers[i]) = f})
         IN  given = IF Survives(f) THEN offered ELSE 0
  <1>. DEFINE K == {i \in DOMAIN flights : Unscored(flights[i]) = f}
              L == {k \in DOMAIN offers : FlightToDTO(offers[k]) = f}
  <1>1. PICK w \in Bijection(DOMAIN flights, Survivors) :
          \A i \in DOMAIN flights : Unscored(flights[i]) = FlightToDTO(offers[w[i]])
    BY Zenon DEF PipelineInv, Traced
  <1>2. /\ \A i \in DOMAIN flights : w[i] \in Survivors
        /\ \A k : k \in Survivors <=> k \in DOMAIN offers /\ Survives(FlightToDTO(offers[k]))
    BY BijectionIs DEF Survivors
  <1>3. CASE Survives(f)
    <2>1. L \in SUBSET Survivors /\ K \in SUBSET DOMAIN flights
      BY <1>2, <1>3
    <2>2. \A i \in DOMAIN flights : i \in K <=> w[i] \in L
      BY <1>1, <1>2
    <2>3. IsFiniteSet(DOMAIN flights)
      <3>1. DOMAIN flights = 1..Len(flights) /\ Len(flights) \in Nat
        BY DEF PipelineInv, Types
      <3>. QED
        BY <3>1, FS_Interval
    <2>. HIDE DEF K, L
    <2>4. Cardinality(K) = Cardinality(L)
      BY <1>1, <2>1, <2>2, <2>3, SameCount
    <2>. QED
      BY <2>4, <1>3 DEF K, L
  <1>4. CASE ~Survives(f)
    <2>1. \A i \in DOMAIN flights : Unscored(flights[i]) # f
      BY <1>1, <1>2, <1>4
    <2>2. K = {}
      BY <2>1
    <2>. QED
      BY <2>2, <1>4, FS_EmptySet
  <1>. QED
    BY <1>3, <1>4
LEMMA ElementsAreFlights ==
  ASSUME PipelineInv
  PROVE  \A i \in DOMAIN flights : flights[i] \in Flight
  BY DEF PipelineInv, Types

LEMMA TypesFollow == PipelineInv => TypeOK
  <1>. SUFFICES ASSUME PipelineInv PROVE TypeOK
    OBVIOUS
  <1>1. ASSUME flights # <<>>, NEW f \in Range(flights) PROVE f.score \in 0..Worst(flights)
    <2>1. flights \in Seq(Flight)
      BY DEF PipelineInv, Types
    <2>2. Score(f, flights) \in 0..Worst(flights) /\ Worst(flights) \in Nat
      BY <1>1, <2>1, ScoresNormalisedAndFair
    <2>3. f.score = IF RankDone THEN Score(f, flights) ELSE 0
      BY <1>1, Zenon DEF PipelineInv, Scored, Range
    <2>. QED
      BY <2>2, <2>3
  <1>. QED
    BY <1>1 DEF PipelineInv, Types, TypeOK

\* In every state the variables have their types, and every score of a list lies
\* between the best and the worst: RankFlights normalises whatever its input is.
THEOREM TypesHold == Spec => []TypeOK
  BY PipelineInvariant, TypesFollow, PTL

\* Positions of a list hold at most as many different elements as they are.
LEMMA DifferentOffers ==
  ASSUME PipelineInv, NEW L \in SUBSET DOMAIN offers
  PROVE  /\ Cardinality({offers[i] : i \in L}) \in Nat /\ Cardinality(L) \in Nat
         /\ Cardinality({offers[i] : i \in L}) <= Cardinality(L)
  <1>. DEFINE T == {offers[i] : i \in L}
              e == [i \in L |-> offers[i]]
  <1>1. IsFiniteSet(L)
    <2>1. DOMAIN offers = 1..Len(offers) /\ Len(offers) \in Nat
      BY DEF PipelineInv, Types
    <2>2. IsFiniteSet(DOMAIN offers)
      BY <2>1, FS_Interval
    <2>. QED
      BY <2>2, FS_Subset
  <1>2. e \in Surjection(L, T)
    BY DEF Surjection
  <1>. HIDE DEF T, e
  <1>3. IsFiniteSet(T) /\ Cardinality(T) <= Cardinality(L)
    BY <1>1, <1>2, FS_Surjection
  <1>4. Cardinality(T) \in Nat /\ Cardinality(L) \in Nat
    BY <1>1, <1>3, FS_CardinalityType
  <1>. QED
    BY <1>3, <1>4 DEF T

\* The flights of an answer are those asked for: nothing is lost, duplicated or
\* invented by FilterFlights, RankFlights and SortFlights, whatever the offers, the
\* criteria and the length of the list.
THEOREM AnswerIsAsked == Spec => []AnswerIsWhatWasAsked
  <1>1. PipelineInv => AnswerIsWhatWasAsked
    <2>. SUFFICES ASSUME PipelineInv, stage = "answered" /\ status # 400,
                         NEW f \in {FlightToDTO(raw) : raw \in Offers}
                  PROVE  LET given == Cardinality({i \in DOMAIN flights : Unscored(flights[i]) = f})
                             offering == {i \in DOMAIN offers : FlightToDTO(offers[i]) = f}
                         IN  /\ given <= Cardinality(offering)
                             /\ Wanted(f, criteria) =>
                                  Cardinality({offers[i] : i \in offering}) <= given
                             /\ given > 0 =>
                                  /\ Meant(f, criteria)
                                  /\ IsSet(criteria.filter) => Asked(f, criteria.filter)
      BY Zenon DEF AnswerIsWhatWasAsked
    <2>. DEFINE given == Cardinality({i \in DOMAIN flights : Unscored(flights[i]) = f})
                offering == {i \in DOMAIN offers : FlightToDTO(offers[i]) = f}
                offered == Cardinality(offering)
                different == Cardinality({offers[i] : i \in offering})
    <2>1. f \in Flight
      BY OfferedFlight
    <2>2. given = IF Survives(f) THEN offered ELSE 0
      BY <2>1, CountsMatch
    <2>3. different \in Nat /\ offered \in Nat /\ different <= offered
      <3>1. offering \in SUBSET DOMAIN offers
        OBVIOUS
      <3>. HIDE DEF offering
      <3>. QED
        BY <3>1, DifferentOffers
    <2>4. /\ Wanted(f, criteria) => Survives(f)
          /\ Survives(f) =>
               Meant(f, criteria) /\ (IsSet(criteria.filter) => Asked(f, criteria.filter))
      BY <2>1, SurvivesIsWanted
    <2>. HIDE DEF given, offered, different
    <2>5. /\ given <= offered
          /\ Wanted(f, criteria) => different <= given
          /\ given > 0 =>
               Meant(f, criteria) /\ (IsSet(criteria.filter) => Asked(f, criteria.filter))
      BY <2>2, <2>3, <2>4
    <2>. QED
      BY <2>5 DEF given, offered, different
  <1>. QED
    BY <1>1, PipelineInvariant, PTL

LEMMA KeysAreNumbers ==
  ASSUME NEW f \in Flight, NEW field
  PROVE  SortKey(f, field) \in Int
  <1>1. f.price \in Int /\ f.minutes \in Int /\ f.stops \in Int /\ f.score \in Int
        /\ Timestamp(f.departure) \in Int /\ Timestamp(f.arrival) \in Int
    BY FlightFields DEF Timestamp, Flight
  <1>. QED
    BY <1>1, Zenon DEF SortKey

\* The answer is in the order asked for, whatever its length, the sort field and the
\* permutation sort.Slice picks among equals.
THEOREM AnswerIsOrdered == Spec => []AnswerInOrder
  <1>1. PipelineInv => AnswerInOrder
    <2>. SUFFICES ASSUME PipelineInv, status = 200,
                         NEW i \in DOMAIN flights, NEW j \in DOMAIN flights, i < j
                  PROVE  LET field == SortOf(criteria).field
                             order == SortOf(criteria).order
                         IN  /\ order = "asc" =>
                                  SortKey(flights[i], field) <= SortKey(flights[j], field)
                             /\ order = "desc" =>
                                  SortKey(flights[i], field) >= SortKey(flights[j], field)
      BY Zenon DEF AnswerInOrder
    <2>. DEFINE sort == SortOf(criteria)
    <2>1. ~Less(flights[j], flights[i], sort)
      BY DEF PipelineInv, SortedAsAsked, SortDone, Ordered
    <2>2. /\ SortKey(flights[i], sort.field) \in Int
          /\ SortKey(flights[j], sort.field) \in Int
      BY ElementsAreFlights, KeysAreNumbers
    <2>. HIDE DEF sort
    <2>3. /\ sort.order = "asc" =>
               SortKey(flights[i], sort.field) <= SortKey(flights[j], sort.field)
          /\ sort.order = "desc" =>
               SortKey(flights[i], sort.field) >= SortKey(flights[j], sort.field)
      BY <2>1, <2>2 DEF Less
    <2>. QED
      BY <2>3 DEF sort
  <1>. QED
    BY <1>1, PipelineInvariant, PTL

\* The ranking is fair for every list: the normalisation by the whole list never puts
\* a flight before one that dominates it.
THEOREM RankingIsFair == Spec => []DominatedNeverFirst
  <1>1. PipelineInv => DominatedNeverFirst
    <2>. SUFFICES ASSUME PipelineInv, status = 200, criteria.sort = Unset,
                         NEW i \in DOMAIN flights, NEW j \in DOMAIN flights,
                         Dominates(flights[i], flights[j])
                  PROVE  i < j
      BY DEF DominatedNeverFirst
    <2>1. flights[i] \in Flight /\ flights[j] \in Flight /\ flights \in Seq(Flight)
          /\ i \in Nat /\ j \in Nat
      BY ElementsAreFlights DEF PipelineInv, Types
    <2>2. Score(flights[i], flights) < Score(flights[j], flights)
      <3>1. flights # <<>> /\ flights[i] \in Range(flights) /\ flights[j] \in Range(flights)
        BY <2>1 DEF Range
      <3>. QED
        BY <3>1, <2>1, ScoresNormalisedAndFair
    <2>3. /\ flights[i].score = Score(flights[i], flights)
          /\ flights[j].score = Score(flights[j], flights)
      BY DEF PipelineInv, Scored, RankDone
    <2>4. ASSUME NEW k \in DOMAIN flights, NEW l \in DOMAIN flights, k < l
          PROVE  ~(flights[l].score < flights[k].score)
      <3>1. SortOf(criteria) = [field |-> "", order |-> "asc"]
        BY DEF SortOf, IsSet
      <3>2. ~Less(flights[l], flights[k], [field |-> "", order |-> "asc"])
        BY <2>4, <3>1 DEF PipelineInv, SortedAsAsked, SortDone, Ordered
      <3>. QED
        BY <3>2 DEF Less, SortKey
    <2>5. i # j
      BY <2>1 DEF Dominates
    <2>6. ~(j < i)
      BY <2>2, <2>3, <2>4
    <2>. QED
      BY <2>1, <2>5, <2>6
  <1>. QED
    BY <1>1, PipelineInvariant, PTL

\* For any number of flights, any criteria and any order in which the providers'
\* answers came in and were cached: the same answers may come of the list, because
\* ranges are those of the whole list and the sort is by what a flight is.
THEOREM OrderOfArrivalIrrelevant == Spec => []ArrivalOrderIrrelevant
  <1>1. PipelineInv => ArrivalOrderIrrelevant
    <2>. SUFFICES ASSUME PipelineInv, NEW p \in Bijection(DOMAIN flights, DOMAIN flights)
                  PROVE  Outcomes([i \in DOMAIN flights |-> flights[p[i]]], criteria)
                           = Outcomes(flights, criteria)
      BY DEF ArrivalOrderIrrelevant
    <2>. DEFINE other == [i \in DOMAIN flights |-> flights[p[i]]]
    <2>1. flights \in Seq(Flight)
      BY DEF PipelineInv, Types
    <2>2. other \in Seq(Flight)
      <3>1. Len(flights) \in Nat /\ DOMAIN flights = 1..Len(flights)
        BY <2>1
      <3>2. \A i \in DOMAIN flights : p[i] \in DOMAIN flights
        BY BijectionIs
      <3>3. \A i \in 1..Len(flights) : flights[p[i]] \in Flight
        BY <2>1, <3>1, <3>2
      <3>. QED
        BY <3>1, <3>3
    <2>3. Permuted(other, flights)
      BY Zenon DEF Permuted
    <2>4. flights = [i \in DOMAIN flights |-> flights[i]]
      BY <2>1
    <2>. HIDE DEF other
    <2>5. Permuted(flights, other)
      BY <2>3, <2>4, PermutedBack
    <2>6. Outcomes(other, criteria) = Outcomes(flights, criteria)
      <3>1. Outcomes(other, criteria) \subseteq Outcomes(flights, criteria)
        BY <2>1, <2>2, <2>3, OutcomesForget
      <3>2. Outcomes(flights, criteria) \subseteq Outcomes(other, criteria)
        BY <2>1, <2>2, <2>5, OutcomesForget
      <3>. QED
        BY <3>1, <3>2
    <2>. QED
      BY <2>6 DEF other
  <1>. QED
    BY <1>1, PipelineInvariant, PTL
=============================================================================
