--------------------------- MODULE ExecutorProofs ---------------------------
(***************************************************************************)
(* What the executor agent guarantees next to any other clients of the     *)
(* order manager, for every plan, price and limit, checked by TLAPS; and   *)
(* that the order manager's guarantees hold with the agent at the desk.    *)
(***************************************************************************)
EXTENDS Executor, OMSProofs

-----------------------------------------------------------------------------
(* Chunks                                                                  *)

\* How many chunks there are: enough, and the last one is needed.
LEMMA ChunksNeeded ==
  ASSUME NEW total \in Nat, NEW chunk \in Nat \ {0},
         NEW m, m = (total + chunk - 1) \div chunk
  PROVE  m \in Nat /\ total <= m * chunk /\ (total > 0 => m > 0 /\ (m - 1) * chunk < total)
<1>1. PICK a \in Nat : a = total + chunk - 1
  OBVIOUS
<1>2. PICK r \in 0..(chunk - 1) : m \in Int /\ a = m * chunk + r
  BY <1>1
<1>3. m \in Nat
  <2>1. CASE m < 0
    <3>1. m * chunk <= -chunk
      BY <1>2, <2>1
    <3>. QED  BY <1>2, <3>1
  <2>. QED  BY <1>2, <2>1
<1>4. (m - 1) * chunk = m * chunk - chunk
  BY <1>2
<1>5. total > 0 => m > 0
  BY <1>1, <1>2, <1>3
<1>. QED
  BY <1>1, <1>2, <1>3, <1>4, <1>5

\* The parts an order of quantity q is made of, each with the order's number.
Parts(o, q) == {o} \X (1..q)

LEMMA PartsSize ==
  ASSUME NEW o, NEW q \in Nat
  PROVE  IsFiniteSet(Parts(o, q)) /\ Cardinality(Parts(o, q)) = q
<1>1. IsFiniteSet({o}) /\ Cardinality({o}) = 1
  BY FS_Singleton
<1>2. IsFiniteSet(1..q) /\ Cardinality(1..q) = q
  BY FS_Interval
<1>3. /\ IsFiniteSet({o} \X (1..q))
      /\ Cardinality({o} \X (1..q)) = Cardinality({o}) * Cardinality(1..q)
  BY <1>1, <1>2, FS_Product, Zenon
<1>. QED
  BY <1>1, <1>2, <1>3 DEF Parts

LEMMA PartsAre ==
  ASSUME NEW o \in Nat, NEW q \in Nat, NEW u
  PROVE  u \in Parts(o, q) <=> u \in Nat \X Nat /\ u[1] = o /\ u[2] \in 1..q
BY DEF Parts

\* Every chunk is positive, and none is larger than the policy allows.
LEMMA SplitType ==
  ASSUME NEW total \in Nat \ {0}, NEW chunk \in Nat \ {0}
  PROVE  \E m \in Nat \ {0} :
           /\ DOMAIN Split(total, chunk) = 1..m
           /\ total <= m * chunk
           /\ \A k \in 1..m : /\ (k - 1) * chunk < total
                              /\ Split(total, chunk)[k] = Least(chunk, total - (k - 1) * chunk)
                              /\ Split(total, chunk)[k] \in 1..chunk
<1>1. PICK m : m = (total + chunk - 1) \div chunk
  OBVIOUS
<1>2. m \in Nat \ {0} /\ total <= m * chunk /\ (m - 1) * chunk < total
  BY <1>1, ChunksNeeded
<1>3. ASSUME NEW k \in 1..m
      PROVE  /\ (k - 1) * chunk < total
             /\ Split(total, chunk)[k] = Least(chunk, total - (k - 1) * chunk)
             /\ Split(total, chunk)[k] \in 1..chunk
  <2>1. PICK d \in Nat : m - 1 = (k - 1) + d
    BY <1>2, <1>3
  <2>2. (m - 1) * chunk = (k - 1) * chunk + d * chunk
    BY <2>1
  <2>3. d * chunk >= 0
    BY <2>1
  <2>4. PICK x \in Int : x = (k - 1) * chunk
    BY <1>2
  <2>5. x < total
    <3>1. PICK y \in Nat : y = d * chunk
      BY <2>1, <2>3
    <3>. QED  BY <1>2, <2>2, <2>4, <3>1
  <2>6. Split(total, chunk)[k] = Least(chunk, total - x)
    BY <1>1, <1>3, <2>4 DEF Split
  <2>7. Least(chunk, total - x) \in 1..chunk
    BY <2>4, <2>5 DEF Least
  <2>. QED  BY <2>4, <2>5, <2>6, <2>7
<1>4. DOMAIN Split(total, chunk) = 1..m
  BY <1>1 DEF Split
<1>. QED
  BY <1>2, <1>3, <1>4

\* The parts of the chunks of one order, the chunks numbered from base + 1.
Spread(base, chunks) ==
  { u \in Nat \X Nat : u[1] - base \in DOMAIN chunks /\ u[2] \in 1..chunks[u[1] - base] }

\* Chunks come to what was to be split, exactly.
LEMMA SpreadSize ==
  ASSUME NEW total \in Nat \ {0}, NEW chunk \in Nat \ {0}, NEW base \in Nat
  PROVE  LET S == Spread(base, Split(total, chunk))
         IN  IsFiniteSet(S) /\ Cardinality(S) = total
<1>0. PICK chunks : chunks = Split(total, chunk)
  OBVIOUS
<1>1. PICK m \in Nat \ {0} :
        /\ DOMAIN chunks = 1..m
        /\ total <= m * chunk
        /\ \A k \in 1..m : /\ (k - 1) * chunk < total
                           /\ chunks[k] = Least(chunk, total - (k - 1) * chunk)
                           /\ chunks[k] \in 1..chunk
  BY <1>0, SplitType
<1>. DEFINE U(k) == { u \in Nat \X Nat : u[1] - base \in 1..k /\ u[2] \in 1..chunks[u[1] - base] }
            T == { k \in 0..m : IsFiniteSet(U(k)) /\ Cardinality(U(k)) = Least(total, k * chunk) }
<1>2. 0 \in T
  <2>1. U(0) = {}
    OBVIOUS
  <2>2. Least(total, 0 * chunk) = 0
    BY DEF Least
  <2>. QED  BY <2>1, <2>2, FS_EmptySet
<1>3. ASSUME NEW k \in 0..(m - 1), k \in T PROVE k + 1 \in T
  <2>1. PICK x \in Int : x = k * chunk
    OBVIOUS
  <2>2. (k + 1) * chunk = x + chunk /\ (k + 1) - 1 = k /\ k + 1 \in 1..m
    BY <2>1
  <2>3. PICK q \in Nat : q = chunks[k + 1] /\ q = Least(chunk, total - x) /\ x < total
    BY <1>1, <2>1, <2>2
  <2>4. U(k + 1) = U(k) \cup Parts(base + (k + 1), q)
    <3>1. ASSUME NEW u \in Nat \X Nat
          PROVE  u \in U(k + 1) <=> u \in U(k) \/ u \in Parts(base + (k + 1), q)
      <4>1. PICK a \in Nat, b \in Nat : u = <<a, b>>
        BY <3>1
      <4>2. u \in Parts(base + (k + 1), q) <=> a - base = k + 1 /\ b \in 1..q
        BY <2>3, <4>1, PartsAre
      <4>3. \A j \in Nat : u \in U(j) <=> a - base \in 1..j /\ b \in 1..chunks[a - base]
        BY <4>1
      <4>4. a - base \in 1..(k + 1) <=> a - base \in 1..k \/ a - base = k + 1
        OBVIOUS
      <4>5. a - base = k + 1 => chunks[a - base] = q
        BY <2>3
      <4>6. /\ u \in U(k) <=> a - base \in 1..k /\ b \in 1..chunks[a - base]
            /\ u \in U(k + 1) <=> a - base \in 1..(k + 1) /\ b \in 1..chunks[a - base]
        BY <4>3
      <4>. HIDE DEF U
      <4>. QED  BY <4>2, <4>4, <4>5, <4>6
    <3>2. U(k + 1) \subseteq Nat \X Nat /\ U(k) \subseteq Nat \X Nat
      OBVIOUS
    <3>3. Parts(base + (k + 1), q) \subseteq Nat \X Nat
      BY <2>3, PartsAre
    <3>. HIDE DEF U
    <3>. QED  BY <3>1, <3>2, <3>3
  <2>5. U(k) \cap Parts(base + (k + 1), q) = {}
    BY <2>3, PartsAre
  <2>6. IsFiniteSet(Parts(base + (k + 1), q)) /\ Cardinality(Parts(base + (k + 1), q)) = q
    BY PartsSize
  <2>7. IsFiniteSet(U(k)) /\ Cardinality(U(k)) = Least(total, x)
    BY <1>3, <2>1
  <2>8. IsFiniteSet(U(k + 1)) /\ Cardinality(U(k + 1)) = Least(total, x) + q
    <3>. HIDE DEF U
    <3>1. Cardinality({}) = 0
      BY FS_EmptySet
    <3>2. Least(total, x) \in Int
      BY <2>1 DEF Least
    <3>3. /\ IsFiniteSet(U(k) \cup Parts(base + (k + 1), q))
          /\ Cardinality(U(k) \cup Parts(base + (k + 1), q)) =
               Cardinality(U(k)) + Cardinality(Parts(base + (k + 1), q))
                 - Cardinality(U(k) \cap Parts(base + (k + 1), q))
      BY <2>6, <2>7, FS_Union, Zenon
    <3>4. IsFiniteSet(U(k + 1)) /\ Cardinality(U(k + 1)) = Least(total, x) + q - 0
      BY <2>4, <2>5, <2>6, <2>7, <3>1, <3>3, Zenon
    <3>. QED  BY <2>3, <3>2, <3>4
  <2>9. Least(total, x) + q = Least(total, x + chunk)
    BY <2>1, <2>3 DEF Least
  <2>. QED  BY <2>2, <2>8, <2>9
<1>4. m \in T
  <2>. HIDE DEF T
  <2>. QED  BY <1>2, <1>3, Reaches
<1>5. Least(total, m * chunk) = total
  BY <1>1 DEF Least
<1>6. Spread(base, chunks) = U(m)
  BY <1>1 DEF Spread
<1>. QED
  BY <1>0, <1>4, <1>5, <1>6

-----------------------------------------------------------------------------
(* The orders of a call                                                    *)

Wanted == Request(Instruments, Modes)

\* The orders for one instrument: of that instrument, all on the side of the target, in
\* the chunks of the difference.
LEMMA ChildrenAre ==
  ASSUME NEW i \in Instruments, NEW to \in Int, NEW from \in Int
  PROVE  LET children == ChildrenFor(i, to, from)
         IN  /\ children \in Seq(Wanted)
             /\ \A k \in DOMAIN children :
                  children[k].instrument = i /\ children[k].side = SideToward(to, from)
             /\ children # << >> =>
                  /\ Magnitude(to - from) \in Nat \ {0}
                  /\ DOMAIN children = DOMAIN Split(Magnitude(to - from), MaxChildQty)
                  /\ \A k \in DOMAIN children :
                       children[k].qty = Split(Magnitude(to - from), MaxChildQty)[k]
<1>1. PICK delta \in Nat : delta = Magnitude(to - from)
  BY MagnitudeType
<1>2. Share \in Nat \ {0} /\ MaxChildQty \in Nat \ {0} /\ SessionMode \in Modes
  BY ExecutorAssumption, ConfigAssumption
<1>3. CASE delta < Share
  <2>1. ChildrenFor(i, to, from) = << >>
    BY <1>1, <1>3 DEF ChildrenFor
  <2>. QED  BY <2>1
<1>4. CASE ~(delta < Share)
  <2>1. delta \in Nat \ {0}
    BY <1>2, <1>4
  <2>0. PICK chunks : chunks = Split(delta, MaxChildQty)
    OBVIOUS
  <2>2. PICK m \in Nat \ {0} :
          DOMAIN chunks = 1..m /\ \A k \in 1..m : chunks[k] \in 1..MaxChildQty
    BY <1>2, <2>0, <2>1, SplitType
  <2>3. PICK side \in Sides : side = SideToward(to, from)
    BY DEF Sides, SideToward
  <2>. DEFINE Child(q) == [instrument |-> i, side |-> side, type |-> "market",
                           limit_price |-> 0, qty |-> q, mode |-> SessionMode]
  <2>4. ChildrenFor(i, to, from) = [k \in 1..m |-> Child(chunks[k])]
    BY <1>1, <1>4, <2>0, <2>2, <2>3 DEF ChildrenFor
  <2>5. ASSUME NEW k \in 1..m PROVE Child(chunks[k]) \in Wanted
    <3>1. chunks[k] \in Nat \ {0}
      BY <1>2, <2>2
    <3>. QED  BY <1>2, <3>1 DEF Wanted, Request, OrderTypes
  <2>6. [k \in 1..m |-> Child(chunks[k])] \in Seq(Wanted)
    <3>. HIDE DEF Child
    <3>. QED  BY <2>5
  <2>. QED  BY <1>1, <2>0, <2>1, <2>2, <2>3, <2>4, <2>6
<1>. QED
  BY <1>3, <1>4

\* FlattenSeq is where the lists end that take one list more each time.
Joins(f, s) ==
  /\ f[1] = s[1]
  /\ \A k \in 2..Len(s) : f[k] = f[k - 1] \o s[k]

LEMMA FlattenHistory ==
  ASSUME NEW s, Len(s) \in Nat \ {0}
  PROVE  \E f : Joins(f, s) /\ FlattenSeq(s) = f[Len(s)]
<1>. DEFINE Next(g, k) == IF k = 1 THEN s[k] ELSE g[k - 1] \o s[k]
            All(g) == [k \in 1..Len(s) |-> Next(g, k)]
            flat == CHOOSE g : g = All(g)
<1>1. FlattenSeq(s) = flat[Len(s)]
  BY DEF FlattenSeq
<1>2. \E g : g = All(g)
  <2>. DEFINE Good(g, n) == \A k \in 1..n : g[k] = Next(g, k)
              T == { n \in Nat : \E g : Good(g, n) }
  <2>1. 0 \in T
    OBVIOUS
  <2>2. ASSUME NEW n \in Nat, n \in T PROVE n + 1 \in T
    <3>1. PICK g : Good(g, n)
      BY <2>2
    <3>. DEFINE h == [k \in 1..(n + 1) |-> IF k <= n THEN g[k] ELSE Next(g, k)]
    <3>2. ASSUME NEW k \in 1..(n + 1) PROVE h[k] = Next(h, k)
      <4>1. h[k] = Next(g, k)
        <5>. HIDE DEF Next
        <5>. QED  BY <3>1
      <4>2. CASE k = 1
        BY <4>1, <4>2
      <4>3. CASE k # 1
        <5>1. k - 1 \in 1..n
          BY <4>3
        <5>2. h[k - 1] = g[k - 1]
          <6>. HIDE DEF Next
          <6>. QED  BY <5>1
        <5>. QED  BY <4>1, <4>3, <5>2
      <4>. QED  BY <4>2, <4>3
    <3>3. Good(h, n + 1)
      <4>. HIDE DEF h, Next
      <4>. QED  BY <3>2
    <3>. QED
      <4>. HIDE DEF h, Good
      <4>. QED  BY <3>3
  <2>3. Len(s) \in T
    <3>. HIDE DEF T
    <3>. QED  BY <2>1, <2>2, Reaches
  <2>4. PICK g : Good(g, Len(s))
    BY <2>3
  <2>5. ASSUME NEW k \in 1..Len(s) PROVE Next(All(g), k) = Next(g, k)
    <3>1. CASE k = 1
      BY <3>1
    <3>2. CASE k # 1
      <4>1. k - 1 \in 1..Len(s)
        BY <3>2
      <4>2. All(g)[k - 1] = g[k - 1]
        <5>. HIDE DEF Next
        <5>. QED  BY <2>4, <4>1
      <4>. HIDE DEF All
      <4>. QED  BY <3>2, <4>2
    <3>. QED  BY <3>1, <3>2
  <2>6. All(All(g)) = All(g)
    <3>. HIDE DEF Next
    <3>. QED  BY <2>5
  <2>. QED  BY <2>6
<1>3. flat = All(flat)
  <2>. HIDE DEF All
  <2>. QED  BY <1>2, Zenon
<1>4. \A k \in 1..Len(s) : flat[k] = Next(flat, k)
  <2>. HIDE DEF flat, Next
  <2>. QED  BY <1>3
<1>. HIDE DEF flat
<1>5. \A k \in 1..Len(s) : flat[k] = IF k = 1 THEN s[k] ELSE flat[k - 1] \o s[k]
  BY <1>4
<1>6. flat[1] = s[1]
  <2>1. 1 \in 1..Len(s)
    OBVIOUS
  <2>. QED  BY <1>5, <2>1
<1>7. ASSUME NEW k \in 2..Len(s) PROVE flat[k] = flat[k - 1] \o s[k]
  <2>1. k \in 1..Len(s) /\ k # 1
    OBVIOUS
  <2>. QED  BY <1>5, <2>1
<1>8. Joins(flat, s)
  BY <1>6, <1>7 DEF Joins
<1>. QED
  BY <1>1, <1>8

\* The orders of instrument i in `out` are the list c, from place base + 1 on.
Block(out, base, c, i) ==
  /\ base \in Nat
  /\ \A k \in DOMAIN out : out[k].instrument = i => k - base \in DOMAIN c
  /\ \A k \in DOMAIN c : base + k \in DOMAIN out /\ out[base + k] = c[k]

Without(out, i) == \A k \in DOMAIN out : out[k].instrument # i

\* A plan that names each instrument once makes one list in which the orders for an
\* instrument stand together, those a call with this instrument alone would make.
LEMMA PlanFlattened ==
  ASSUME NEW n \in Nat \ {0}, NEW keys, NEW s, Len(s) = n,
         \A j, k \in 1..n : keys[j] = keys[k] => j = k,
         \A j \in 1..n : /\ s[j] \in Seq(Wanted)
                         /\ \A k \in DOMAIN s[j] : s[j][k].instrument = keys[j]
  PROVE  /\ FlattenSeq(s) \in Seq(Wanted)
         /\ \A j \in 1..n : \E base : Block(FlattenSeq(s), base, s[j], keys[j])
         /\ \A i : (\A j \in 1..n : keys[j] # i) => Without(FlattenSeq(s), i)
<1>1. PICK f : Joins(f, s) /\ FlattenSeq(s) = f[n]
  BY FlattenHistory
<1>2. f[1] = s[1] /\ \A k \in 2..n : f[k] = f[k - 1] \o s[k]
  BY <1>1 DEF Joins
<1>. DEFINE Here(m, i) == /\ \A j \in 1..m : keys[j] = i => \E base : Block(f[m], base, s[j], i)
                          /\ (\A j \in 1..m : keys[j] # i) => Without(f[m], i)
            T(i) == { k \in 0..(n - 1) : f[k + 1] \in Seq(Wanted) /\ Here(k + 1, i) }
<1>3. ASSUME NEW i PROVE n - 1 \in T(i)
  <2>1. 0 \in T(i)
    <3>1. f[1] = s[1] /\ s[1] \in Seq(Wanted) /\ \A k \in DOMAIN s[1] : s[1][k].instrument = keys[1]
      BY <1>2
    <3>2. ASSUME NEW j \in 1..1, keys[j] = i PROVE \E base : Block(f[1], base, s[j], i)
      <4>1. Block(f[1], 0, s[1], i)
        BY <3>1 DEF Block
      <4>. QED  BY <3>2, <4>1
    <3>3. ASSUME \A j \in 1..1 : keys[j] # i PROVE Without(f[1], i)
      BY <3>1, <3>3 DEF Without
    <3>. QED  BY <3>1, <3>2, <3>3
  <2>2. ASSUME NEW k \in 0..((n - 1) - 1), k \in T(i) PROVE k + 1 \in T(i)
    <3>1. PICK a, b : a = f[k + 1] /\ b = s[k + 2] /\ f[k + 2] = a \o b
      <4>1. k + 2 \in 2..n /\ (k + 2) - 1 = k + 1
        OBVIOUS
      <4>2. f[k + 2] = f[(k + 2) - 1] \o s[k + 2]
        BY <1>2, <4>1
      <4>. QED  BY <4>1, <4>2
    <3>2. /\ a \in Seq(Wanted) /\ b \in Seq(Wanted) /\ k + 2 \in 1..n
          /\ \A q \in DOMAIN b : b[q].instrument = keys[k + 2]
      BY <2>2, <3>1
    <3>3. /\ a \o b \in Seq(Wanted) /\ DOMAIN a = 1..Len(a) /\ DOMAIN b = 1..Len(b)
          /\ DOMAIN (a \o b) = 1..(Len(a) + Len(b))
          /\ Len(a) \in Nat /\ Len(b) \in Nat
      BY <3>2
    <3>4. \A q \in 1..Len(a) : (a \o b)[q] = a[q]
      BY <3>2, Continued
    <3>5. \A q \in 1..Len(b) : (a \o b)[Len(a) + q] = b[q]
      BY <3>2, Continued
    <3>6. \A q \in DOMAIN (a \o b) : q \in 1..Len(a) \/ q - Len(a) \in 1..Len(b)
      BY <3>3
    <3>7. ASSUME NEW j \in 1..(k + 2), keys[j] = i
          PROVE  \E base : Block(a \o b, base, s[j], i)
      <4>1. CASE j = k + 2
        <5>1. \A p \in 1..(k + 1) : keys[p] # i
          BY <3>2, <3>7, <4>1
        <5>2. Without(a, i)
          BY <2>2, <3>1, <5>1
        <5>3. Block(a \o b, Len(a), b, i)
          BY <3>3, <3>4, <3>5, <3>6, <5>2 DEF Block, Without
        <5>. QED  BY <3>1, <4>1, <5>3
      <4>2. CASE j # k + 2
        <5>1. j \in 1..(k + 1) /\ keys[k + 2] # i
          BY <3>2, <3>7, <4>2
        <5>2. PICK base : Block(a, base, s[j], i)
          BY <2>2, <3>1, <3>7, <5>1
        <5>3. ASSUME NEW q \in DOMAIN (a \o b), (a \o b)[q].instrument = i PROVE q \in 1..Len(a)
          <6>1. CASE q - Len(a) \in 1..Len(b)
            <7>1. (a \o b)[q] = b[q - Len(a)]
              BY <3>3, <3>5, <6>1
            <7>. QED  BY <3>2, <3>3, <5>1, <5>3, <6>1, <7>1
          <6>. QED  BY <3>6, <6>1
        <5>4. Block(a \o b, base, s[j], i)
          BY <3>3, <3>4, <5>2, <5>3 DEF Block
        <5>. QED  BY <5>4
      <4>. QED  BY <4>1, <4>2
    <3>9. ASSUME \A j \in 1..(k + 2) : keys[j] # i PROVE Without(a \o b, i)
      <4>1. keys[k + 2] # i /\ \A j \in 1..(k + 1) : keys[j] # i
        BY <3>2, <3>9
      <4>2. Without(a, i)
        BY <2>2, <3>1, <4>1
      <4>3. ASSUME NEW q \in DOMAIN (a \o b) PROVE (a \o b)[q].instrument # i
        <5>1. CASE q \in 1..Len(a)
          BY <3>3, <3>4, <4>2, <5>1 DEF Without
        <5>2. CASE q - Len(a) \in 1..Len(b)
          <6>1. (a \o b)[q] = b[q - Len(a)]
            BY <3>3, <3>5, <5>2
          <6>. QED  BY <3>2, <3>3, <4>1, <5>2, <6>1
        <5>. QED  BY <3>6, <5>1, <5>2
      <4>. QED  BY <4>3 DEF Without
    <3>8. k + 1 \in 0..(n - 1) /\ (k + 1) + 1 = k + 2
      OBVIOUS
    <3>10. Here(k + 2, i)
      BY <3>1, <3>7, <3>9
    <3>. HIDE DEF Here
    <3>. QED  BY <3>1, <3>3, <3>8, <3>10
  <2>. HIDE DEF T
  <2>. QED  BY <2>1, <2>2, Reaches
<1>4. f[n] \in Seq(Wanted) /\ \A i : Here(n, i)
  <2>1. (n - 1) + 1 = n
    OBVIOUS
  <2>. HIDE DEF Here
  <2>. QED  BY <1>3, <2>1
<1>5. ASSUME NEW j \in 1..n PROVE \E base : Block(f[n], base, s[j], keys[j])
  BY <1>4
<1>6. ASSUME NEW i, \A j \in 1..n : keys[j] # i PROVE Without(f[n], i)
  BY <1>4, <1>6
<1>. QED
  BY <1>1, <1>4, <1>5, <1>6

\* A plan names instruments, each of them once, and at least one.
LEMMA PlanType ==
  ASSUME NEW keys \in Plans
  PROVE  \E n \in Nat \ {0} :
           /\ DOMAIN keys = 1..n /\ ToSet(keys) \subseteq Instruments
           /\ \A j \in 1..n : keys[j] \in Instruments /\ keys[j] \in ToSet(keys)
           /\ \A j, k \in 1..n : keys[j] = keys[k] => j = k
           /\ \A i \in ToSet(keys) : \E j \in 1..n : keys[j] = i
<1>1. PICK chosen \in (SUBSET Instruments) \ {{}} : keys \in SetToSeqs(chosen)
  BY DEF Plans
<1>2. IsFiniteSet(chosen) /\ chosen # {}
  BY ConfigAssumption, FS_Subset
<1>3. PICK n \in Nat \ {0} : n = Cardinality(chosen)
  BY <1>2, FS_CardinalityType, FS_EmptySet
<1>4. keys \in [1..n -> chosen] /\ \A j, k \in 1..n : j # k => keys[j] # keys[k]
  BY <1>1, <1>3 DEF SetToSeqs
<1>. QED
  BY <1>4 DEF ToSet

\* The orders `out` for instrument i lead it from one quantity to the other.
Leads(out, base, i, from, to) ==
  /\ i \in Instruments /\ from \in Int /\ to \in Int
  /\ ChildrenFor(i, to, from) # << >>
  /\ Block(out, base, ChildrenFor(i, to, from), i)

\* The orders of a call are orders a client may send; those for one instrument stand
\* together, in the chunks of the way to its target.
LEMMA CallType ==
  ASSUME NEW keys \in Plans,
         NEW worth \in [ToSet(keys) -> Worths], NEW mark \in [ToSet(keys) -> Prices],
         oms_positions \in Books, Reconcile(keys, worth, mark)
  PROVE  /\ outbox' \in Seq(Wanted)
         /\ ~Settled => course' = NoCourse
         /\ Settled =>
              \A i \in DOMAIN course' :
                /\ course'[i].from = oms_positions[i].qty
                /\ \E base : Leads(outbox', base, i, course'[i].from, course'[i].to)
<1>1. PICK n \in Nat \ {0} :
        /\ DOMAIN keys = 1..n /\ ToSet(keys) \subseteq Instruments
        /\ \A j \in 1..n : keys[j] \in Instruments /\ keys[j] \in ToSet(keys)
        /\ \A j, k \in 1..n : keys[j] = keys[k] => j = k
        /\ \A i \in ToSet(keys) : \E j \in 1..n : keys[j] = i
  BY PlanType
<1>. DEFINE Move(i) == [from |-> oms_positions[i].qty, to |-> TargetQty(worth[i], mark[i])]
            Children(i) == ChildrenFor(i, Move(i).to, Move(i).from)
            moved == { i \in ToSet(keys) : Children(i) # << >> }
<1>2. PICK s : s = [k \in 1..n |-> Children(keys[k])]
  OBVIOUS
<1>3. /\ outbox' = FlattenSeq(s)
      /\ course' = IF Settled THEN [i \in moved |-> Move(i)] ELSE NoCourse
  BY <1>1, <1>2 DEF Reconcile
<1>4. ASSUME NEW i \in ToSet(keys)
      PROVE  Move(i).to \in Int /\ Move(i).from \in Int /\ i \in Instruments
  <2>1. worth[i] \in Int /\ mark[i] \in Nat \ {0}
    BY ExecutorAssumption, ConfigAssumption
  <2>. QED  BY <1>1, <2>1 DEF TargetQty, Books, Position
<1>5. ASSUME NEW j \in 1..n
      PROVE  /\ s[j] = Children(keys[j]) /\ s[j] \in Seq(Wanted)
             /\ \A k \in DOMAIN s[j] : s[j][k].instrument = keys[j]
  <2>1. /\ keys[j] \in ToSet(keys) /\ keys[j] \in Instruments
        /\ Move(keys[j]).to \in Int /\ Move(keys[j]).from \in Int
    BY <1>1, <1>4
  <2>2. s[j] = Children(keys[j])
    BY <1>2
  <2>. HIDE DEF Move
  <2>. QED  BY <2>1, <2>2, ChildrenAre
<1>6. Len(s) = n
  BY <1>2
<1>7. /\ FlattenSeq(s) \in Seq(Wanted)
      /\ \A j \in 1..n : \E base : Block(FlattenSeq(s), base, s[j], keys[j])
  <2>1. \A j, k \in 1..n : keys[j] = keys[k] => j = k
    BY <1>1
  <2>2. \A j \in 1..n : s[j] \in Seq(Wanted) /\ \A k \in DOMAIN s[j] : s[j][k].instrument = keys[j]
    <3>. HIDE DEF Children
    <3>. QED  BY <1>5
  <2>. QED  BY <1>6, <2>1, <2>2, PlanFlattened, Zenon
<1>8. ASSUME Settled, NEW i \in DOMAIN course'
      PROVE  /\ course'[i].from = oms_positions[i].qty
             /\ \E base : Leads(outbox', base, i, course'[i].from, course'[i].to)
  <2>1. i \in ToSet(keys) /\ Children(i) # << >> /\ course'[i] = Move(i)
    <3>. HIDE DEF Children, Move
    <3>. QED  BY <1>3, <1>8
  <2>2. PICK j \in 1..n : keys[j] = i
    BY <1>1, <2>1
  <2>3. PICK base : Block(outbox', base, Children(i), i)
    <3>. HIDE DEF Children
    <3>. QED  BY <1>3, <1>5, <1>7, <2>2
  <2>4. /\ course'[i].to \in Int /\ course'[i].from \in Int /\ i \in Instruments
        /\ course'[i].from = oms_positions[i].qty
    <3>1. Move(i).from = oms_positions[i].qty
      OBVIOUS
    <3>. HIDE DEF Move
    <3>. QED  BY <1>4, <2>1, <3>1
  <2>5. Children(i) = ChildrenFor(i, course'[i].to, course'[i].from)
    <3>. HIDE DEF Move
    <3>. QED  BY <2>1
  <2>6. Leads(outbox', base, i, course'[i].from, course'[i].to)
    <3>. HIDE DEF Children, Move
    <3>. QED  BY <2>1, <2>3, <2>4, <2>5 DEF Leads
  <2>. QED  BY <2>4, <2>6
<1>9. ~Settled => course' = NoCourse
  BY <1>3
<1>. QED
  BY <1>3, <1>7, <1>8, <1>9

-----------------------------------------------------------------------------
(* The order manager's guarantees, with the agent at the desk              *)

OutboxTyped == outbox \in Seq(Wanted)

ExecInv == OMSInv /\ OutboxTyped

LEMMA ExecInvInit == ExecInit => ExecInv
BY InvInit DEF ExecInit, ExecInv, OutboxTyped

LEMMA InvStutter == OMSInv /\ UNCHANGED omsVars => OMSInv'
BY InvNext

LEMMA ExecInvNext == ExecInv /\ [ExecNext]_execVars => ExecInv'
<1>. SUFFICES ASSUME ExecInv, [ExecNext]_execVars PROVE ExecInv'
  OBVIOUS
<1>0. OMSInv /\ outbox \in Seq(Wanted)
  BY DEF ExecInv, OutboxTyped
<1>1. ASSUME NEW keys \in Plans,
             NEW worth \in [ToSet(keys) -> Worths], NEW mark \in [ToSet(keys) -> Prices],
             Reconcile(keys, worth, mark)
      PROVE  ExecInv'
  <2>1. oms_positions \in Books
    BY <1>0 DEF OMSInv, DeskTyped
  <2>2. outbox' \in Seq(Wanted)
    BY <1>1, <2>1, CallType
  <2>3. UNCHANGED omsVars
    BY <1>1 DEF Reconcile
  <2>. QED  BY <1>0, <2>2, <2>3, InvStutter DEF ExecInv, OutboxTyped
<1>2. CASE SubmitNext
  <2>1. /\ Head(outbox) \in Wanted /\ Submit(Head(outbox)) /\ outbox' \in Seq(Wanted)
    BY <1>0, <1>2 DEF SubmitNext
  <2>. QED  BY <1>0, <2>1, InvSubmit DEF Wanted, ExecInv, OutboxTyped
<1>3. CASE OthersStep
  BY <1>0, <1>3, InvNext DEF OthersStep, ExecInv, OutboxTyped
<1>4. CASE UNCHANGED execVars
  <2>1. UNCHANGED omsVars /\ outbox' = outbox
    BY <1>4 DEF execVars
  <2>. QED  BY <1>0, <2>1, InvStutter DEF ExecInv, OutboxTyped
<1>. QED
  BY <1>1, <1>2, <1>3, <1>4 DEF ExecNext

\* Every guarantee of the order manager rests on OMSInv, and the agent's orders, which are
\* not among the requests the other clients make, keep it too.
THEOREM AgentKeepsInv == ExecSpec => []ExecInv
<1>1. ExecInit => ExecInv
  BY ExecInvInit
<1>2. ExecInv /\ [ExecNext]_execVars => ExecInv'
  BY ExecInvNext
<1>. QED
  BY <1>1, <1>2, PTL DEF ExecSpec

\* With the agent at the desk the manager's state keeps its shape, orders keep to the rate,
\* the books agree once every execution is delivered, and positions keep to the limit.
THEOREM AgentKeepsGuarantees ==
  ExecSpec => [](OMSTypeOK /\ RateCapped /\ PositionsAgree /\ SymbolLimitHolds)
<1>1. OMSInv => OMSTypeOK /\ RateCapped /\ PositionsAgree /\ SymbolLimitHolds
  <2>. SUFFICES ASSUME OMSInv
                PROVE  OMSTypeOK /\ RateCapped /\ PositionsAgree /\ SymbolLimitHolds
    OBVIOUS
  <2>1. OMSTypeOK /\ RateCapped
    BY DeskTypes DEF OMSInv, WindowInv
  <2>2. PositionsAgree
    BY DEF OMSInv, BooksInv, InStep, PositionsAgree
  <2>3. SymbolLimitHolds
    BY DEF OMSInv, BooksInv, LimitKept, SymbolLimitHolds
  <2>. QED  BY <2>1, <2>2, <2>3
<1>2. ExecInv => OMSTypeOK /\ RateCapped /\ PositionsAgree /\ SymbolLimitHolds
  BY <1>1 DEF ExecInv
<1>. QED
  BY <1>2, AgentKeepsInv, PTL

\* The kill switch holds for the agent's orders too: with the loss reported every order it
\* has left is refused, and with the loss booked those it has left once that is reported.
THEOREM AgentStopsAtLoss == ExecSpec => OrdersStopAtLoss
<1>1. ExecInit => ReportedInv
  BY ReportedInit DEF ExecInit
<1>2. ExecInv /\ ReportedInv /\ [ExecNext]_execVars =>
        /\ ReportedInv'
        /\ [sent_at' # sent_at =>
              /\ ~LossReached(Reported)
              /\ LossReached(positions) => streamed < Len(fills)]_omsVars
  <2>. SUFFICES ASSUME ExecInv, ReportedInv, [ExecNext]_execVars
                PROVE  /\ ReportedInv'
                       /\ sent_at' # sent_at =>
                            /\ ~LossReached(Reported)
                            /\ LossReached(positions) => streamed < Len(fills)
    OBVIOUS
  <2>1. OMSInv
    BY DEF ExecInv
  <2>2. (\E r : Submit(r)) \/ OMSNext \/ UNCHANGED omsVars
    BY DEF ExecNext, SubmitNext, OthersStep, Reconcile, execVars
  <2>3. ReportedInv'
    BY <2>1, <2>2, ReportedSubmit, ReportedNext
  <2>4. ASSUME sent_at' # sent_at PROVE \E r : Submit(r)
    BY <2>2, <2>4, OnlySubmitSends DEF omsVars, omsOwn
  <2>. QED
    BY <2>1, <2>3, <2>4, SentBeforeLoss
<1>. QED
  BY <1>1, <1>2, AgentKeepsInv, PTL DEF ExecSpec, OrdersStopAtLoss

-----------------------------------------------------------------------------
(* On course                                                               *)

\* The orders that may still move a position: those waiting at the broker, and those of
\* the agent's call not submitted yet, under the numbers they will get.
Open == DOMAIN pending \cup { Len(orders) + k : k \in DOMAIN outbox }

Item(o) == IF o \in DOMAIN orders THEN orders[o] ELSE outbox[o - Len(orders)]

\* The parts of instrument i still to be executed.
Left(i) ==
  { u \in Nat \X Nat : u[1] \in Open /\ Item(u[1]).instrument = i /\ u[2] \in 1..Item(u[1]).qty }

\* With n parts still to be executed on the way.
Behind(n, from, to) == IF to > from THEN to - n ELSE to + n

\* What is left leads from where the position is to the target, and all in one direction.
OnCourse(i) ==
  /\ i \in Instruments /\ course[i].from \in Int /\ course[i].to \in Int
  /\ IsFiniteSet(Left(i)) /\ Cardinality(Left(i)) <= Magnitude(course[i].to - course[i].from)
  /\ positions[i].qty = Behind(Cardinality(Left(i)), course[i].from, course[i].to)
  /\ \A o \in Open :
       Item(o).instrument = i => Item(o).side = SideToward(course[i].to, course[i].from)

\* An order waits until it is executed or cancelled, and then never again.
Fresh ==
  /\ cancelled \subseteq DOMAIN orders
  /\ \A o \in DOMAIN pending : orders[o].filled_qty = 0 /\ o \notin cancelled
  /\ \A k \in (streamed + 1)..Len(fills) : fills[k].order_id \in DOMAIN orders \ DOMAIN pending

CourseInv == Fresh /\ \A i \in DOMAIN course : OnCourse(i)

\* What disturbs neither the position nor what is left keeps the course.
LEMMA CourseKept ==
  ASSUME NEW i, OnCourse(i), course'[i] = course[i], positions'[i] = positions[i],
         Open' = Open,
         \A o \in Open : /\ Item(o)'.instrument = Item(o).instrument
                         /\ Item(o)'.qty = Item(o).qty /\ Item(o)'.side = Item(o).side
  PROVE  OnCourse(i)'
<1>1. Left(i)' = Left(i)
  BY DEF Left
<1>2. Behind(Cardinality(Left(i)), course[i].from, course[i].to)' =
        Behind(Cardinality(Left(i)), course[i].from, course[i].to)
  BY <1>1 DEF Behind
<1>. QED
  BY <1>1, <1>2 DEF OnCourse

\* Sets of the same pairs are the same.
LEMMA SamePairs ==
  ASSUME NEW A, NEW B, A \subseteq Nat \X Nat, B \subseteq Nat \X Nat,
         \A a, b \in Nat : <<a, b>> \in A <=> <<a, b>> \in B
  PROVE  A = B
OBVIOUS

\* A call that nothing was in flight at puts what it moves on course.
LEMMA CourseSet ==
  ASSUME OMSInv, outbox' \in Seq(Wanted), UNCHANGED omsVars, Settled, NEW i, NEW base,
         course'[i].from = oms_positions[i].qty,
         Leads(outbox', base, i, course'[i].from, course'[i].to)
  PROVE  OnCourse(i)'
<1>1. PICK from \in Int, to \in Int : from = course'[i].from /\ to = course'[i].to
  BY DEF Leads
<1>2. PICK l \in Nat : l = Len(orders) /\ DOMAIN orders = 1..l
  BY DEF OMSInv, DeskTyped
<1>3. orders' = orders /\ pending' = pending /\ positions' = positions /\ DOMAIN pending = {}
  BY DEF omsVars, brokerVars, Settled
<1>4. positions[i].qty = from
  <2>1. oms_positions = positions
    BY DEF OMSInv, BooksInv, InStep, Settled
  <2>. QED  BY <1>1, <2>1
<1>5. PICK c : c = ChildrenFor(i, to, from)
  OBVIOUS
<1>6. PICK delta \in Nat : delta = Magnitude(to - from)
  <2>1. to - from \in Int
    BY <1>1
  <2>2. Magnitude(to - from) \in Nat
    BY <2>1, MagnitudeType
  <2>. QED  BY <2>2
<1>7. i \in Instruments /\ c # << >> /\ Block(outbox', base, c, i)
  <2>1. /\ i \in Instruments
        /\ ChildrenFor(i, course'[i].to, course'[i].from) # << >>
        /\ Block(outbox', base, ChildrenFor(i, course'[i].to, course'[i].from), i)
    BY DEF Leads
  <2>2. c = ChildrenFor(i, course'[i].to, course'[i].from)
    BY <1>1, <1>5
  <2>. QED  BY <2>1, <2>2, Zenon
<1>8. /\ delta \in Nat \ {0} /\ delta = Magnitude(to - from)
      /\ \A k \in DOMAIN c : c[k].instrument = i /\ c[k].side = SideToward(to, from)
      /\ DOMAIN c = DOMAIN Split(delta, MaxChildQty)
      /\ \A k \in DOMAIN c : c[k].qty = Split(delta, MaxChildQty)[k]
      /\ Block(outbox', base, c, i)
  <2>1. /\ \A k \in DOMAIN c : c[k].instrument = i /\ c[k].side = SideToward(to, from)
        /\ c # << >> =>
             /\ Magnitude(to - from) \in Nat \ {0}
             /\ DOMAIN c = DOMAIN Split(Magnitude(to - from), MaxChildQty)
             /\ \A k \in DOMAIN c : c[k].qty = Split(Magnitude(to - from), MaxChildQty)[k]
    BY <1>5, <1>7, ChildrenAre
  <2>2. delta \in Nat \ {0}
    BY <1>6, <1>7, <2>1
  <2>. QED  BY <1>6, <1>7, <2>1, <2>2, Zenon
<1>9. PICK chunks : chunks = Split(delta, MaxChildQty)
  OBVIOUS
<1>10. ASSUME NEW o \in Nat
      PROVE  o \in Open' <=> o - l \in DOMAIN outbox'
  BY <1>2, <1>3 DEF Open
<1>11. ASSUME NEW k \in DOMAIN outbox'
      PROVE  Item(l + k)' = outbox'[k] /\ k \in Nat
  <2>1. k \in Nat \ {0}
    OBVIOUS
  <2>. QED  BY <1>2, <1>3, <2>1 DEF Item
<1>12. /\ base \in Nat
       /\ \A k \in DOMAIN outbox' : outbox'[k].instrument = i => k - base \in DOMAIN c
       /\ \A k \in DOMAIN c : base + k \in DOMAIN outbox' /\ outbox'[base + k] = c[k]
  BY <1>8 DEF Block
<1>13. PICK left : left = Left(i)'
  OBVIOUS
<1>14. left = Spread(l + base, chunks)
  <2>1. ASSUME NEW o \in Nat, NEW n \in Nat
        PROVE  (o \in Open' /\ Item(o)'.instrument = i /\ n \in 1..Item(o)'.qty)
                 <=> (o - (l + base) \in DOMAIN chunks /\ n \in 1..chunks[o - (l + base)])
    <3>1. PICK k \in Int : o = l + k
      <4>1. o - l \in Int /\ o = l + (o - l)
        BY <1>2
      <4>. QED  BY <4>1
    <3>2. o - l = k /\ o - (l + base) = k - base /\ base + (k - base) = k
      BY <1>12, <3>1
    <3>3. CASE k - base \in DOMAIN c
      <4>1. k \in DOMAIN outbox' /\ outbox'[k] = c[k - base]
        BY <1>12, <3>2, <3>3
      <4>2. Item(o)' = c[k - base] /\ o \in Open'
        BY <1>10, <1>11, <3>1, <3>2, <4>1
      <4>3. c[k - base].instrument = i /\ c[k - base].qty = chunks[k - base]
        BY <1>8, <1>9, <3>3
      <4>. QED  BY <1>8, <1>9, <3>2, <3>3, <4>2, <4>3
    <3>4. CASE k - base \notin DOMAIN c
      <4>1. ~ (o \in Open' /\ Item(o)'.instrument = i)
        BY <1>10, <1>11, <1>12, <3>1, <3>2, <3>4
      <4>. QED  BY <1>8, <1>9, <3>2, <3>4, <4>1
    <3>. QED  BY <3>3, <3>4
  <2>2. left = { u \in Nat \X Nat :
                       u[1] \in Open' /\ Item(u[1])'.instrument = i /\ u[2] \in 1..Item(u[1])'.qty }
    BY <1>13 DEF Left
  <2>3. left \subseteq Nat \X Nat /\ Spread(l + base, chunks) \subseteq Nat \X Nat
    BY <2>2 DEF Spread
  <2>4. ASSUME NEW o \in Nat, NEW n \in Nat
        PROVE  <<o, n>> \in left <=> <<o, n>> \in Spread(l + base, chunks)
    BY <2>1, <2>2 DEF Spread
  <2>5. \A a, b \in Nat : <<a, b>> \in left <=> <<a, b>> \in Spread(l + base, chunks)
    BY <2>4
  <2>6. PICK spread : spread = Spread(l + base, chunks)
    OBVIOUS
  <2>7. left \subseteq Nat \X Nat
    BY <2>3
  <2>8. spread \subseteq Nat \X Nat
    BY <2>3, <2>6
  <2>9. \A a, b \in Nat : <<a, b>> \in left <=> <<a, b>> \in spread
    BY <2>5, <2>6
  <2>10. left = spread
    BY <2>7, <2>8, <2>9, SamePairs, Zenon
  <2>. QED  BY <2>6, <2>10
<1>15. IsFiniteSet(Left(i))' /\ Cardinality(Left(i))' = delta
  <2>1. l + base \in Nat /\ MaxChildQty \in Nat \ {0}
    BY <1>12, ExecutorAssumption
  <2>2. IsFiniteSet(left) /\ Cardinality(left) = delta
    BY <1>8, <1>9, <1>14, <2>1, SpreadSize
  <2>. QED  BY <1>13, <2>2
<1>16. delta = IF to > from THEN to - from ELSE from - to
  BY <1>8 DEF Magnitude
<1>17. positions'[i].qty = Behind(delta, from, to)
  BY <1>3, <1>4, <1>16 DEF Behind
<1>18. ASSUME NEW o \in Open', Item(o)'.instrument = i
       PROVE  Item(o)'.side = SideToward(to, from)
  <2>1. PICK k \in DOMAIN outbox' : o = l + k
    BY <1>2, <1>3 DEF Open
  <2>2. Item(o)' = outbox'[k] /\ k - base \in DOMAIN c
    BY <1>11, <1>12, <1>18, <2>1
  <2>3. outbox'[k] = c[k - base]
    <3>1. base + (k - base) = k
      BY <1>11, <1>12
    <3>. QED  BY <1>12, <2>2, <3>1
  <2>. QED  BY <1>8, <2>2, <2>3
<1>19. /\ i \in Instruments /\ Behind(delta, from, to)' = Behind(delta, from, to)
       /\ delta <= Magnitude(to - from)
  BY <1>8 DEF Leads
<1>. QED
  BY <1>1, <1>15, <1>17, <1>18, <1>19 DEF OnCourse, Behind

\* A new order waits under a number no execution has.
LEMMA FreshSubmitted ==
  ASSUME OMSInv, Fresh, NEW r \in Request(Instruments, Modes), Submit(r)
  PROVE  Fresh' /\ Len(orders') = Len(orders) + 1
<1>1. PICK l \in Nat : l = Len(orders) /\ DOMAIN orders = 1..l /\ orders \in Seq(Ticket)
  BY DEF OMSInv, DeskTyped
<1>2. UNCHANGED <<fills, streamed, cancelled>> /\ DOMAIN pending \subseteq DOMAIN orders
  BY DEF Submit, OMSInv, DeskTyped
<1>3. PICK ticket \in Ticket :
        /\ orders' = Append(orders, ticket) /\ ticket.filled_qty = 0
        /\ DOMAIN pending' \subseteq DOMAIN pending \cup {l + 1}
  <2>1. CASE Passes(NewOrder(r), SessionMode, oms_positions)
    <3>1. orders' = Append(orders, [NewOrder(r) EXCEPT !.status = "sent"])
      BY <2>1 DEF Submit, Send, Accept
    <3>2. DOMAIN pending' = DOMAIN pending \cup {l + 1}
      BY <1>1, <2>1 DEF Submit, Send, Accept
    <3>3. /\ [NewOrder(r) EXCEPT !.status = "sent"] \in Ticket
          /\ [NewOrder(r) EXCEPT !.status = "sent"].filled_qty = 0
      BY NewTicket
    <3>. QED  BY <3>1, <3>2, <3>3
  <2>2. CASE ~Passes(NewOrder(r), SessionMode, oms_positions)
    <3>1. orders' = Append(orders, [NewOrder(r) EXCEPT !.status = "rejected"])
      BY <2>2 DEF Submit, Refuse
    <3>2. pending' = pending
      BY <2>2 DEF Submit, Refuse
    <3>3. [NewOrder(r) EXCEPT !.status = "rejected"] \in Ticket
      BY NewTicket
    <3>4. [NewOrder(r) EXCEPT !.status = "rejected"].filled_qty = 0
      BY DEF NewOrder
    <3>. QED  BY <3>1, <3>2, <3>3, <3>4
  <2>. QED  BY <2>1, <2>2
<1>4. /\ DOMAIN orders' = DOMAIN orders \cup {l + 1} /\ l + 1 \notin DOMAIN orders
      /\ \A o \in DOMAIN orders : orders'[o] = orders[o]
      /\ orders'[l + 1] = ticket
  BY <1>1, <1>3, OrdersAppend
<1>5. Len(orders') = l + 1
  BY <1>1, <1>3
<1>. QED
  BY <1>1, <1>2, <1>3, <1>4, <1>5 DEF Fresh

\* An order keeps its number, instrument, side and quantity when it goes to the broker.
LEMMA CourseSubmitted ==
  ASSUME OMSInv, outbox \in Seq(Wanted), SubmitNext
  PROVE  /\ \A i \in DOMAIN course' : course'[i] = course[i] /\ i \in DOMAIN course
         /\ \A i \in DOMAIN course' : OnCourse(i) => OnCourse(i)'
<1>1. PICK r : r = Head(outbox)
  OBVIOUS
<1>2. /\ r \in Wanted /\ Submit(r) /\ outbox # << >> /\ r = outbox[1]
      /\ outbox' = Tail(outbox)
      /\ course' = IF orders'[Len(orders')].status = "rejected" THEN NoCourse ELSE course
  BY <1>1 DEF SubmitNext
<1>3. PICK l \in Nat : l = Len(orders) /\ DOMAIN orders = 1..l
  BY DEF OMSInv, DeskTyped
<1>4. PICK id \in Nat : id = l + 1
  OBVIOUS
<1>5. DeskTyped /\ r \in Request(Instruments, Modes)
  BY <1>2 DEF OMSInv, Wanted
<1>6. UNCHANGED <<positions, fills, streamed, cancelled>>
  BY <1>2 DEF Submit
<1>7. CASE ~Passes(NewOrder(r), SessionMode, oms_positions)
  <2>1. PICK ticket \in Ticket : /\ ticket = [NewOrder(r) EXCEPT !.status = "rejected"]
                                /\ ticket.status = "rejected"
    <3>1. [NewOrder(r) EXCEPT !.status = "rejected"] \in Ticket
      BY <1>5, NewTicket
    <3>2. [NewOrder(r) EXCEPT !.status = "rejected"].status = "rejected"
      BY DEF NewOrder
    <3>. QED  BY <3>1, <3>2
  <2>2. orders' = Append(orders, ticket) /\ pending' = pending
    BY <1>2, <1>7, <2>1 DEF Submit, Refuse
  <2>3. /\ DOMAIN orders' = DOMAIN orders \cup {id}
        /\ \A o \in DOMAIN orders : orders'[o] = orders[o]
        /\ orders'[id] = ticket
    BY <1>3, <1>4, <1>5, <2>2, OrdersAppend DEF DeskTyped
  <2>4. Len(orders') = id
    BY <1>3, <1>4, <1>5, <2>2 DEF DeskTyped
  <2>5. course' = NoCourse
    BY <1>2, <2>1, <2>3, <2>4
  <2>. QED  BY <2>5 DEF NoCourse
<1>8. CASE Passes(NewOrder(r), SessionMode, oms_positions)
  <2>1. PICK ticket \in Ticket :
          /\ ticket = [NewOrder(r) EXCEPT !.status = "sent"]
          /\ ticket.status = "sent" /\ ticket.filled_qty = 0
          /\ ticket.side = r.side /\ ticket.qty = r.qty /\ ticket.instrument = r.instrument
    <3>1. /\ [NewOrder(r) EXCEPT !.status = "sent"] \in Ticket
          /\ [NewOrder(r) EXCEPT !.status = "sent"].status = "sent"
          /\ [NewOrder(r) EXCEPT !.status = "sent"].filled_qty = 0
      BY <1>5, NewTicket
    <3>2. /\ [NewOrder(r) EXCEPT !.status = "sent"].side = r.side
          /\ [NewOrder(r) EXCEPT !.status = "sent"].qty = r.qty
          /\ [NewOrder(r) EXCEPT !.status = "sent"].instrument = r.instrument
      BY DEF NewOrder
    <3>. QED  BY <3>1, <3>2
  <2>2. orders' = Append(orders, ticket) /\ DOMAIN pending' = DOMAIN pending \cup {id}
    BY <1>2, <1>3, <1>4, <1>8, <2>1 DEF Submit, Send, Accept
  <2>3. /\ DOMAIN orders' = DOMAIN orders \cup {id} /\ id \notin DOMAIN orders
        /\ \A o \in DOMAIN orders : orders'[o] = orders[o]
        /\ orders'[id] = ticket
    BY <1>3, <1>4, <1>5, <2>2, OrdersAppend DEF DeskTyped
  <2>4. Len(orders') = id
    BY <1>3, <1>4, <1>5, <2>2 DEF DeskTyped
  <2>5. course' = course
    BY <1>2, <2>1, <2>3, <2>4
  <2>6. DOMAIN pending \subseteq DOMAIN orders
    BY <1>5 DEF DeskTyped
  <2>7. PICK m \in Nat \ {0} : /\ m = Len(outbox) /\ DOMAIN outbox = 1..m
                              /\ DOMAIN outbox' = 1..(m - 1)
                              /\ \A k \in 1..(m - 1) : outbox'[k] = outbox[k + 1]
    BY <1>2
  <2>8. Open = DOMAIN pending \cup (id..(l + m))
    <3>1. { Len(orders) + k : k \in DOMAIN outbox } = id..(l + m)
      <4>1. ASSUME NEW o \in id..(l + m) PROVE \E k \in DOMAIN outbox : o = Len(orders) + k
        <5>1. o - l \in 1..m /\ o = l + (o - l)
          BY <1>4, <4>1
        <5>. QED  BY <1>3, <2>7, <5>1
      <4>2. ASSUME NEW k \in DOMAIN outbox PROVE Len(orders) + k \in id..(l + m)
        BY <1>3, <1>4, <2>7
      <4>. QED  BY <4>1, <4>2
    <3>. QED  BY <3>1 DEF Open
  <2>9. Open' = DOMAIN pending' \cup ((id + 1)..(l + m))
    <3>1. { Len(orders) + k : k \in DOMAIN outbox }' = (id + 1)..(l + m)
      <4>1. ASSUME NEW o \in (id + 1)..(l + m) PROVE \E k \in DOMAIN outbox' : o = Len(orders') + k
        <5>1. o - id \in 1..(m - 1) /\ o = id + (o - id)
          BY <1>4, <4>1
        <5>. QED  BY <2>4, <2>7, <5>1
      <4>2. ASSUME NEW k \in DOMAIN outbox' PROVE Len(orders') + k \in (id + 1)..(l + m)
        BY <1>4, <2>4, <2>7
      <4>. QED  BY <4>1, <4>2
    <3>. QED  BY <3>1 DEF Open
  <2>10. Open' = Open
    BY <1>4, <2>2, <2>8, <2>9
  <2>11. ASSUME NEW o \in Open
         PROVE  /\ Item(o)'.instrument = Item(o).instrument
                /\ Item(o)'.qty = Item(o).qty /\ Item(o)'.side = Item(o).side
    <3>1. CASE o \in DOMAIN orders
      BY <2>3, <3>1 DEF Item
    <3>2. CASE o = id
      <4>1. Item(o)' = ticket
        BY <2>3, <3>2 DEF Item
      <4>2. Item(o) = r
        <5>1. id - l = 1
          BY <1>4
        <5>. QED  BY <1>2, <1>3, <2>3, <3>2, <5>1 DEF Item
      <4>. QED  BY <2>1, <4>1, <4>2
    <3>3. CASE o \in (id + 1)..(l + m)
      <4>1. o - l \in 2..m /\ o - id = (o - l) - 1 /\ o \notin 1..l /\ o \notin DOMAIN orders'
        BY <1>3, <1>4, <2>3, <3>3
      <4>2. Item(o) = outbox[o - l] /\ Item(o)' = outbox'[o - id]
        BY <1>3, <2>4, <4>1 DEF Item
      <4>3. outbox'[o - id] = outbox[o - l]
        <5>1. o - id \in 1..(m - 1) /\ (o - id) + 1 = o - l
          BY <1>4, <4>1
        <5>. QED  BY <2>7, <5>1
      <4>. QED  BY <4>2, <4>3
    <3>. QED  BY <1>4, <2>6, <2>8, <3>1, <3>2, <3>3
  <2>12. \A i : positions'[i] = positions[i] /\ course'[i] = course[i]
    BY <1>6, <2>5
  <2>. QED  BY <2>5, <2>10, <2>11, <2>12, CourseKept
<1>. QED
  BY <1>7, <1>8

\* Without a cap on what a bar executes, a quote executes every order it matches in full:
\* the execution takes it off the list.
LEMMA QuoteClears ==
  ASSUME MaxQtyPerBar = NoCap, DeskTyped, Fresh, NEW i \in Instruments, NEW price \in Prices,
         NEW hit, NEW new, Emits(i, price, hit, new), cancelled' = cancelled
  PROVE  /\ DOMAIN pending' = DOMAIN pending \ Matched(i, price)
         /\ \A o \in Matched(i, price) : FillQty(orders[o]) = orders[o].qty
         /\ Fresh'
<1>1. Matched(i, price) \subseteq DOMAIN pending /\ DOMAIN pending \subseteq DOMAIN orders
  BY DEF Matched, DeskTyped
<1>2. ASSUME NEW o \in Matched(i, price)
      PROVE  /\ FillQty(orders[o]) = orders[o].qty
             /\ OrderAfter(o, i, price).status = "filled"
  <2>1. o \in DOMAIN orders /\ orders[o] \in Ticket /\ orders[o].filled_qty = 0
    BY <1>1, <1>2 DEF DeskTyped, Fresh
  <2>2. FillQty(orders[o]) = orders[o].qty
    BY <2>1 DEF FillQty, RemainingQty, Ticket
  <2>3. orders[o].qty - (orders[o].filled_qty + FillQty(orders[o])) = 0
    BY <2>1, <2>2 DEF Ticket
  <2>. QED  BY <1>2, <2>1, <2>2, <2>3, OrderAfterQuote
<1>3. DOMAIN pending' = DOMAIN pending \ Matched(i, price)
  BY <1>1, <1>2 DEF Emits, StillPending
<1>4. /\ DOMAIN orders' = DOMAIN orders
      /\ \A o \in DOMAIN orders : orders'[o] = OrderAfter(o, i, price)
  BY DEF Emits
<1>5. ASSUME NEW o \in DOMAIN pending' PROVE orders'[o].filled_qty = 0 /\ o \notin cancelled'
  <2>1. o \in DOMAIN orders /\ o \notin Matched(i, price) /\ orders'[o] = orders[o]
    <3>1. o \in DOMAIN orders /\ o \notin Matched(i, price)
      BY <1>1, <1>3, <1>5
    <3>. QED  BY <1>4, <3>1, OrderAfterQuote
  <2>. QED  BY <1>3, <1>5, <2>1 DEF Fresh
<1>6. ASSUME NEW k \in (streamed' + 1)..Len(fills')
      PROVE  fills'[k].order_id \in DOMAIN orders' \ DOMAIN pending'
  <2>1. PICK l \in Nat, n \in Nat :
          /\ l = Len(fills) /\ n = Len(new) /\ Len(fills') = l + n
          /\ streamed' = streamed /\ streamed \in 0..l
    <3>1. Len(fills') = Len(fills) + Len(new) /\ new \in Seq(Fill)
      BY EmittedFills
    <3>2. fills \in Seq(Fill) /\ streamed \in 0..Len(fills) /\ streamed' = streamed
      BY DEF DeskTyped, Emits
    <3>. QED  BY <3>1, <3>2
  <2>2. CASE k <= l
    <3>1. k \in 1..l /\ k \in (streamed + 1)..l
      BY <1>6, <2>1, <2>2
    <3>2. fills'[k] = fills[k]
      BY <2>1, <3>1, EmittedFills
    <3>3. fills[k].order_id \in DOMAIN orders \ DOMAIN pending
      BY <2>1, <3>1 DEF Fresh
    <3>. QED  BY <1>3, <1>4, <3>2, <3>3
  <2>3. CASE ~(k <= l)
    <3>1. PICK j \in 1..n : k = l + j
      <4>1. k - l \in 1..n /\ k = l + (k - l)
        BY <1>6, <2>1, <2>3
      <4>. QED  BY <4>1
    <3>2. fills'[k] = new[j] /\ new[j] = FillOf(hit[j], price) /\ hit[j] \in Matched(i, price)
      BY <2>1, <3>1, EmittedFills
    <3>3. fills'[k].order_id = hit[j]
      BY <3>2 DEF FillOf
    <3>. QED  BY <1>1, <1>3, <1>4, <3>2, <3>3
  <2>. QED  BY <2>2, <2>3
<1>7. cancelled' \subseteq DOMAIN orders'
  BY <1>4 DEF Fresh
<1>. QED
  BY <1>2, <1>3, <1>5, <1>6, <1>7 DEF Fresh

\* A quote executes each order it matches once, and none but those.
LEMMA HitsAreMatched ==
  ASSUME DeskTyped, NEW i \in Instruments, NEW price \in Prices,
         NEW hit, NEW new, Emits(i, price, hit, new)
  PROVE  /\ \A j, k \in 1..Len(new) : hit[j] = hit[k] => j = k
         /\ \A o \in Matched(i, price) : \E k \in 1..Len(new) : hit[k] = o
<1>0. PICK M : M = Matched(i, price)
  OBVIOUS
<1>1. PICK n \in Nat : /\ n = Cardinality(M) /\ IsFiniteSet(M)
                      /\ hit \in [1..n -> M] /\ Len(new) = n
  <2>1. IsFiniteSet(Matched(i, price)) /\ Cardinality(Matched(i, price)) \in Nat
    BY MatchedSize
  <2>2. hit \in [1..Cardinality(M) -> M] /\ Len(new) = Cardinality(M)
    BY <1>0, EmittedFills
  <2>. QED  BY <1>0, <2>1, <2>2
<1>2. \A j, k \in 1..n : j < k => hit[j] < hit[k]
  BY <1>0, <1>1 DEF Emits, InListOrder
<1>3. \A k \in 1..n : hit[k] \in Nat
  <2>0. DOMAIN orders \subseteq Nat
    BY DEF DeskTyped
  <2>1. M \subseteq Nat
    BY <1>0, <2>0, MatchedSize
  <2>. QED  BY <1>1, <2>1
<1>4. \A j, k \in 1..n : hit[j] = hit[k] => j = k
  BY <1>2, <1>3
<1>5. hit \in Injection(1..n, M)
  BY <1>1, <1>4 DEF Injection, IsInjective
<1>6. Cardinality(1..n) = n
  <2>1. Cardinality(1..n) = IF 1 > n THEN 0 ELSE n - 1 + 1
    BY FS_Interval
  <2>. QED  BY <2>1
<1>7. hit \in Surjection(1..n, M)
  BY <1>1, <1>5, <1>6, FS_Injection
<1>8. \A o \in M : \E k \in 1..n : hit[k] = o
  BY <1>7 DEF Surjection
<1>. QED
  BY <1>0, <1>1, <1>4, <1>8

\* With each execution the position comes nearer to the target by as many parts as are
\* taken from what is left.
LEMMA CourseQuoted ==
  ASSUME MaxQtyPerBar = NoCap, OMSInv, Fresh, outbox = << >>, outbox' = outbox,
         NEW i \in Instruments, NEW price \in Prices,
         NEW hit, NEW new, Emits(i, price, hit, new), cancelled' = cancelled,
         NEW x, OnCourse(x), course'[x] = course[x]
  PROVE  OnCourse(x)'
<1>0. DeskTyped /\ x \in Instruments
  BY DEF OMSInv, OnCourse
<1>1. PICK from \in Int, to \in Int : from = course[x].from /\ to = course[x].to
  BY DEF OnCourse
<1>2. PICK left : left = Left(x) /\ IsFiniteSet(left)
  BY DEF OnCourse
<1>3. PICK n \in Nat : /\ n = Len(new) /\ new \in Seq(Fill)
                      /\ \A k \in 1..n : new[k] = FillOf(hit[k], price)
  <2>1. new \in Seq(Fill)
    BY <1>0, EmittedFills
  <2>2. \A k \in 1..Len(new) : new[k] = FillOf(hit[k], price)
    BY <1>0, EmittedFills
  <2>. QED  BY <2>1, <2>2
<1>4. PICK M : M = Matched(i, price) /\ M \subseteq DOMAIN pending
  BY DEF Matched
<1>5. /\ \A k \in 1..n : hit[k] \in M
      /\ \A j, k \in 1..n : hit[j] = hit[k] => j = k
      /\ \A o \in M : \E k \in 1..n : hit[k] = o
  <2>1. hit \in [1..Cardinality(M) -> M] /\ Len(new) = Cardinality(M)
    BY <1>0, <1>4, EmittedFills
  <2>2. /\ \A j, k \in 1..Len(new) : hit[j] = hit[k] => j = k
        /\ \A o \in Matched(i, price) : \E k \in 1..Len(new) : hit[k] = o
    BY <1>0, HitsAreMatched
  <2>. QED  BY <1>3, <1>4, <2>1, <2>2
<1>6. /\ DOMAIN pending' = DOMAIN pending \ M
      /\ \A o \in M : FillQty(orders[o]) = orders[o].qty
  BY <1>0, <1>4, QuoteClears
<1>7. Open = DOMAIN pending /\ Open' = DOMAIN pending \ M
  <2>1. \A k \in DOMAIN outbox : FALSE
    OBVIOUS
  <2>2. { Len(orders) + k : k \in DOMAIN outbox } = {}
    BY <2>1
  <2>3. { Len(orders) + k : k \in DOMAIN outbox }' = {}
    BY <2>1
  <2>. QED  BY <1>6, <2>2, <2>3 DEF Open
<1>8. /\ DOMAIN orders' = DOMAIN orders /\ DOMAIN orders \subseteq Nat
      /\ DOMAIN pending \subseteq DOMAIN orders
      /\ \A o \in DOMAIN orders : orders[o] \in Ticket /\ orders'[o] = OrderAfter(o, i, price)
  BY <1>0 DEF DeskTyped, Emits
<1>9. ASSUME NEW o \in DOMAIN pending
      PROVE  /\ Item(o) = orders[o] /\ Item(o)' = orders'[o]
             /\ orders'[o].qty = orders[o].qty /\ orders'[o].side = orders[o].side
             /\ orders'[o].instrument = orders[o].instrument
  <2>1. Item(o) = orders[o] /\ Item(o)' = orders'[o]
    BY <1>8, <1>9 DEF Item
  <2>2. /\ OrderAfter(o, i, price).qty = orders[o].qty
        /\ OrderAfter(o, i, price).side = orders[o].side
        /\ OrderAfter(o, i, price).instrument = orders[o].instrument
    BY <1>0, <1>8, <1>9, OrderAfterQuote
  <2>. QED  BY <1>8, <1>9, <2>1, <2>2
<1>10. /\ left \subseteq Nat \X Nat
       /\ \A o, p \in Nat : <<o, p>> \in left <=>
            o \in DOMAIN pending /\ orders[o].instrument = x /\ p \in 1..orders[o].qty
  BY <1>2, <1>7, <1>9 DEF Left
<1>11. PICK g : History(g, positions, new) /\ positions' = g[n]
  <2>1. PICK g : History(g, positions, new) /\ BooksAfter(positions, new) = g[Len(new)]
    BY <1>3, BooksAfterHistory
  <2>. QED  BY <1>3, <2>1 DEF Emits
<1>12. g[0] = positions /\ \A k \in 1..n : g[k] = Booked(g[k - 1], new[k])
  BY <1>3, <1>11 DEF History
<1>. DEFINE Rest(k) == { u \in left : \A j \in 1..k : u[1] # hit[j] }
            T == { k \in 0..n : g[k] \in Books
                                /\ g[k][x].qty = Behind(Cardinality(Rest(k)), from, to) }
<1>13. 0 \in T
  <2>1. Rest(0) = left
    OBVIOUS
  <2>2. positions[x].qty = Behind(Cardinality(left), from, to) /\ positions \in Books
    BY <1>0, <1>1, <1>2 DEF OnCourse, DeskTyped
  <2>3. g[0] \in Books /\ g[0][x].qty = Behind(Cardinality(Rest(0)), from, to)
    BY <1>12, <2>1, <2>2
  <2>. HIDE DEF Rest
  <2>. QED  BY <2>3
<1>14. ASSUME NEW k \in 0..(n - 1), k \in T PROVE k + 1 \in T
  <2>1. PICK m \in 1..n : m = k + 1 /\ m - 1 = k
    BY <1>14
  <2>2. PICK o \in M, q \in Nat : o = hit[m] /\ q = orders[o].qty
    <3>1. hit[m] \in M
      BY <1>5
    <3>2. orders[hit[m]] \in Ticket
      BY <1>4, <1>8, <3>1
    <3>. QED  BY <3>1, <3>2 DEF Ticket
  <2>3. o \in DOMAIN pending /\ o \in Nat /\ orders[o].instrument = i /\ orders[o] \in Ticket
    BY <1>4, <1>8, <2>2 DEF Matched
  <2>4. PICK fill \in Fill : /\ fill = new[m] /\ fill.instrument = i
                            /\ fill.side = orders[o].side /\ fill.qty = q
    <3>1. new[m] = FillOf(o, price) /\ new[m] \in Fill
      BY <1>3, <2>2
    <3>. QED  BY <1>6, <2>2, <2>3, <3>1 DEF FillOf
  <2>5. g[m] = Booked(g[k], fill) /\ g[k] \in Books
    BY <1>12, <1>14, <2>1, <2>4
  <2>6. /\ g[m] \in Books
        /\ g[m][x].qty = IF x = i THEN g[k][x].qty + SignedQty(fill) ELSE g[k][x].qty
    BY <1>0, <2>4, <2>5, BookedType
  <2>7. g[k][x].qty = Behind(Cardinality(Rest(k)), from, to)
    BY <1>14
  <2>8. Rest(k) \subseteq left /\ Rest(m) \subseteq left
    OBVIOUS
  <2>9. ASSUME NEW u \in left PROVE u \in Rest(m) <=> u \in Rest(k) /\ u[1] # o
    <3>1. \A j \in 1..m : j \in 1..k \/ j = m
      BY <2>1
    <3>2. \A j \in 1..k : j \in 1..m
      BY <2>1
    <3>3. u[1] # hit[m] <=> u[1] # o
      BY <2>2
    <3>4. (\A j \in 1..m : u[1] # hit[j]) <=> (\A j \in 1..k : u[1] # hit[j]) /\ u[1] # hit[m]
      BY <2>1, <3>1, <3>2
    <3>. QED  BY <3>3, <3>4
  <2>10. IsFiniteSet(Rest(k)) /\ IsFiniteSet(Rest(m))
    <3>. HIDE DEF Rest
    <3>. QED  BY <1>2, <2>8, FS_Subset
  <2>11. CASE x # i
    <3>1. Rest(m) = Rest(k)
      <4>1. ASSUME NEW u \in left PROVE u[1] # o
        <5>1. PICK a \in Nat, b \in Nat : u = <<a, b>>
          BY <1>10, <4>1
        <5>. QED  BY <1>10, <2>3, <2>11, <4>1, <5>1
      <4>. HIDE DEF Rest
      <4>. QED  BY <2>8, <2>9, <4>1
    <3>. HIDE DEF Rest
    <3>. QED  BY <2>1, <2>6, <2>7, <2>11, <3>1
  <2>12. CASE x = i
    <3>1. Rest(m) = Rest(k) \ Parts(o, q)
      <4>1. ASSUME NEW u \in left PROVE u[1] = o <=> u \in Parts(o, q)
        <5>1. PICK a \in Nat, b \in Nat : u = <<a, b>>
          BY <1>10, <4>1
        <5>2. a = o => b \in 1..q
          BY <1>10, <2>2, <4>1, <5>1
        <5>. QED  BY <2>2, <2>3, <5>1, <5>2, PartsAre
      <4>. HIDE DEF Rest
      <4>. QED  BY <2>8, <2>9, <4>1
    <3>2. Parts(o, q) \subseteq Rest(k)
      <4>1. ASSUME NEW u \in Parts(o, q) PROVE u \in Rest(k)
        <5>1. u \in Nat \X Nat /\ u[1] = o /\ u[2] \in 1..q
          BY <2>2, <2>3, <4>1, PartsAre
        <5>2. u \in left
          BY <1>10, <2>2, <2>3, <2>12, <5>1
        <5>3. ASSUME NEW j \in 1..k PROVE u[1] # hit[j]
          <6>1. j \in 1..n /\ j # m
            BY <2>1, <5>3
          <6>. QED  BY <1>5, <2>2, <5>1, <6>1
        <5>. QED  BY <5>2, <5>3
      <4>. HIDE DEF Rest
      <4>. QED  BY <4>1
    <3>3. IsFiniteSet(Parts(o, q)) /\ Cardinality(Parts(o, q)) = q
      BY PartsSize
    <3>4. PICK a \in Nat, b \in Nat :
            a = Cardinality(Rest(k)) /\ b = Cardinality(Rest(m)) /\ a = b + q
      <4>. HIDE DEF Rest
      <4>1. Rest(k) = Rest(m) \cup Parts(o, q) /\ Rest(m) \cap Parts(o, q) = {}
        BY <3>1, <3>2
      <4>2. Cardinality(Rest(m) \cup Parts(o, q)) =
              Cardinality(Rest(m)) + Cardinality(Parts(o, q))
                - Cardinality(Rest(m) \cap Parts(o, q))
        BY <2>10, <3>3, FS_Union, Zenon
      <4>3. Cardinality(Rest(k)) = Cardinality(Rest(m)) + q - 0
        BY <3>3, <4>1, <4>2, FS_EmptySet, Zenon
      <4>4. Cardinality(Rest(k)) \in Nat /\ Cardinality(Rest(m)) \in Nat
        BY <2>10, FS_CardinalityType
      <4>. QED  BY <4>3, <4>4
    <3>5. orders[o].side = SideToward(to, from)
      <4>1. \A p \in Open : Item(p).instrument = x => Item(p).side = SideToward(to, from)
        BY <1>1 DEF OnCourse
      <4>. QED  BY <1>7, <1>9, <2>3, <2>12, <4>1
    <3>6. SignedQty(fill) = IF to > from THEN q ELSE -q
      BY <2>4, <3>5 DEF SignedQty, SideToward
    <3>7. Behind(a, from, to) + SignedQty(fill) = Behind(b, from, to)
      BY <3>4, <3>6 DEF Behind
    <3>. HIDE DEF Rest
    <3>. QED  BY <2>1, <2>6, <2>7, <2>12, <3>4, <3>7
  <2>. QED  BY <2>11, <2>12
<1>15. n \in T
  <2>. HIDE DEF T
  <2>. QED  BY <1>13, <1>14, Reaches
<1>16. Left(x)' = Rest(n)
  <2>1. Left(x)' = { u \in Nat \X Nat : /\ u[1] \in Open' /\ Item(u[1])'.instrument = x
                                        /\ u[2] \in 1..Item(u[1])'.qty }
    BY DEF Left
  <2>2. ASSUME NEW a \in Nat, NEW b \in Nat PROVE <<a, b>> \in Left(x)' <=> <<a, b>> \in Rest(n)
    <3>1. <<a, b>> \in Rest(n) <=> <<a, b>> \in left /\ a \notin M
      BY <1>5
    <3>2. <<a, b>> \in Left(x)' <=> <<a, b>> \in left /\ a \notin M
      BY <1>7, <1>9, <1>10, <2>1
    <3>. QED  BY <3>1, <3>2
  <2>3. PICK A, B : A = Left(x)' /\ B = Rest(n)
    OBVIOUS
  <2>4. A \subseteq Nat \X Nat
    BY <2>1, <2>3
  <2>5. B \subseteq Nat \X Nat
    BY <1>10, <2>3
  <2>6. \A a, b \in Nat : <<a, b>> \in A <=> <<a, b>> \in B
    BY <2>2, <2>3
  <2>7. A = B
    BY <2>4, <2>5, <2>6, SamePairs, Zenon
  <2>. QED  BY <2>3, <2>7
<1>17. /\ IsFiniteSet(Rest(n)) /\ Cardinality(Rest(n)) <= Cardinality(left)
  <2>1. Rest(n) \subseteq left
    OBVIOUS
  <2>. HIDE DEF Rest
  <2>. QED  BY <1>2, <2>1, FS_Subset
<1>18. positions'[x].qty = Behind(Cardinality(Rest(n)), from, to)
  BY <1>11, <1>15
<1>19. Cardinality(Rest(n)) <= Magnitude(to - from)
  <2>1. Cardinality(left) <= Magnitude(to - from) /\ Magnitude(to - from) \in Nat
    <3>1. Cardinality(left) <= Magnitude(to - from)
      BY <1>1, <1>2 DEF OnCourse
    <3>. QED  BY <3>1, MagnitudeType
  <2>2. Cardinality(Rest(n)) \in Nat /\ Cardinality(left) \in Nat
    <3>. HIDE DEF Rest
    <3>. QED  BY <1>2, <1>17, FS_CardinalityType
  <2>. HIDE DEF Rest
  <2>. QED  BY <1>17, <2>1, <2>2
<1>20. ASSUME NEW o \in Open', Item(o)'.instrument = x PROVE Item(o)'.side = SideToward(to, from)
  <2>1. o \in DOMAIN pending /\ Item(o).instrument = x
    BY <1>7, <1>9, <1>20
  <2>2. Item(o).side = SideToward(to, from)
    BY <1>1, <1>7, <2>1 DEF OnCourse
  <2>. QED  BY <1>9, <2>1, <2>2
<1>. HIDE DEF Rest
<1>21. /\ IsFiniteSet(Left(x))' /\ (Cardinality(Left(x)) <= Magnitude(to - from))'
       /\ (positions[x].qty = Behind(Cardinality(Left(x)), from, to))'
  BY <1>16, <1>17, <1>18, <1>19 DEF Behind
<1>22. course'[x].from = from /\ course'[x].to = to
  BY <1>1
<1>. QED
  BY <1>0, <1>20, <1>21, <1>22 DEF OnCourse

-----------------------------------------------------------------------------
(* The course through every step                                           *)

CoursedInv == ExecInv /\ CourseInv

LEMMA CourseInit == ExecInit => CourseInv
<1>. SUFFICES ASSUME ExecInit PROVE CourseInv
  OBVIOUS
<1>1. /\ orders = << >> /\ pending = << >> /\ cancelled = {} /\ fills = << >> /\ streamed = 0
      /\ course = << >>
  BY DEF ExecInit, OMSInit, SimInit, NoCourse
<1>2. (streamed + 1)..Len(fills) = {} /\ DOMAIN pending = {} /\ DOMAIN course = {}
  BY <1>1
<1>. QED
  BY <1>1, <1>2 DEF CourseInv, Fresh

\* A delivery adds to the filled quantity of an order that waits no more.
LEMMA CourseDelivered ==
  ASSUME OMSInv, CourseInv, DeliverFill, outbox' = outbox, course' = course
  PROVE  CourseInv'
<1>1. PICK n \in Nat : n = streamed + 1 /\ n \in 1..Len(fills) /\ Len(fills) \in Nat
  BY DEF OMSInv, DeskTyped, DeliverFill
<1>2. PICK fill \in Fill : fill = fills[n]
  BY <1>1 DEF OMSInv, DeskTyped
<1>3. /\ BookFill(fill) /\ streamed' = n
      /\ UNCHANGED <<pending, positions, fills, cancelled>>
  BY <1>1, <1>2 DEF DeliverFill
<1>4. /\ DOMAIN orders' = DOMAIN orders /\ Len(orders') = Len(orders)
      /\ \A o \in DOMAIN orders :
           /\ o # fill.order_id => orders'[o] = orders[o]
           /\ orders'[o].qty = orders[o].qty /\ orders'[o].side = orders[o].side
           /\ orders'[o].instrument = orders[o].instrument
  <2>1. DeskTyped
    BY DEF OMSInv
  <2>2. /\ DOMAIN orders' = DOMAIN orders /\ orders' \in Seq(Ticket) /\ orders \in Seq(Ticket)
        /\ \A o \in DOMAIN orders :
             /\ o # fill.order_id => orders'[o] = orders[o]
             /\ orders'[o].qty = orders[o].qty /\ orders'[o].side = orders[o].side
             /\ orders'[o].instrument = orders[o].instrument
    BY <1>3, <2>1, FillBooked DEF DeskTyped
  <2>. QED  BY <2>2
<1>5. Fresh'
  <2>1. fill.order_id \notin DOMAIN pending
    <3>1. n \in (streamed + 1)..Len(fills)
      BY <1>1 DEF OMSInv, DeskTyped
    <3>. QED  BY <1>2, <3>1 DEF CourseInv, Fresh
  <2>2. \A o \in DOMAIN pending : orders'[o] = orders[o]
    BY <1>4, <2>1 DEF OMSInv, DeskTyped
  <2>3. (n + 1)..Len(fills) \subseteq (streamed + 1)..Len(fills)
    BY <1>1 DEF OMSInv, DeskTyped
  <2>. QED  BY <1>3, <1>4, <2>2, <2>3 DEF CourseInv, Fresh
<1>6. Open' = Open
  BY <1>3, <1>4 DEF Open
<1>7. ASSUME NEW o \in Open
      PROVE  /\ Item(o)'.instrument = Item(o).instrument
             /\ Item(o)'.qty = Item(o).qty /\ Item(o)'.side = Item(o).side
  <2>1. CASE o \in DOMAIN orders
    BY <1>4, <2>1 DEF Item
  <2>2. CASE o \notin DOMAIN orders
    BY <1>4, <2>2 DEF Item
  <2>. QED  BY <2>1, <2>2
<1>8. \A i : positions'[i] = positions[i] /\ course'[i] = course[i]
  BY <1>3
<1>. QED
  BY <1>5, <1>6, <1>7, <1>8, CourseKept DEF CourseInv

LEMMA CourseStutter ==
  ASSUME CourseInv, UNCHANGED <<brokerVars, outbox, course>>
  PROVE  CourseInv'
<1>1. UNCHANGED <<orders, pending, positions, fills, streamed, cancelled, outbox, course>>
  BY DEF brokerVars
<1>2. Fresh'
  BY <1>1 DEF CourseInv, Fresh
<1>3. Open' = Open /\ \A o : Item(o)' = Item(o)
  BY <1>1 DEF Open, Item
<1>4. \A i : positions'[i] = positions[i] /\ course'[i] = course[i]
  BY <1>1
<1>. QED
  BY <1>1, <1>2, <1>3, <1>4, CourseKept DEF CourseInv

LEMMA CourseOthers ==
  ASSUME MaxQtyPerBar = NoCap, OMSInv, CourseInv, OthersStep
  PROVE  CourseInv'
<1>1. /\ outbox = << >> /\ outbox' = outbox
      /\ course' = IF Len(orders') > Len(orders) \/ cancelled' # cancelled
                     THEN NoCourse ELSE course
  BY DEF OthersStep
<1>2. Fresh /\ \A i \in DOMAIN course : OnCourse(i)
  BY DEF CourseInv
<1>3. Len(orders) \in Nat /\ DOMAIN NoCourse = {}
  BY DEF OMSInv, DeskTyped, NoCourse
<1>4. ASSUME NEW r \in Requests, Submit(r) PROVE CourseInv'
  <2>1. Fresh' /\ Len(orders') = Len(orders) + 1
    BY <1>2, <1>4, RequestsAssumption, FreshSubmitted
  <2>2. course' = NoCourse
    BY <1>1, <1>3, <2>1
  <2>. QED  BY <1>3, <2>1, <2>2 DEF CourseInv
<1>5. CASE DeliverFill
  <2>1. Len(orders') = Len(orders) /\ cancelled' = cancelled
    <3>1. DeskTyped /\ fills[streamed + 1] \in Fill /\ BookFill(fills[streamed + 1])
      BY <1>5 DEF OMSInv, DeskTyped, DeliverFill
    <3>2. DOMAIN orders' = DOMAIN orders /\ orders' \in Seq(Ticket) /\ orders \in Seq(Ticket)
      BY <3>1, FillBooked DEF DeskTyped
    <3>. QED  BY <1>5, <3>2 DEF DeliverFill
  <2>2. course' = course
    BY <1>1, <1>3, <2>1
  <2>. QED  BY <1>1, <1>5, <2>2, CourseDelivered
<1>6. ASSUME NEW o \in DOMAIN orders, CancelOrder(o) PROVE CourseInv'
  <2>1. /\ o \in DOMAIN pending /\ cancelled' = cancelled \cup {o} /\ orders' = orders
        /\ DOMAIN pending' = DOMAIN pending \ {o} /\ UNCHANGED <<fills, streamed>>
    BY <1>6 DEF CancelOrder
  <2>2. course' = NoCourse
    BY <1>1, <1>2, <2>1 DEF Fresh
  <2>3. Fresh'
    BY <1>2, <1>6, <2>1 DEF Fresh
  <2>. QED  BY <1>3, <2>2, <2>3 DEF CourseInv
<1>7. ASSUME NEW i \in Instruments, NEW price \in Prices, Tick(i, price) PROVE CourseInv'
  <2>1. PICK hit, new : Emits(i, price, hit, new)
    BY <1>7, TickEmits
  <2>2. cancelled' = cancelled
    BY <1>7 DEF Tick
  <2>3. DeskTyped
    BY DEF OMSInv
  <2>4. Fresh'
    BY <1>2, <2>1, <2>2, <2>3, QuoteClears
  <2>5. Len(orders') = Len(orders)
    <3>1. DOMAIN orders' = DOMAIN orders /\ orders' \in Seq(Ticket)
      BY <2>1, <2>3, DeskAfterQuote
    <3>2. orders \in Seq(Ticket)
      BY <2>3 DEF DeskTyped
    <3>. QED  BY <3>1, <3>2
  <2>6. course' = course
    BY <1>1, <1>3, <2>2, <2>5
  <2>7. ASSUME NEW x \in DOMAIN course PROVE OnCourse(x)'
    BY <1>1, <1>2, <2>1, <2>2, <2>6, <2>7, CourseQuoted
  <2>. QED  BY <2>4, <2>6, <2>7 DEF CourseInv
<1>8. ASSUME NEW t \in Ticks, Elapse(t), UNCHANGED <<brokerVars, omsOwn>> PROVE CourseInv'
  <2>1. UNCHANGED brokerVars
    BY <1>8
  <2>2. Len(orders') = Len(orders) /\ cancelled' = cancelled
    BY <2>1 DEF brokerVars
  <2>3. course' = course
    BY <1>1, <1>3, <2>2
  <2>. QED  BY <1>1, <2>1, <2>3, CourseStutter
<1>. QED
  BY <1>4, <1>5, <1>6, <1>7, <1>8 DEF OthersStep, OMSNext

LEMMA CoursedNext ==
  ASSUME MaxQtyPerBar = NoCap
  PROVE  CoursedInv /\ [ExecNext]_execVars => CoursedInv'
<1>. SUFFICES ASSUME CoursedInv, [ExecNext]_execVars PROVE CourseInv'
  BY ExecInvNext DEF CoursedInv
<1>1. OMSInv /\ CourseInv /\ outbox \in Seq(Wanted)
  BY DEF CoursedInv, ExecInv, OutboxTyped
<1>2. ASSUME NEW keys \in Plans,
             NEW worth \in [ToSet(keys) -> Worths], NEW mark \in [ToSet(keys) -> Prices],
             Reconcile(keys, worth, mark)
      PROVE  CourseInv'
  <2>1. oms_positions \in Books
    BY <1>1 DEF OMSInv, DeskTyped
  <2>2. UNCHANGED omsVars
    BY <1>2 DEF Reconcile
  <2>3. Fresh'
    <3>1. UNCHANGED <<orders, pending, fills, streamed, cancelled>>
      BY <2>2 DEF omsVars, brokerVars
    <3>. QED  BY <1>1, <3>1 DEF CourseInv, Fresh
  <2>4. CASE ~Settled
    <3>1. course' = NoCourse
      BY <1>2, <2>1, <2>4, CallType
    <3>. QED  BY <2>3, <3>1 DEF CourseInv, NoCourse
  <2>5. CASE Settled
    <3>1. outbox' \in Seq(Wanted)
      BY <1>2, <2>1, CallType
    <3>2. ASSUME NEW i \in DOMAIN course' PROVE OnCourse(i)'
      <4>1. /\ course'[i].from = oms_positions[i].qty
            /\ \E base : Leads(outbox', base, i, course'[i].from, course'[i].to)
        BY <1>2, <2>1, <2>5, <3>2, CallType
      <4>2. PICK base : Leads(outbox', base, i, course'[i].from, course'[i].to)
        BY <4>1
      <4>. QED  BY <1>1, <2>2, <2>5, <3>1, <4>1, <4>2, CourseSet
    <3>. QED  BY <2>3, <3>2 DEF CourseInv
  <2>. QED  BY <2>4, <2>5
<1>3. CASE SubmitNext
  <2>1. Head(outbox) \in Wanted /\ Submit(Head(outbox))
    BY <1>1, <1>3 DEF SubmitNext
  <2>2. Fresh'
    BY <1>1, <2>1, FreshSubmitted DEF CourseInv, Wanted
  <2>3. ASSUME NEW i \in DOMAIN course' PROVE OnCourse(i)'
    <3>1. i \in DOMAIN course
      BY <1>1, <1>3, <2>3, CourseSubmitted
    <3>2. OnCourse(i)
      BY <1>1, <3>1 DEF CourseInv
    <3>. QED  BY <1>1, <1>3, <2>3, <3>2, CourseSubmitted
  <2>. QED  BY <2>2, <2>3 DEF CourseInv
<1>4. CASE OthersStep
  BY <1>1, <1>4, CourseOthers
<1>5. CASE UNCHANGED execVars
  BY <1>1, <1>5, CourseStutter DEF execVars, omsVars
<1>. QED
  BY <1>2, <1>3, <1>4, <1>5 DEF ExecNext

\* Through every step of the agent, the other clients, the market and the deliveries, what
\* is left of a call leads from where the position is to the target.
THEOREM CourseIsKept ==
  ASSUME MaxQtyPerBar = NoCap
  PROVE  ExecSpec => []CoursedInv
<1>1. ExecInit => CoursedInv
  BY ExecInvInit, CourseInit DEF CoursedInv
<1>2. CoursedInv /\ [ExecNext]_execVars => CoursedInv'
  BY CoursedNext
<1>. QED
  BY <1>1, <1>2, PTL DEF ExecSpec

\* The position stays between where it was and the target of the call, however the
\* children are executed, if the broker executes orders in full.
THEOREM NeverAwayFromTarget ==
  ASSUME MaxQtyPerBar = NoCap
  PROVE  ExecSpec => []MovesToward
<1>1. CoursedInv => MovesToward
  <2>. SUFFICES ASSUME CoursedInv, NEW i \in DOMAIN course
                PROVE  Between(positions[i].qty, course[i].from, course[i].to)
    BY DEF MovesToward
  <2>1. OnCourse(i)
    BY DEF CoursedInv, CourseInv
  <2>2. PICK from \in Int, to \in Int : from = course[i].from /\ to = course[i].to
    BY <2>1 DEF OnCourse
  <2>3. PICK n \in Nat : n = Cardinality(Left(i)) /\ n <= Magnitude(to - from)
    BY <2>1, <2>2, FS_CardinalityType DEF OnCourse
  <2>4. positions[i].qty = Behind(n, from, to)
    BY <2>1, <2>2, <2>3 DEF OnCourse
  <2>5. Between(Behind(n, from, to), from, to)
    BY <2>3 DEF Between, Behind, Magnitude
  <2>. QED  BY <2>2, <2>4, <2>5
<1>. QED
  BY <1>1, CourseIsKept, PTL

\* Once every child is executed and delivered, the manager's position is at the target.
THEOREM TargetIsReached ==
  ASSUME MaxQtyPerBar = NoCap
  PROVE  ExecSpec => []ReachesTarget
<1>1. CoursedInv => ReachesTarget
  <2>. SUFFICES ASSUME CoursedInv, outbox = << >>, Settled, NEW i \in DOMAIN course
                PROVE  Magnitude(oms_positions[i].qty - course[i].to) < Share
    BY DEF ReachesTarget
  <2>1. OnCourse(i) /\ oms_positions = positions
    BY DEF CoursedInv, CourseInv, ExecInv, OMSInv, BooksInv, InStep, Settled
  <2>2. Open = {}
    BY DEF Open, Settled
  <2>3. Cardinality(Left(i)) = 0
    <3>1. Left(i) = {}
      BY <2>2 DEF Left
    <3>. QED  BY <3>1, FS_EmptySet
  <2>4. course[i].to \in Int /\ oms_positions[i].qty = course[i].to
    BY <2>1, <2>3 DEF OnCourse, Behind
  <2>5. Magnitude(0) = 0 /\ Share > 0
    BY ExecutorAssumption DEF Magnitude
  <2>. QED  BY <2>4, <2>5
<1>. QED
  BY <1>1, CourseIsKept, PTL

=============================================================================
