----------------------------- MODULE OMSProofs -----------------------------
(***************************************************************************)
(* What the order manager guarantees for every set of limits, every        *)
(* configuration of the broker and every stream of orders, cancels, quotes *)
(* and deliveries, checked by TLAPS.                                       *)
(***************************************************************************)
EXTENDS OMS, LedgerProofs

-----------------------------------------------------------------------------
(* Sums of fractions                                                       *)

\* What a fold over the fractions f computes at every subset of D, from what it
\* computes at the smaller ones.
Unfolds(iter, D, f) ==
  /\ iter[D] = SumOfFractions(f)
  /\ \A s \in SUBSET D :
       iter[s] = IF s = {} THEN Whole(0)
                 ELSE Plus(f[CHOOSE x \in s : TRUE], iter[s \ {CHOOSE x \in s : TRUE}])

LEMMA SumUnfolds ==
  ASSUME NEW D, IsFiniteSet(D), NEW f, DOMAIN f = D
  PROVE  \E iter : Unfolds(iter, D, f)
<1>. DEFINE Of(g, s) == IF s = {} THEN Whole(0)
                        ELSE Plus(f[CHOOSE x \in s : TRUE], g[s \ {CHOOSE x \in s : TRUE}])
            All(g) == [s \in SUBSET D |-> Of(g, s)]
            iter == CHOOSE g : g = All(g)
<1>1. iter[D] = SumOfFractions(f)
  BY DEF SumOfFractions, FoldFunction, FoldFunctionOnSet, MapThenFoldSet
<1>2. ASSUME NEW g, g = All(g) PROVE iter = All(iter)
  <2>. HIDE DEF All
  <2>. QED  BY <1>2, Zenon
<1>3. \E g : g = All(g)
  <2>. DEFINE Good(g, n) == \A s \in SUBSET D : Cardinality(s) <= n => g[s] = Of(g, s)
              T == { n \in Nat : \E g : Good(g, n) }
  <2>1. 0 \in T
    <3>1. \A s \in SUBSET D : Cardinality(s) <= 0 => s = {}
      BY FS_Subset, FS_CardinalityType, FS_EmptySet
    <3>2. Good([s \in SUBSET D |-> Whole(0)], 0)
      BY <3>1
    <3>. QED  BY <3>2
  <2>2. ASSUME NEW n \in Nat, n \in T PROVE n + 1 \in T
    <3>1. PICK g : Good(g, n)
      BY <2>2
    <3>. DEFINE h == [s \in SUBSET D |-> IF Cardinality(s) <= n THEN g[s] ELSE Of(g, s)]
    <3>2. ASSUME NEW s \in SUBSET D, Cardinality(s) <= n + 1 PROVE h[s] = Of(h, s)
      <4>1. h[s] = Of(g, s)
        BY <3>1
      <4>2. CASE s = {}
        BY <4>1, <4>2
      <4>3. CASE s # {}
        <5>. DEFINE x == CHOOSE x \in s : TRUE
        <5>1. x \in s /\ s \ {x} \in SUBSET D
          BY <4>3
        <5>2. IsFiniteSet(s)
          BY FS_Subset
        <5>3. Cardinality(s \ {x}) = Cardinality(s) - 1 /\ Cardinality(s) \in Nat
          <6>. HIDE DEF x
          <6>. QED  BY <5>1, <5>2, FS_RemoveElement, FS_CardinalityType
        <5>4. Cardinality(s \ {x}) <= n
          BY <5>3, <3>2
        <5>5. h[s \ {x}] = g[s \ {x}]
          BY <5>1, <5>4
        <5>. QED  BY <4>1, <4>3, <5>5
      <4>. QED  BY <4>2, <4>3
    <3>3. Good(h, n + 1)
      <4>. HIDE DEF h, Of
      <4>. QED  BY <3>2
    <3>. QED
      <4>. HIDE DEF h, Good
      <4>. QED  BY <3>3
  <2>3. Cardinality(D) \in Nat
    BY FS_CardinalityType
  <2>4. Cardinality(D) \in T
    <3>. HIDE DEF T
    <3>. QED  BY <2>1, <2>2, <2>3, Reaches
  <2>5. PICK g : Good(g, Cardinality(D))
    BY <2>4
  <2>6. ASSUME NEW s \in SUBSET D PROVE g[s] = Of(g, s)
    <3>1. Cardinality(s) <= Cardinality(D)
      BY FS_Subset
    <3>. QED  BY <3>1, <2>5
  <2>7. ASSUME NEW s \in SUBSET D PROVE Of(All(g), s) = Of(g, s)
    BY <2>6
  <2>8. All(All(g)) = All(g)
    BY <2>7
  <2>. QED  BY <2>8
<1>4. iter = All(iter)
  BY <1>2, <1>3
<1>5. \A s \in SUBSET D : iter[s] = Of(iter, s)
  <2>. HIDE DEF iter, Of
  <2>. QED  BY <1>4
<1>. QED
  <2>. HIDE DEF iter
  <2>. QED  BY <1>1, <1>5 DEF Unfolds

\* The sum of finitely many fractions is a fraction.
LEMMA SumType ==
  ASSUME NEW D, IsFiniteSet(D), NEW f \in [D -> Frac]
  PROVE  SumOfFractions(f) \in Frac
<1>1. PICK iter : Unfolds(iter, D, f)
  BY SumUnfolds
<1>. DEFINE T == { n \in Nat : \A s \in SUBSET D : Cardinality(s) = n => iter[s] \in Frac }
<1>2. 0 \in T
  <2>1. \A s \in SUBSET D : Cardinality(s) = 0 => s = {}
    BY FS_Subset, FS_EmptySet
  <2>2. iter[{}] = Whole(0)
    BY <1>1 DEF Unfolds
  <2>. QED  BY <2>1, <2>2, WholeType
<1>3. ASSUME NEW n \in Nat, n \in T PROVE n + 1 \in T
  <2>. SUFFICES ASSUME NEW s \in SUBSET D, Cardinality(s) = n + 1 PROVE iter[s] \in Frac
    OBVIOUS
  <2>1. s # {} /\ IsFiniteSet(s)
    BY FS_EmptySet, FS_Subset
  <2>2. PICK x : x = CHOOSE y \in s : TRUE
    OBVIOUS
  <2>3. x \in s
    BY <2>1, <2>2
  <2>4. Cardinality(s \ {x}) = n
    <3>1. Cardinality(s \ {x}) = Cardinality(s) - 1
      BY <2>1, <2>3, FS_RemoveElement
    <3>. QED  BY <3>1
  <2>5. iter[s] = Plus(f[x], iter[s \ {x}])
    BY <1>1, <2>1, <2>2 DEF Unfolds
  <2>. QED  BY <1>3, <2>3, <2>4, <2>5, PlusType
<1>4. Cardinality(D) \in T
  <2>. HIDE DEF T
  <2>. QED  BY <1>2, <1>3, FS_CardinalityType, Reaches
<1>. QED
  BY <1>1, <1>4 DEF Unfolds

LEMMA NoughtPlusNought == Plus(Whole(0), Whole(0)) = Whole(0)
<1>1. Fraction(0, 1) = <<0, 1>>
  <2>. DEFINE Largest(d) == /\ 0 % d = 0 /\ 1 % d = 0
                            /\ \A e \in (d + 1)..1 : 0 % e # 0 \/ 1 % e # 0
  <2>1. (CHOOSE d \in 1..1 : Largest(d)) = 1
    <3>1. Largest(1) /\ 1 \in 1..1
      OBVIOUS
    <3>. HIDE DEF Largest
    <3>2. \E d \in 1..1 : Largest(d)
      BY <3>1
    <3>3. (CHOOSE d \in 1..1 : Largest(d)) \in 1..1
      BY <3>2
    <3>. QED  BY <3>3
  <2>. QED  BY <2>1 DEF Fraction
<1>. QED
  BY <1>1 DEF Plus, Whole

\* So is the sum of nothing but noughts nought.
LEMMA SumOfNoughts ==
  ASSUME NEW D, IsFiniteSet(D), NEW f, DOMAIN f = D, \A x \in D : f[x] = Whole(0)
  PROVE  SumOfFractions(f) = Whole(0)
<1>1. PICK iter : Unfolds(iter, D, f)
  BY SumUnfolds
<1>. DEFINE T == { n \in Nat : \A s \in SUBSET D : Cardinality(s) = n => iter[s] = Whole(0) }
<1>2. 0 \in T
  <2>1. \A s \in SUBSET D : Cardinality(s) = 0 => s = {}
    BY FS_Subset, FS_EmptySet
  <2>2. iter[{}] = Whole(0)
    BY <1>1 DEF Unfolds
  <2>. QED  BY <2>1, <2>2
<1>3. ASSUME NEW n \in Nat, n \in T PROVE n + 1 \in T
  <2>. SUFFICES ASSUME NEW s \in SUBSET D, Cardinality(s) = n + 1 PROVE iter[s] = Whole(0)
    OBVIOUS
  <2>1. s # {} /\ IsFiniteSet(s)
    BY FS_EmptySet, FS_Subset
  <2>2. PICK x : x = CHOOSE y \in s : TRUE
    OBVIOUS
  <2>3. x \in s
    BY <2>1, <2>2
  <2>4. Cardinality(s \ {x}) = n
    <3>1. Cardinality(s \ {x}) = Cardinality(s) - 1
      BY <2>1, <2>3, FS_RemoveElement
    <3>. QED  BY <3>1
  <2>5. iter[s] = Plus(f[x], iter[s \ {x}])
    BY <1>1, <2>1, <2>2 DEF Unfolds
  <2>. QED  BY <1>3, <2>3, <2>4, <2>5, NoughtPlusNought
<1>4. Cardinality(D) \in T
  <2>. HIDE DEF T
  <2>. QED  BY <1>2, <1>3, FS_CardinalityType, Reaches
<1>. QED
  BY <1>1, <1>4 DEF Unfolds
-----------------------------------------------------------------------------
(* The rate window                                                         *)

Ascending(s) == \A j, k \in DOMAIN s : j < k => s[j] <= s[k]

\* The window is the list of the last orders sent, oldest first, at least as far
\* back as a minute: an order sent within the last minute has its time in the
\* window, with as many times after it as orders were sent after it, or more.
WindowCovers ==
  \A k \in DOMAIN sent_at :
    sent_at[k] > now - Minute =>
      \E j \in DOMAIN window :
        /\ window[j] = sent_at[k]
        /\ Len(window) - j >= Len(sent_at) - k

WindowTyped ==
  /\ now \in Nat
  /\ window \in Seq(Nat) /\ Ascending(window)
  /\ sent_at \in Seq(Nat) /\ Ascending(sent_at)
  /\ \A k \in DOMAIN window : window[k] <= now
  /\ \A k \in DOMAIN sent_at : sent_at[k] <= now
  /\ Len(window) <= MaxOrdersPerMinute

WindowInv == WindowTyped /\ WindowCovers /\ RateCapped

\* The entries of an ascending list that exceed a number are its last ones.
LEMMA LastExceed ==
  ASSUME NEW s \in Seq(Nat), Ascending(s), NEW c \in Int
  PROVE  \E n \in 0..Len(s) : \A k \in DOMAIN s : s[k] > c <=> k > n
<1>. DEFINE T == { k \in 1..(Len(s) + 1) : k \in DOMAIN s => s[k] > c }
<1>1. Len(s) \in Nat /\ DOMAIN s = 1..Len(s) /\ \A k \in DOMAIN s : s[k] \in Nat
  OBVIOUS
<1>2. T \subseteq Nat /\ Len(s) + 1 \in T
  BY <1>1
<1>3. \E f \in T : \A k \in T : f <= k
  <2>. HIDE DEF T
  <2>. QED  BY <1>2, LeastNumber
<1>4. PICK f \in 1..(Len(s) + 1) : /\ f \in DOMAIN s => s[f] > c
                                  /\ \A k \in T : f <= k
  BY <1>3
<1>5. \A k \in DOMAIN s : k < f => ~(s[k] > c)
  BY <1>1, <1>4
<1>6. \A k \in DOMAIN s : k >= f => s[k] > c
  <2>. TAKE k \in DOMAIN s
  <2>. HAVE k >= f
  <2>1. f \in DOMAIN s
    BY <1>1, <1>4
  <2>2. s[f] <= s[k]
    <3>1. CASE f = k
      BY <1>1, <3>1
    <3>2. CASE f < k
      BY <2>1, <3>2 DEF Ascending
    <3>. QED  BY <1>1, <2>1, <3>1, <3>2
  <2>. QED  BY <1>1, <1>4, <2>1, <2>2
<1>. HIDE DEF T
<1>7. f - 1 \in 0..Len(s) /\ \A k \in DOMAIN s : k > f - 1 <=> k >= f
  BY <1>1, <1>4
<1>. QED
  <2>1. \A k \in DOMAIN s : k < f \/ k >= f
    BY <1>1, <1>4
  <2>2. \A k \in DOMAIN s : s[k] > c <=> k > f - 1
    BY <2>1, <1>1, <1>4, <1>5, <1>6, <1>7
  <2>. QED  BY <2>2, <1>7

\* The last part of a list is its entries, moved to the front.
LEMMA LastPart ==
  ASSUME NEW s \in Seq(Nat), NEW m \in Nat \ {0}, NEW l \in Nat, l = Len(s), m <= l + 1
  PROVE  /\ SubSeq(s, m, l) \in Seq(Nat)
         /\ Len(SubSeq(s, m, l)) = l - m + 1
         /\ \A k \in 1..(l - m + 1) : SubSeq(s, m, l)[k] = s[m + k - 1]
<1>. DEFINE part == [k \in 1..(l - m + 1) |-> s[m + k - 1]]
<1>1. SubSeq(s, m, l) = part
  OBVIOUS
<1>2. part \in Seq(Nat)
  OBVIOUS
<1>3. Len(part) = l - m + 1
  OBVIOUS
<1>. QED
  BY <1>1, <1>2, <1>3

\* Pruning drops the entries that are a minute old, and these come first.
LEMMA RecentIs ==
  ASSUME WindowTyped
  PROVE  \E n \in 0..Len(window) :
           /\ \A k \in DOMAIN window : window[k] > now - Minute <=> k > n
           /\ Recent \in Seq(Nat)
           /\ Len(Recent) = Len(window) - n
           /\ \A k \in 1..(Len(window) - n) : Recent[k] = window[k + n]
<1>1. /\ Len(window) \in Nat /\ DOMAIN window = 1..Len(window)
      /\ \A k \in DOMAIN window : window[k] \in Nat
      /\ now - Minute \in Int
  BY LimitsAssumption DEF WindowTyped
<1>2. PICK n \in 0..Len(window) :
        \A k \in DOMAIN window : window[k] > now - Minute <=> k > n
  BY <1>1, LastExceed DEF WindowTyped
<1>3. Counting(now - Minute) = (n + 1)..Len(window)
  BY <1>1, <1>2 DEF Counting
<1>4. Cardinality(Counting(now - Minute)) = Len(window) - n
  <2>1. n + 1 \in Int /\ Len(window) \in Int
    BY <1>1, <1>2
  <2>2. Cardinality((n + 1)..Len(window)) =
          IF n + 1 > Len(window) THEN 0 ELSE Len(window) - (n + 1) + 1
    BY <2>1, FS_Interval
  <2>. QED  BY <2>2, <1>1, <1>2, <1>3
<1>5. Recent = SubSeq(window, n + 1, Len(window))
  <2>1. Len(window) - (Len(window) - n) + 1 = n + 1
    BY <1>1, <1>2
  <2>. QED  BY <1>4, <2>1 DEF Recent, Latest
<1>6. n + 1 \in Nat \ {0} /\ n + 1 <= Len(window) + 1 /\ window \in Seq(Nat)
  BY <1>1, <1>2 DEF WindowTyped
<1>7. /\ Recent \in Seq(Nat)
      /\ Len(Recent) = Len(window) - (n + 1) + 1
      /\ \A k \in 1..(Len(window) - (n + 1) + 1) : Recent[k] = window[(n + 1) + k - 1]
  BY <1>1, <1>5, <1>6, LastPart
<1>8. Len(window) - (n + 1) + 1 = Len(window) - n
  BY <1>1, <1>2
<1>9. ASSUME NEW k \in 1..(Len(window) - n) PROVE Recent[k] = window[k + n]
  <2>1. (n + 1) + k - 1 = k + n
    BY <1>1, <1>2
  <2>. QED  BY <2>1, <1>7, <1>8
<1>. QED
  BY <1>2, <1>7, <1>8, <1>9

\* Pruned, the window is still in order and still covers the last minute.
LEMMA RecentCovers ==
  ASSUME WindowTyped, WindowCovers
  PROVE  /\ Recent \in Seq(Nat) /\ Ascending(Recent)
         /\ \A k \in DOMAIN Recent : Recent[k] <= now
         /\ Len(Recent) <= Len(window)
         /\ \A k \in DOMAIN sent_at :
              sent_at[k] > now - Minute =>
                \E j \in DOMAIN Recent :
                  /\ Recent[j] = sent_at[k]
                  /\ Len(Recent) - j >= Len(sent_at) - k
<1>1. PICK n \in 0..Len(window) :
        /\ \A k \in DOMAIN window : window[k] > now - Minute <=> k > n
        /\ Recent \in Seq(Nat)
        /\ Len(Recent) = Len(window) - n
        /\ \A k \in 1..(Len(window) - n) : Recent[k] = window[k + n]
  BY RecentIs
<1>2. /\ Len(window) \in Nat /\ DOMAIN window = 1..Len(window)
      /\ DOMAIN Recent = 1..(Len(window) - n)
      /\ n \in Nat /\ n <= Len(window)
  BY <1>1 DEF WindowTyped
<1>3. ASSUME NEW k \in DOMAIN Recent PROVE k + n \in DOMAIN window
  BY <1>2
<1>4. Ascending(Recent)
  <2>. SUFFICES ASSUME NEW j \in DOMAIN Recent, NEW k \in DOMAIN Recent, j < k
                PROVE  Recent[j] <= Recent[k]
    BY DEF Ascending
  <2>1. j + n < k + n
    BY <1>2
  <2>2. window[j + n] <= window[k + n]
    BY <2>1, <1>3 DEF WindowTyped, Ascending
  <2>3. Recent[j] = window[j + n] /\ Recent[k] = window[k + n]
    BY <1>1, <1>2
  <2>. QED  BY <2>2, <2>3
<1>5. \A k \in DOMAIN Recent : Recent[k] <= now
  <2>. TAKE k \in DOMAIN Recent
  <2>1. Recent[k] = window[k + n]
    BY <1>1, <1>2
  <2>2. window[k + n] <= now
    BY <1>3 DEF WindowTyped
  <2>. QED  BY <2>1, <2>2
<1>6. ASSUME NEW k \in DOMAIN sent_at, sent_at[k] > now - Minute
      PROVE  \E j \in DOMAIN Recent : /\ Recent[j] = sent_at[k]
                                      /\ Len(Recent) - j >= Len(sent_at) - k
  <2>1. PICK j \in DOMAIN window : /\ window[j] = sent_at[k]
                                   /\ Len(window) - j >= Len(sent_at) - k
    BY <1>6 DEF WindowCovers
  <2>2. j > n
    BY <1>1, <1>6, <2>1
  <2>3. j - n \in 1..(Len(window) - n) /\ (j - n) + n = j
    BY <1>2, <2>1, <2>2
  <2>4. Recent[j - n] = sent_at[k]
    BY <1>1, <2>1, <2>3
  <2>5. Len(Recent) - (j - n) = Len(window) - j
    BY <1>1, <1>2, <2>3
  <2>. QED  BY <1>2, <2>1, <2>3, <2>4, <2>5
<1>. QED
  BY <1>1, <1>2, <1>4, <1>5, <1>6

\* With fewer than the limit of entries left, none of the last so many orders was sent
\* within the minute.
LEMMA LimitMeansOld ==
  ASSUME WindowTyped, WindowCovers, ~RateExceeded,
         NEW k \in DOMAIN sent_at, k + MaxOrdersPerMinute = Len(sent_at) + 1
  PROVE  now - sent_at[k] >= Minute
<1>1. SUFFICES ASSUME sent_at[k] > now - Minute PROVE FALSE
  <2>1. sent_at[k] \in Nat /\ now \in Nat /\ Minute \in Nat
    BY LimitsAssumption DEF WindowTyped
  <2>. QED  BY <2>1, <1>1
<1>2. PICK j \in DOMAIN Recent : Len(Recent) - j >= Len(sent_at) - k
  BY <1>1, RecentCovers
<1>3. Len(Recent) < MaxOrdersPerMinute
  <2>1. Recent \in Seq(Nat)
    BY RecentCovers
  <2>. QED  BY <2>1, LimitsAssumption DEF RateExceeded
<1>4. Recent \in Seq(Nat) /\ sent_at \in Seq(Nat)
  BY RecentCovers DEF WindowTyped
<1>5. /\ j >= 1 /\ j \in Nat /\ Len(Recent) \in Nat /\ Len(sent_at) \in Nat /\ k \in Nat
      /\ MaxOrdersPerMinute \in Nat
  BY <1>4, LimitsAssumption
<1>. QED
  BY <1>2, <1>3, <1>5

\* The window is pruned, and nothing sent.
LEMMA WindowPruned ==
  ASSUME WindowInv, window' = Recent, UNCHANGED <<sent_at, now>>
  PROVE  WindowInv'
<1>1. WindowTyped' /\ WindowCovers'
  <2>1. Len(Recent) <= MaxOrdersPerMinute
    BY RecentCovers, LimitsAssumption DEF WindowInv, WindowTyped
  <2>. QED  BY <2>1, RecentCovers DEF WindowInv, WindowTyped, WindowCovers, Ascending
<1>2. RateCapped'
  BY DEF WindowInv, RateCapped
<1>. QED
  BY <1>1, <1>2 DEF WindowInv

\* A list in order stays in order with a last entry that is no less than any.
LEMMA AscendingAppend ==
  ASSUME NEW s \in Seq(Nat), Ascending(s), NEW e \in Nat, \A k \in DOMAIN s : s[k] <= e
  PROVE  /\ Append(s, e) \in Seq(Nat) /\ Ascending(Append(s, e))
         /\ \A k \in DOMAIN Append(s, e) : Append(s, e)[k] <= e
         /\ Len(Append(s, e)) = Len(s) + 1 /\ DOMAIN Append(s, e) = 1..(Len(s) + 1)
         /\ \A k \in DOMAIN s : Append(s, e)[k] = s[k]
         /\ Append(s, e)[Len(s) + 1] = e
<1>1. Append(s, e) \in Seq(Nat) /\ Len(Append(s, e)) = Len(s) + 1
  OBVIOUS
<1>2. /\ DOMAIN Append(s, e) = 1..(Len(s) + 1)
      /\ \A k \in DOMAIN s : Append(s, e)[k] = s[k]
      /\ Append(s, e)[Len(s) + 1] = e
  OBVIOUS
<1>3. \A k \in DOMAIN Append(s, e) : k \in DOMAIN s \/ k = Len(s) + 1
  BY <1>2
<1>4. \A k \in DOMAIN Append(s, e) : Append(s, e)[k] <= e
  BY <1>2, <1>3
<1>5. Ascending(Append(s, e))
  <2>. SUFFICES ASSUME NEW j \in DOMAIN Append(s, e), NEW k \in DOMAIN Append(s, e), j < k
                PROVE  Append(s, e)[j] <= Append(s, e)[k]
    BY DEF Ascending
  <2>1. CASE k = Len(s) + 1
    BY <1>2, <1>4, <2>1
  <2>2. CASE k \in DOMAIN s
    <3>1. j \in DOMAIN s
      BY <1>2, <2>2
    <3>. QED  BY <1>2, <2>2, <3>1 DEF Ascending
  <2>. QED  BY <1>3, <2>1, <2>2
<1>. QED
  BY <1>1, <1>2, <1>4, <1>5

\* The order takes its place in the window, and the kill switch refuses it.
LEMMA WindowStamped ==
  ASSUME WindowInv, ~RateExceeded, window' = Append(Recent, now), UNCHANGED <<sent_at, now>>
  PROVE  WindowInv'
<1>1. /\ Recent \in Seq(Nat) /\ Ascending(Recent) /\ now \in Nat
      /\ \A k \in DOMAIN Recent : Recent[k] <= now
  BY RecentCovers DEF WindowInv, WindowTyped
<1>2. /\ window' \in Seq(Nat) /\ Ascending(window')
      /\ \A k \in DOMAIN window' : window'[k] <= now
      /\ Len(window') = Len(Recent) + 1 /\ DOMAIN window' = 1..(Len(Recent) + 1)
      /\ \A k \in DOMAIN Recent : window'[k] = Recent[k]
  BY <1>1, AscendingAppend
<1>3. Len(window') <= MaxOrdersPerMinute
  BY <1>1, <1>2, LimitsAssumption DEF RateExceeded
<1>4. WindowTyped'
  BY <1>2, <1>3 DEF WindowInv, WindowTyped, Ascending
<1>5. WindowCovers'
  <2>. SUFFICES ASSUME NEW k \in DOMAIN sent_at, sent_at[k] > now - Minute
                PROVE  \E j \in DOMAIN window' : /\ window'[j] = sent_at[k]
                                                 /\ Len(window') - j >= Len(sent_at) - k
    BY DEF WindowCovers
  <2>1. PICK j \in DOMAIN Recent : /\ Recent[j] = sent_at[k]
                                   /\ Len(Recent) - j >= Len(sent_at) - k
    BY RecentCovers DEF WindowInv
  <2>2. j \in DOMAIN window' /\ Len(window') - j >= Len(sent_at) - k
    <3>1. Len(sent_at) \in Nat /\ k \in Nat
      BY DEF WindowInv, WindowTyped
    <3>. QED  BY <1>1, <1>2, <2>1, <3>1
  <2>. QED  BY <1>2, <2>1, <2>2
<1>6. RateCapped'
  BY DEF WindowInv, RateCapped
<1>. QED
  BY <1>4, <1>5, <1>6 DEF WindowInv

\* The order takes its place in the window and goes to the broker.
LEMMA WindowSent ==
  ASSUME WindowInv, ~RateExceeded, window' = Append(Recent, now),
         sent_at' = Append(sent_at, now), now' = now
  PROVE  WindowInv'
<1>1. /\ Recent \in Seq(Nat) /\ Ascending(Recent) /\ now \in Nat
      /\ \A k \in DOMAIN Recent : Recent[k] <= now
      /\ sent_at \in Seq(Nat) /\ Ascending(sent_at)
      /\ \A k \in DOMAIN sent_at : sent_at[k] <= now
  BY RecentCovers DEF WindowInv, WindowTyped
<1>2. /\ window' \in Seq(Nat) /\ Ascending(window')
      /\ \A k \in DOMAIN window' : window'[k] <= now
      /\ Len(window') = Len(Recent) + 1 /\ DOMAIN window' = 1..(Len(Recent) + 1)
      /\ \A k \in DOMAIN Recent : window'[k] = Recent[k]
      /\ window'[Len(Recent) + 1] = now
  BY <1>1, AscendingAppend
<1>3. /\ sent_at' \in Seq(Nat) /\ Ascending(sent_at')
      /\ \A k \in DOMAIN sent_at' : sent_at'[k] <= now
      /\ Len(sent_at') = Len(sent_at) + 1 /\ DOMAIN sent_at' = 1..(Len(sent_at) + 1)
      /\ \A k \in DOMAIN sent_at : sent_at'[k] = sent_at[k]
      /\ sent_at'[Len(sent_at) + 1] = now
  BY <1>1, AscendingAppend
<1>4. Len(window') <= MaxOrdersPerMinute
  BY <1>1, <1>2, LimitsAssumption DEF RateExceeded
<1>5. WindowTyped'
  BY <1>1, <1>2, <1>3, <1>4 DEF WindowTyped, Ascending
<1>6. WindowCovers'
  <2>. SUFFICES ASSUME NEW k \in DOMAIN sent_at', sent_at'[k] > now - Minute
                PROVE  \E j \in DOMAIN window' : /\ window'[j] = sent_at'[k]
                                                 /\ Len(window') - j >= Len(sent_at') - k
    BY DEF WindowCovers
  <2>1. CASE k = Len(sent_at) + 1
    <3>1. /\ Len(Recent) + 1 \in DOMAIN window'
          /\ Len(window') - (Len(Recent) + 1) >= Len(sent_at') - k
      BY <1>1, <1>2, <1>3, <2>1
    <3>. QED  BY <1>2, <1>3, <2>1, <3>1
  <2>2. CASE k \in DOMAIN sent_at
    <3>1. PICK j \in DOMAIN Recent : /\ Recent[j] = sent_at[k]
                                     /\ Len(Recent) - j >= Len(sent_at) - k
      BY <1>3, <2>2, RecentCovers DEF WindowInv
    <3>2. j \in DOMAIN window' /\ Len(window') - j >= Len(sent_at') - k
      <4>1. Len(sent_at) \in Nat /\ k \in Nat /\ Len(Recent) \in Nat /\ j \in 1..Len(Recent)
        BY <1>1, <2>2
      <4>2. j \in DOMAIN window'
        BY <1>2, <4>1
      <4>3. Len(window') - j >= Len(sent_at') - k
        <5>1. Len(window') = Len(Recent) + 1 /\ Len(sent_at') = Len(sent_at) + 1
          BY <1>2, <1>3
        <5>. QED  BY <3>1, <4>1, <5>1
      <4>. QED  BY <4>2, <4>3
    <3>. QED  BY <1>2, <1>3, <2>2, <3>1, <3>2
  <2>. QED  BY <1>1, <1>3, <2>1, <2>2
<1>7. RateCapped'
  <2>. SUFFICES ASSUME NEW k \in DOMAIN sent_at', k + MaxOrdersPerMinute \in DOMAIN sent_at'
                PROVE  sent_at'[k + MaxOrdersPerMinute] - sent_at'[k] >= Minute
    BY DEF RateCapped
  <2>0. MaxOrdersPerMinute \in Nat /\ MaxOrdersPerMinute > 0
    BY <1>1, LimitsAssumption DEF RateExceeded
  <2>1. k \in DOMAIN sent_at
    BY <1>1, <1>3, <2>0
  <2>2. CASE k + MaxOrdersPerMinute \in DOMAIN sent_at
    BY <1>3, <2>1, <2>2 DEF WindowInv, RateCapped
  <2>3. CASE k + MaxOrdersPerMinute = Len(sent_at) + 1
    <3>1. now - sent_at[k] >= Minute
      BY <2>1, <2>3, LimitMeansOld DEF WindowInv
    <3>. QED  BY <1>3, <2>1, <2>3, <3>1
  <2>. QED  BY <1>1, <1>3, <2>2, <2>3
<1>. QED
  BY <1>5, <1>6, <1>7 DEF WindowInv

\* Time passes.
LEMMA WindowElapse ==
  ASSUME WindowInv, NEW t \in Ticks, Elapse(t), sent_at' = sent_at
  PROVE  WindowInv'
<1>1. now \in Nat /\ t \in Nat /\ now' = now + t /\ Minute \in Nat
  BY DeskAssumption, LimitsAssumption DEF WindowInv, WindowTyped, Elapse
<1>2. now' \in Nat /\ now <= now'
  BY <1>1
<1>3. window' = window
  BY DEF Elapse
<1>4. WindowTyped'
  <2>1. \A k \in DOMAIN window : window[k] \in Nat /\ window[k] <= now'
    BY <1>1, <1>2 DEF WindowInv, WindowTyped
  <2>2. \A k \in DOMAIN sent_at : sent_at[k] \in Nat /\ sent_at[k] <= now'
    BY <1>1, <1>2 DEF WindowInv, WindowTyped
  <2>. QED  BY <1>2, <1>3, <2>1, <2>2 DEF WindowInv, WindowTyped, Ascending
<1>5. WindowCovers'
  <2>1. \A k \in DOMAIN sent_at : sent_at[k] > now' - Minute => sent_at[k] > now - Minute
    BY <1>1 DEF WindowInv, WindowTyped
  <2>. QED  BY <1>3, <2>1 DEF WindowInv, WindowCovers
<1>6. RateCapped'
  BY DEF WindowInv, RateCapped
<1>. QED
  BY <1>4, <1>5, <1>6 DEF WindowInv
-----------------------------------------------------------------------------
(* The desk                                                                *)

\* An order as the broker and the manager leave it: both add an execution to the
\* filled quantity of the order they share, so that it is only known to be an integer.
Ticket ==
  [instrument : Instruments, side : Sides, type : OrderTypes, limit_price : Nat,
   qty : Nat \ {0}, mode : Modes, status : OrderStatuses, filled_qty : Int, cost : Int]

DeskTyped ==
  /\ orders \in Seq(Ticket)
  /\ registry = DOMAIN orders
  /\ \A o \in DOMAIN pending : o \in DOMAIN orders /\ orders[o].status # "rejected"
  /\ fills \in Seq(Fill)
  /\ streamed \in 0..Len(fills)
  /\ crowded \in BOOLEAN
  /\ positions \in Books /\ oms_positions \in Books

\* The day's profit is the sum over the manager's positions.
DailyIsSum ==
  daily_realised_pnl = SumOfFractions([i \in Instruments |-> oms_positions[i].realised_pnl])

\* h is how the books went since the last execution delivered: it leads from the manager's
\* positions to the broker's, one execution on its way after the other.
InStep(h) ==
  /\ \A k \in streamed..Len(fills) : h[k] \in Books
  /\ h[streamed] = oms_positions /\ h[Len(fills)] = positions
  /\ \A k \in (streamed + 1)..Len(fills) : h[k] = Booked(h[k - 1], fills[k])

\* How far `book` is from the position `base` in the direction of order o.
Done(o, base, book) ==
  IF orders[o].side = "buy" THEN book[orders[o].instrument].qty - base
                            ELSE base - book[orders[o].instrument].qty

\* Order o was checked at the position `base`, and alone it moves the books: its filled
\* quantity counts what the broker executed and once more what was delivered.
Alone(h, o, base) ==
  /\ base \in Int /\ Magnitude(base) <= MaxQtyPerSymbol
  /\ Magnitude(base + SignedQty(orders[o])) <= MaxQtyPerSymbol
  /\ \A k \in streamed..Len(fills) :
       0 <= Done(o, base, h[k]) /\ Done(o, base, h[k]) <= Done(o, base, positions)
  /\ Done(o, base, positions) <= orders[o].qty
  /\ orders[o].filled_qty = Done(o, base, positions) + Done(o, base, oms_positions)
  /\ \A k \in (streamed + 1)..Len(fills) :
       /\ fills[k].order_id = o /\ fills[k].side = orders[o].side
       /\ fills[k].instrument = orders[o].instrument

LimitKept(h) ==
  (MaxQtyPerSymbol # NoLimit /\ ~crowded) =>
    /\ \A i \in Instruments : Magnitude(positions[i].qty) <= MaxQtyPerSymbol
    /\ \A o, p \in DOMAIN pending : o = p
    /\ \A o \in DOMAIN pending : \E base : Alone(h, o, base)

BooksInv == \E h : InStep(h) /\ LimitKept(h)

OMSInv == WindowInv /\ DeskTyped /\ DailyIsSum /\ BooksInv

-----------------------------------------------------------------------------
(* The operations on one order                                             *)

LEMMA NewTicket ==
  ASSUME NEW r \in Request(Instruments, Modes)
  PROVE  LET order == NewOrder(r)
         IN  /\ order \in Ticket /\ order.filled_qty = 0
             /\ [order EXCEPT !.status = "sent"] \in Ticket
             /\ [order EXCEPT !.status = "rejected"] \in Ticket
             /\ [order EXCEPT !.status = "sent"].filled_qty = 0
             /\ [order EXCEPT !.status = "sent"].status = "sent"
             /\ [order EXCEPT !.status = "sent"].side = order.side
             /\ [order EXCEPT !.status = "sent"].qty = order.qty
             /\ [order EXCEPT !.status = "sent"].instrument = order.instrument
BY DEF Request, NewOrder, Ticket, OrderStatuses

LEMMA ExecutedTicket ==
  ASSUME NEW order \in Ticket, NEW qty \in Int, NEW price \in Int
  PROVE  LET after == Executed(order, qty, price)
         IN  /\ after \in Ticket
             /\ after.filled_qty = order.filled_qty + qty
             /\ after.status = IF order.qty - (order.filled_qty + qty) = 0
                                 THEN "filled" ELSE "partially_filled"
             /\ after.qty = order.qty /\ after.side = order.side
             /\ after.instrument = order.instrument
<1>1. PICK filled \in Int : filled = order.filled_qty + qty
  BY DEF Ticket
<1>2. PICK cost \in Int : cost = order.cost + price * qty
  <2>1. price * qty \in Int
    OBVIOUS
  <2>. QED  BY <2>1 DEF Ticket
<1>3. PICK status \in {"filled", "partially_filled"} :
        status = IF order.qty - filled = 0 THEN "filled" ELSE "partially_filled"
  OBVIOUS
<1>4. Executed(order, qty, price) =
        [order EXCEPT !.filled_qty = filled, !.cost = cost, !.status = status]
  BY <1>1, <1>2, <1>3 DEF Executed
<1>5. status \in OrderStatuses
  BY <1>3 DEF OrderStatuses
<1>6. Executed(order, qty, price) \in Ticket
  BY <1>4, <1>5 DEF Ticket
<1>7. /\ Executed(order, qty, price).filled_qty = filled
      /\ Executed(order, qty, price).status = status
      /\ Executed(order, qty, price).qty = order.qty
      /\ Executed(order, qty, price).side = order.side
      /\ Executed(order, qty, price).instrument = order.instrument
  BY <1>4 DEF Ticket
<1>. QED
  BY <1>1, <1>3, <1>6, <1>7

LEMMA FillQtyType ==
  ASSUME NEW order \in Ticket
  PROVE  /\ FillQty(order) \in Int
         /\ FillQty(order) <= order.qty - order.filled_qty
         /\ \/ FillQty(order) = order.qty - order.filled_qty
            \/ FillQty(order) > 0
BY ConfigAssumption DEF Ticket, FillQty, RemainingQty, Least, NoCap

LEMMA FillPriceInt ==
  ASSUME NEW order \in Ticket, NEW price \in Prices
  PROVE  FillPrice(order, price) \in Int
<1>1. price * (BpsUnit + SlippageBps) \in Int
  BY ConfigAssumption
<1>2. price * (BpsUnit - SlippageBps) \in Int
  BY ConfigAssumption
<1>3. order.limit_price * BpsUnit \in Int
  BY ConfigAssumption DEF Ticket
<1>. QED
  BY <1>1, <1>2, <1>3 DEF FillPrice, Slipped

LEMMA FeesInt ==
  ASSUME NEW qty \in Int
  PROVE  Fees(qty) \in Int
<1>1. FeePerShare * qty \in Int
  BY ConfigAssumption
<1>. QED
  BY <1>1, ConfigAssumption DEF Fees, Greatest

LEMMA FillOfType ==
  ASSUME DeskTyped, NEW o \in DOMAIN orders, NEW price \in Prices
  PROVE  /\ FillOf(o, price) \in Fill
         /\ FillOf(o, price).order_id = o
         /\ FillOf(o, price).instrument = orders[o].instrument
         /\ FillOf(o, price).side = orders[o].side
         /\ FillOf(o, price).qty = FillQty(orders[o])
<1>1. orders[o] \in Ticket /\ o \in Nat
  BY DEF DeskTyped
<1>2. /\ FillQty(orders[o]) \in Int /\ FillPrice(orders[o], price) \in Int
      /\ Fees(FillQty(orders[o])) \in Int
  BY <1>1, FillQtyType, FillPriceInt, FeesInt
<1>3. orders[o].instrument \in Instruments /\ orders[o].side \in Sides
  BY <1>1 DEF Ticket
<1>. QED
  BY <1>1, <1>2, <1>3 DEF FillOf, Fill

-----------------------------------------------------------------------------
(* The initial state                                                       *)

LEMMA InvInit == OMSInit => OMSInv
<1>. SUFFICES ASSUME OMSInit PROVE OMSInv
  OBVIOUS
<1>. USE DEF OMSInit, SimInit, RiskInit
<1>1. WindowInv
  BY LimitsAssumption
     DEF WindowInv, WindowTyped, WindowCovers, RateCapped, Ascending
<1>2. [i \in Instruments |-> Flat] \in Books
  BY FlatType DEF Books
<1>3. DeskTyped
  <2>1. orders \in Seq(Ticket) /\ fills \in Seq(Fill)
    OBVIOUS
  <2>2. DOMAIN orders = {} /\ DOMAIN pending = {} /\ streamed \in 0..Len(fills)
    OBVIOUS
  <2>. QED  BY <1>2, <2>1, <2>2 DEF DeskTyped
<1>4. DailyIsSum
  <2>1. \A i \in Instruments : oms_positions[i].realised_pnl = Whole(0)
    BY DEF Flat
  <2>2. SumOfFractions([i \in Instruments |-> oms_positions[i].realised_pnl]) = Whole(0)
    BY <2>1, ConfigAssumption, SumOfNoughts
  <2>. QED  BY <2>2 DEF DailyIsSum
<1>5. BooksInv
  <2>. DEFINE h == [k \in {0} |-> positions]
  <2>1. InStep(h)
    BY <1>2 DEF InStep
  <2>2. LimitKept(h)
    <3>1. \A i \in Instruments : positions[i].qty = 0
      BY DEF Flat
    <3>2. MaxQtyPerSymbol # NoLimit => MaxQtyPerSymbol \in Nat
      BY LimitsAssumption
    <3>3. Magnitude(0) = 0
      BY DEF Magnitude
    <3>. QED  BY <3>1, <3>2, <3>3 DEF LimitKept
  <2>. QED  BY <2>1, <2>2 DEF BooksInv
<1>. QED
  BY <1>1, <1>3, <1>4, <1>5 DEF OMSInv

-----------------------------------------------------------------------------
(* Submitting                                                              *)

\* Every way through the checks leaves the rate window in order.
LEMMA WindowSubmit ==
  ASSUME WindowInv, NEW r, Submit(r)
  PROVE  WindowInv'
<1>. DEFINE order == NewOrder(r)
<1>1. /\ window' = WindowAfter(order, SessionMode, oms_positions)
      /\ IF Passes(order, SessionMode, oms_positions) THEN Send(order) ELSE Refuse(order)
      /\ now' = now
  BY DEF Submit
<1>. HIDE DEF order
<1>2. CASE RefusedAtOnce(order, SessionMode, oms_positions)
  <2>1. window' = window
    BY <1>1, <1>2 DEF WindowAfter
  <2>2. sent_at' = sent_at
    BY <1>1, <1>2 DEF Passes, Refuse
  <2>. QED
    BY <1>1, <2>1, <2>2
       DEF WindowInv, WindowTyped, WindowCovers, RateCapped, Ascending
<1>3. CASE ~RefusedAtOnce(order, SessionMode, oms_positions) /\ RateExceeded
  <2>1. window' = Recent
    BY <1>1, <1>3 DEF WindowAfter
  <2>2. sent_at' = sent_at
    BY <1>1, <1>3 DEF Passes, Refuse
  <2>. QED  BY <1>1, <2>1, <2>2, WindowPruned
<1>4. CASE ~RefusedAtOnce(order, SessionMode, oms_positions) /\ ~RateExceeded
  <2>1. window' = Append(Recent, now)
    BY <1>1, <1>4 DEF WindowAfter
  <2>2. CASE Passes(order, SessionMode, oms_positions)
    <3>1. sent_at' = Append(sent_at, now)
      BY <1>1, <2>2 DEF Send
    <3>. QED  BY <1>1, <1>4, <2>1, <3>1, WindowSent
  <2>3. CASE ~Passes(order, SessionMode, oms_positions)
    <3>1. sent_at' = sent_at
      BY <1>1, <2>3 DEF Refuse
    <3>. QED  BY <1>1, <1>4, <2>1, <3>1, WindowStamped
  <2>. QED  BY <2>2, <2>3
<1>. QED
  BY <1>2, <1>3, <1>4

\* What is said of an order in flight depends on nothing but that order and the books.
LEMMA AloneStays ==
  ASSUME NEW h, NEW o, NEW base, Alone(h, o, base),
         orders'[o] = orders[o], UNCHANGED <<positions, oms_positions, fills, streamed>>
  PROVE  Alone(h, o, base)'
BY DEF Alone, Done

\* The list of orders with one more at the end.
LEMMA OrdersAppend ==
  ASSUME orders \in Seq(Ticket), NEW ticket \in Ticket, orders' = Append(orders, ticket)
  PROVE  /\ orders' \in Seq(Ticket)
         /\ DOMAIN orders' = DOMAIN orders \cup {Len(orders) + 1}
         /\ Len(orders) + 1 \notin DOMAIN orders
         /\ \A o \in DOMAIN orders : orders'[o] = orders[o]
         /\ orders'[Len(orders) + 1] = ticket
<1>1. Len(orders) \in Nat /\ DOMAIN orders = 1..Len(orders)
  OBVIOUS
<1>2. orders' \in Seq(Ticket) /\ DOMAIN orders' = 1..(Len(orders) + 1)
  BY <1>1
<1>3. (\A o \in DOMAIN orders : orders'[o] = orders[o]) /\ orders'[Len(orders) + 1] = ticket
  BY <1>1
<1>. QED
  BY <1>1, <1>2, <1>3

LEMMA InvRefuse ==
  ASSUME DeskTyped, BooksInv, NEW r \in Request(Instruments, Modes),
         Submit(r), ~Passes(NewOrder(r), SessionMode, oms_positions)
  PROVE  DeskTyped' /\ BooksInv'
<1>1. PICK ticket \in Ticket : ticket = [NewOrder(r) EXCEPT !.status = "rejected"]
  BY NewTicket
<1>2. /\ orders' = Append(orders, ticket)
      /\ registry' = registry \cup {Len(orders) + 1}
      /\ UNCHANGED <<pending, crowded, positions, fills, streamed, oms_positions>>
  BY <1>1 DEF Submit, Refuse
<1>3. /\ orders' \in Seq(Ticket)
      /\ DOMAIN orders' = DOMAIN orders \cup {Len(orders) + 1}
      /\ \A o \in DOMAIN orders : orders'[o] = orders[o]
  BY <1>2, OrdersAppend DEF DeskTyped
<1>4. DeskTyped'
  <2>1. \A o \in DOMAIN pending' : o \in DOMAIN orders' /\ orders'[o].status # "rejected"
    BY <1>2, <1>3 DEF DeskTyped
  <2>. QED  BY <1>2, <1>3, <2>1 DEF DeskTyped
<1>5. BooksInv'
  <2>1. PICK h : InStep(h) /\ LimitKept(h)
    BY DEF BooksInv
  <2>2. InStep(h)'
    BY <1>2, <2>1 DEF InStep
  <2>3. LimitKept(h)'
    <3>. SUFFICES ASSUME MaxQtyPerSymbol # NoLimit, ~crowded
                  PROVE  /\ \A i \in Instruments : Magnitude(positions[i].qty) <= MaxQtyPerSymbol
                         /\ \A o, p \in DOMAIN pending : o = p
                         /\ \A o \in DOMAIN pending : \E base : Alone(h, o, base)'
      BY <1>2 DEF LimitKept
    <3>1. ASSUME NEW o \in DOMAIN pending PROVE \E base : Alone(h, o, base)'
      <4>1. PICK base : Alone(h, o, base)
        BY <2>1 DEF LimitKept
      <4>2. orders'[o] = orders[o]
        BY <1>3 DEF DeskTyped
      <4>3. Alone(h, o, base)'
        BY <1>2, <4>1, <4>2, AloneStays
      <4>. QED  BY <4>3
    <3>. QED  BY <2>1, <3>1 DEF LimitKept
  <2>. QED  BY <2>2, <2>3 DEF BooksInv
<1>. QED
  BY <1>4, <1>5

\* The order is the only one in flight, and its limit was checked against the positions
\* the broker itself holds, since the manager's are the same.
LEMMA InvSend ==
  ASSUME DeskTyped, BooksInv, NEW r \in Request(Instruments, Modes),
         Submit(r), Passes(NewOrder(r), SessionMode, oms_positions)
  PROVE  DeskTyped' /\ BooksInv'
<1>a. PICK id : id = Len(orders) + 1
  OBVIOUS
<1>0. NewOrder(r) \in Ticket /\ NewOrder(r).filled_qty = 0
  BY NewTicket
<1>1. PICK ticket \in Ticket :
        /\ ticket = [NewOrder(r) EXCEPT !.status = "sent"]
        /\ ticket.status = "sent" /\ ticket.filled_qty = 0
        /\ ticket.side = NewOrder(r).side /\ ticket.qty = NewOrder(r).qty
        /\ ticket.instrument = NewOrder(r).instrument
  BY NewTicket
<1>2. /\ orders' = Append(orders, ticket)
      /\ registry' = registry \cup {id}
      /\ DOMAIN pending' = DOMAIN pending \cup {id}
      /\ crowded' = (crowded \/ pending # << >> \/ streamed < Len(fills))
      /\ UNCHANGED <<positions, fills, streamed, oms_positions>>
  BY <1>a, <1>1 DEF Submit, Send, Accept
<1>3. /\ orders' \in Seq(Ticket)
      /\ DOMAIN orders' = DOMAIN orders \cup {id}
      /\ id \notin DOMAIN orders
      /\ \A o \in DOMAIN orders : orders'[o] = orders[o]
      /\ orders'[id] = ticket
  BY <1>a, <1>2, OrdersAppend DEF DeskTyped
<1>4. DeskTyped'
  <2>1. \A o \in DOMAIN pending' : o \in DOMAIN orders' /\ orders'[o].status # "rejected"
    BY <1>1, <1>2, <1>3 DEF DeskTyped
  <2>2. crowded' \in BOOLEAN
    BY <1>2
  <2>. QED  BY <1>2, <1>3, <2>1, <2>2 DEF DeskTyped
<1>5. BooksInv'
  <2>1. PICK h : InStep(h) /\ LimitKept(h)
    BY DEF BooksInv
  <2>2. InStep(h)'
    BY <1>2, <2>1 DEF InStep
  <2>3. LimitKept(h)'
    <3>. SUFFICES ASSUME MaxQtyPerSymbol # NoLimit, ~crowded'
                  PROVE  /\ \A i \in Instruments : Magnitude(positions[i].qty) <= MaxQtyPerSymbol
                         /\ \A o, p \in DOMAIN pending' : o = p
                         /\ \A o \in DOMAIN pending' : \E base : Alone(h, o, base)'
      BY <1>2 DEF LimitKept
    <3>1. ~crowded /\ pending = << >> /\ ~(streamed < Len(fills))
      BY <1>2 DEF DeskTyped
    <3>2. DOMAIN pending = {} /\ streamed = Len(fills) /\ Len(fills) \in Nat
      BY <3>1 DEF DeskTyped
    <3>3. \A i \in Instruments : Magnitude(positions[i].qty) <= MaxQtyPerSymbol
      BY <2>1, <3>1 DEF LimitKept
    <3>4. DOMAIN pending' = {id}
      BY <1>2, <3>2
    <3>5. PICK i \in Instruments : i = ticket.instrument
      BY DEF Ticket
    <3>6. positions = oms_positions /\ positions[i].qty \in Int
      BY <2>1, <3>2 DEF InStep, DeskTyped, Books, Position
    <3>7. PICK base \in Int : base = positions[i].qty
      BY <3>6
    <3>8. Magnitude(base) <= MaxQtyPerSymbol
      BY <3>3, <3>7
    <3>9. Magnitude(base + SignedQty(ticket)) <= MaxQtyPerSymbol
      <4>1. ~BreachesSymbolLimit(NewOrder(r), oms_positions)
        BY DEF Passes, RefusedAtOnce
      <4>2. QtyAfter(NewOrder(r), oms_positions) = base + SignedQty(ticket)
        BY <1>1, <3>5, <3>6, <3>7 DEF QtyAfter, SignedQty
      <4>3. SignedQty(ticket) \in Int /\ MaxQtyPerSymbol \in Nat
        BY LimitsAssumption DEF SignedQty, Ticket
      <4>4. Magnitude(base + SignedQty(ticket)) \in Nat
        BY <4>3, MagnitudeType
      <4>. QED  BY <4>1, <4>2, <4>3, <4>4 DEF BreachesSymbolLimit
    <3>10. Alone(h, id, base)'
      <4>1. \A k \in streamed..Len(fills) : h[k] = positions
        BY <2>1, <3>2 DEF InStep
      <4>2. Done(id, base, positions)' = 0
        <5>1. orders'[id].instrument = i /\ positions' = positions
          BY <1>1, <1>2, <1>3, <3>5
        <5>. QED  BY <3>7, <5>1 DEF Done
      <4>3. \A k \in streamed..Len(fills) : Done(id, base, h[k])' = 0
        BY <1>2, <4>1, <4>2 DEF Done
      <4>4. orders'[id].qty \in Nat /\ orders'[id].filled_qty = 0
        BY <1>1, <1>3 DEF Ticket
      <4>5. Done(id, base, oms_positions)' = 0
        BY <1>2, <3>6, <4>2 DEF Done
      <4>6. SignedQty(orders[id])' = SignedQty(ticket)
        BY <1>3 DEF SignedQty
      <4>7. \A k \in streamed'..Len(fills') :
              0 <= Done(id, base, h[k])' /\ Done(id, base, h[k])' <= Done(id, base, positions)'
        BY <1>2, <4>2, <4>3
      <4>8. Done(id, base, positions)' <= orders'[id].qty
        BY <4>2, <4>4
      <4>9. orders'[id].filled_qty = Done(id, base, positions)' + Done(id, base, oms_positions)'
        BY <4>2, <4>4, <4>5
      <4>10. (streamed' + 1)..Len(fills') = {}
        BY <1>2, <3>2
      <4>. QED
        BY <3>8, <3>9, <4>6, <4>7, <4>8, <4>9, <4>10 DEF Alone
    <3>. QED  BY <3>3, <3>4, <3>10
  <2>. QED  BY <2>2, <2>3 DEF BooksInv
<1>. QED
  BY <1>4, <1>5

LEMMA InvSubmit ==
  ASSUME OMSInv, NEW r \in Request(Instruments, Modes), Submit(r)
  PROVE  OMSInv'
<1>1. WindowInv'
  BY WindowSubmit DEF OMSInv
<1>2. DeskTyped' /\ BooksInv'
  BY InvRefuse, InvSend DEF OMSInv
<1>3. DailyIsSum'
  <2>1. UNCHANGED <<daily_realised_pnl, oms_positions>>
    BY DEF Submit
  <2>. QED  BY <2>1 DEF OMSInv, DailyIsSum
<1>. QED
  BY <1>1, <1>2, <1>3 DEF OMSInv

-----------------------------------------------------------------------------
(* Cancelling, delivering and the clock                                    *)

LEMMA InvCancel ==
  ASSUME OMSInv, NEW o \in DOMAIN orders, CancelOrder(o), BrokerAlone
  PROVE  OMSInv'
<1>1. /\ DOMAIN pending' \subseteq DOMAIN pending
      /\ UNCHANGED <<orders, positions, fills, streamed, window, daily_realised_pnl, now,
                     registry, oms_positions, sent_at, crowded>>
  BY DEF CancelOrder, BrokerAlone, riskVars, omsOwn
<1>2. WindowInv'
  BY <1>1 DEF OMSInv, WindowInv, WindowTyped, WindowCovers, RateCapped, Ascending
<1>3. DeskTyped'
  BY <1>1 DEF OMSInv, DeskTyped
<1>4. DailyIsSum'
  BY <1>1 DEF OMSInv, DailyIsSum
<1>5. BooksInv'
  <2>1. PICK h : InStep(h) /\ LimitKept(h)
    BY DEF OMSInv, BooksInv
  <2>2. InStep(h)'
    BY <1>1, <2>1 DEF InStep
  <2>3. ASSUME NEW p \in DOMAIN pending, NEW base, Alone(h, p, base) PROVE Alone(h, p, base)'
    BY <1>1, <2>3, AloneStays
  <2>4. LimitKept(h)'
    BY <1>1, <2>1, <2>3 DEF LimitKept
  <2>. QED  BY <2>2, <2>4 DEF BooksInv
<1>. QED
  BY <1>2, <1>3, <1>4, <1>5 DEF OMSInv

LEMMA InvElapse ==
  ASSUME OMSInv, NEW t \in Ticks, Elapse(t), UNCHANGED <<brokerVars, omsOwn>>
  PROVE  OMSInv'
<1>1. UNCHANGED <<orders, pending, positions, fills, streamed, window, daily_realised_pnl,
                  registry, oms_positions, sent_at, crowded>>
  BY DEF Elapse, brokerVars, omsOwn
<1>2. WindowInv'
  BY <1>1, WindowElapse DEF OMSInv
<1>3. DeskTyped' /\ DailyIsSum'
  BY <1>1 DEF OMSInv, DeskTyped, DailyIsSum
<1>4. BooksInv'
  BY <1>1 DEF OMSInv, BooksInv, InStep, LimitKept, Alone, Done
<1>. QED
  BY <1>2, <1>3, <1>4 DEF OMSInv

\* What one execution adds to how far the books are from a position.
LEMMA DoneBooked ==
  ASSUME DeskTyped, NEW o \in DOMAIN orders, NEW base \in Int,
         NEW book \in Books, NEW fill \in Fill,
         fill.side = orders[o].side, fill.instrument = orders[o].instrument
  PROVE  /\ Done(o, base, book) \in Int
         /\ Done(o, base, Booked(book, fill)) = Done(o, base, book) + fill.qty
<1>1. PICK i \in Instruments : i = orders[o].instrument
  <2>1. orders[o] \in Ticket
    BY DEF DeskTyped
  <2>. QED  BY <2>1 DEF Ticket
<1>2. PICK n \in Int : n = book[i].qty
  BY DEF Books, Position
<1>3. Booked(book, fill)[i].qty = n + SignedQty(fill)
  BY <1>1, <1>2, BookedType
<1>4. fill.qty \in Int
  BY DEF Fill
<1>. QED
  BY <1>1, <1>2, <1>3, <1>4 DEF Done, SignedQty

\* Delivering the oldest execution on its way brings the manager's books one step nearer
\* to the broker's, and counts it once more on the order in flight.
\* What on_fill does to orders and positions.
LEMMA FillBooked ==
  ASSUME DeskTyped, NEW fill \in Fill, BookFill(fill)
  PROVE  /\ oms_positions' = Booked(oms_positions, fill) /\ oms_positions' \in Books
         /\ DOMAIN orders' = DOMAIN orders /\ orders' \in Seq(Ticket)
         /\ \A o \in DOMAIN orders :
              /\ o # fill.order_id => orders'[o] = orders[o]
              /\ o = fill.order_id =>
                   /\ orders'[o] = Executed(orders[o], fill.qty, fill.price)
                   /\ orders'[o].filled_qty = orders[o].filled_qty + fill.qty
                   /\ orders'[o].status # "rejected"
              /\ orders'[o].qty = orders[o].qty /\ orders'[o].side = orders[o].side
              /\ orders'[o].instrument = orders[o].instrument
<1>1. /\ orders' = IF fill.order_id \in registry
                     THEN [orders EXCEPT ![fill.order_id] = Executed(@, fill.qty, fill.price)]
                     ELSE orders
      /\ oms_positions' = Booked(oms_positions, fill)
  BY DEF BookFill, PositionsAfterFill, Booked
<1>2. fill.qty \in Int /\ fill.price \in Int
  BY DEF Fill
<1>3. ASSUME NEW o \in DOMAIN orders
      PROVE  /\ o # fill.order_id => orders'[o] = orders[o]
             /\ o = fill.order_id =>
                  /\ orders'[o] = Executed(orders[o], fill.qty, fill.price)
                  /\ orders'[o].filled_qty = orders[o].filled_qty + fill.qty
                  /\ orders'[o].status # "rejected"
             /\ orders'[o] \in Ticket
             /\ orders'[o].qty = orders[o].qty /\ orders'[o].side = orders[o].side
             /\ orders'[o].instrument = orders[o].instrument
  <2>1. orders[o] \in Ticket /\ registry = DOMAIN orders
    BY DEF DeskTyped
  <2>2. CASE o # fill.order_id
    BY <1>1, <2>1, <2>2
  <2>3. CASE o = fill.order_id
    <3>1. orders'[o] = Executed(orders[o], fill.qty, fill.price)
      BY <1>1, <2>1, <2>3
    <3>. QED  BY <1>2, <2>1, <2>3, <3>1, ExecutedTicket
  <2>. QED  BY <2>2, <2>3
<1>4. DOMAIN orders' = DOMAIN orders /\ orders' \in Seq(Ticket)
  <2>1. DOMAIN orders' = DOMAIN orders /\ DOMAIN orders = 1..Len(orders) /\ Len(orders) \in Nat
    BY <1>1 DEF DeskTyped
  <2>2. orders' = [o \in 1..Len(orders) |-> orders'[o]]
    <3>1. orders = [o \in 1..Len(orders) |-> orders[o]]
      BY DEF DeskTyped
    <3>2. CASE fill.order_id \in registry
      BY <1>1, <2>1, <3>1, <3>2
    <3>3. CASE fill.order_id \notin registry
      BY <1>1, <3>1, <3>3
    <3>. QED  BY <3>2, <3>3
  <2>3. \A o \in 1..Len(orders) : orders'[o] \in Ticket
    BY <1>3, <2>1
  <2>. QED  BY <2>1, <2>2, <2>3
<1>5. oms_positions' \in Books
  BY <1>1, BookedType DEF DeskTyped
<1>. QED
  BY <1>1, <1>3, <1>4, <1>5

LEMMA InvDeliver ==
  ASSUME OMSInv, DeliverFill
  PROVE  OMSInv'
<1>0. PICK n \in Nat : n = streamed + 1
  BY DEF OMSInv, DeskTyped
<1>1. PICK fill \in Fill : fill = fills[n]
  BY <1>0 DEF OMSInv, DeskTyped, DeliverFill
<1>2. /\ n \in 1..Len(fills) /\ streamed' = n
      /\ UNCHANGED <<pending, positions, fills, window, now, registry, sent_at, crowded>>
      /\ BookFill(fill)
  BY <1>0, <1>1 DEF OMSInv, DeskTyped, DeliverFill
<1>3. fill.qty \in Int /\ fill.price \in Int
  BY DEF Fill
<1>4. WindowInv'
  BY <1>2 DEF OMSInv, WindowInv, WindowTyped, WindowCovers, RateCapped, Ascending
<1>5. /\ oms_positions' = Booked(oms_positions, fill) /\ oms_positions' \in Books
      /\ DOMAIN orders' = DOMAIN orders /\ orders' \in Seq(Ticket)
      /\ \A o \in DOMAIN orders :
           /\ o # fill.order_id => orders'[o] = orders[o]
           /\ o = fill.order_id =>
                /\ orders'[o].filled_qty = orders[o].filled_qty + fill.qty
                /\ orders'[o].status # "rejected"
           /\ orders'[o].qty = orders[o].qty /\ orders'[o].side = orders[o].side
           /\ orders'[o].instrument = orders[o].instrument
  BY <1>2, FillBooked DEF OMSInv
<1>6. DeskTyped'
  <2>1. \A o \in DOMAIN pending' : o \in DOMAIN orders' /\ orders'[o].status # "rejected"
    BY <1>2, <1>5 DEF OMSInv, DeskTyped
  <2>2. streamed' \in 0..Len(fills')
    BY <1>0, <1>2
  <2>. QED  BY <1>2, <1>5, <2>1, <2>2 DEF OMSInv, DeskTyped
<1>7. DailyIsSum'
  BY DEF DeliverFill, BookFill, DailyIsSum
<1>8. BooksInv'
  <2>1. PICK h : InStep(h) /\ LimitKept(h)
    BY DEF OMSInv, BooksInv
  <2>2. h[n] = Booked(h[streamed], fill) /\ h[streamed] = oms_positions
    <3>1. n - 1 = streamed /\ n \in (streamed + 1)..Len(fills)
      BY <1>0, <1>2 DEF OMSInv, DeskTyped
    <3>. QED  BY <1>1, <2>1, <3>1 DEF InStep
  <2>3. n..Len(fills) \subseteq streamed..Len(fills)
        /\ (n + 1)..Len(fills) \subseteq (streamed + 1)..Len(fills)
    BY <1>0, <1>2 DEF OMSInv, DeskTyped
  <2>4. InStep(h)'
    BY <1>2, <1>5, <2>1, <2>2, <2>3 DEF InStep
  <2>5. ASSUME NEW o \in DOMAIN pending, NEW base, Alone(h, o, base)
        PROVE  Alone(h, o, base)'
    <3>0. o \in DOMAIN orders /\ orders[o] \in Ticket /\ DeskTyped
      BY DEF OMSInv, DeskTyped
    <3>1. fill.order_id = o /\ fill.side = orders[o].side /\ fill.instrument = orders[o].instrument
      <4>1. n \in (streamed + 1)..Len(fills)
        BY <1>0, <1>2 DEF OMSInv, DeskTyped
      <4>. QED  BY <1>1, <2>5, <4>1 DEF Alone
    <3>2. /\ orders'[o].filled_qty = orders[o].filled_qty + fill.qty
          /\ orders'[o].qty = orders[o].qty /\ orders'[o].side = orders[o].side
          /\ orders'[o].instrument = orders[o].instrument
      BY <1>5, <3>0, <3>1
    <3>3. ASSUME NEW book PROVE Done(o, base, book)' = Done(o, base, book)
      BY <3>2 DEF Done
    <3>4. Done(o, base, oms_positions)' = Done(o, base, h[n])
      BY <1>5, <2>2, <3>2 DEF Done
    <3>5. Done(o, base, positions)' = Done(o, base, positions)
      BY <1>2, <3>2 DEF Done
    <3>6. \A k \in n..Len(fills) : Done(o, base, h[k])' = Done(o, base, h[k])
      BY <3>2 DEF Done
    <3>7. /\ Done(o, base, h[n]) = Done(o, base, oms_positions) + fill.qty
          /\ Done(o, base, oms_positions) \in Int /\ Done(o, base, positions) \in Int
      <4>1. base \in Int /\ oms_positions \in Books /\ positions \in Books
        BY <2>5, <3>0 DEF Alone, DeskTyped
      <4>. QED  BY <2>2, <3>0, <3>1, <4>1, DoneBooked
    <3>8. orders[o].filled_qty = Done(o, base, positions) + Done(o, base, oms_positions)
      BY <2>5 DEF Alone
    <3>9. orders'[o].filled_qty = Done(o, base, positions)' + Done(o, base, oms_positions)'
      BY <1>3, <3>2, <3>4, <3>5, <3>7, <3>8
    <3>10. SignedQty(orders[o])' = SignedQty(orders[o])
      BY <3>2 DEF SignedQty
    <3>11. /\ base \in Int /\ Magnitude(base) <= MaxQtyPerSymbol
           /\ (Magnitude(base + SignedQty(orders[o])) <= MaxQtyPerSymbol)'
      <4>1. Magnitude(base + SignedQty(orders[o])) <= MaxQtyPerSymbol /\ base \in Int
            /\ Magnitude(base) <= MaxQtyPerSymbol
        BY <2>5 DEF Alone
      <4>. QED  BY <3>10, <4>1
    <3>12. \A k \in streamed'..Len(fills') :
             0 <= Done(o, base, h[k])' /\ Done(o, base, h[k])' <= Done(o, base, positions)'
      BY <1>2, <2>3, <2>5, <3>5, <3>6 DEF Alone
    <3>13. Done(o, base, positions)' <= orders'[o].qty
      BY <2>5, <3>2, <3>5 DEF Alone
    <3>14. \A k \in (streamed' + 1)..Len(fills') :
             /\ fills'[k].order_id = o /\ fills'[k].side = orders'[o].side
             /\ fills'[k].instrument = orders'[o].instrument
      BY <1>2, <2>3, <2>5, <3>2 DEF Alone
    <3>. QED  BY <3>9, <3>11, <3>12, <3>13, <3>14 DEF Alone
  <2>6. LimitKept(h)'
    BY <1>2, <2>1, <2>5 DEF LimitKept
  <2>. QED  BY <2>4, <2>6 DEF BooksInv
<1>. QED
  BY <1>4, <1>6, <1>7, <1>8 DEF OMSInv

-----------------------------------------------------------------------------
(* Quotes                                                                  *)

\* What a quote does: the executions `new`, one for each order it matches.
Emits(i, price, hit, new) ==
  /\ hit \in InListOrder(Matched(i, price))
  /\ new = [k \in DOMAIN hit |-> FillOf(hit[k], price)]
  /\ orders' = [o \in DOMAIN orders |-> OrderAfter(o, i, price)]
  /\ DOMAIN pending' = StillPending(i, price)
  /\ fills' = fills \o new
  /\ positions' = BooksAfter(positions, new)
  /\ streamed' = streamed

LEMMA TickEmits ==
  ASSUME NEW i, NEW price, Tick(i, price)
  PROVE  \E hit, new : Emits(i, price, hit, new)
BY DEF Tick, Emits

LEMMA MatchedSize ==
  ASSUME DeskTyped, NEW i, NEW price
  PROVE  /\ Matched(i, price) \subseteq DOMAIN orders
         /\ IsFiniteSet(Matched(i, price)) /\ Cardinality(Matched(i, price)) \in Nat
<1>1. Matched(i, price) \subseteq DOMAIN orders
  BY DEF DeskTyped, Matched
<1>2. DOMAIN orders = 1..Len(orders) /\ Len(orders) \in Int
  BY DEF DeskTyped
<1>3. IsFiniteSet(DOMAIN orders)
  BY <1>2, FS_Interval
<1>. QED
  BY <1>1, <1>3, FS_Subset, FS_CardinalityType

\* A list continued by another.
LEMMA Continued ==
  ASSUME NEW S, NEW s \in Seq(S), NEW t \in Seq(S)
  PROVE  /\ s \o t \in Seq(S) /\ Len(s \o t) = Len(s) + Len(t)
         /\ \A k \in 1..Len(s) : (s \o t)[k] = s[k]
         /\ \A k \in 1..Len(t) : (s \o t)[Len(s) + k] = t[k]
<1>1. s \o t \in Seq(S) /\ Len(s \o t) = Len(s) + Len(t)
  OBVIOUS
<1>2. ASSUME NEW k \in 1..Len(s) PROVE (s \o t)[k] = s[k]
  OBVIOUS
<1>3. ASSUME NEW k \in 1..Len(t) PROVE (s \o t)[Len(s) + k] = t[k]
  OBVIOUS
<1>. QED
  BY <1>1, <1>2, <1>3

LEMMA EmittedFills ==
  ASSUME DeskTyped, NEW i \in Instruments, NEW price \in Prices,
         NEW hit, NEW new, Emits(i, price, hit, new)
  PROVE  /\ hit \in [1..Cardinality(Matched(i, price)) -> Matched(i, price)]
         /\ new \in Seq(Fill) /\ Len(new) = Cardinality(Matched(i, price))
         /\ \A k \in 1..Len(new) : new[k] = FillOf(hit[k], price)
         /\ fills' \in Seq(Fill) /\ Len(fills') = Len(fills) + Len(new)
         /\ \A k \in 1..Len(fills) : fills'[k] = fills[k]
         /\ \A k \in 1..Len(new) : fills'[Len(fills) + k] = new[k]
<1>1. PICK n \in Nat : n = Cardinality(Matched(i, price))
  BY MatchedSize
<1>2. hit \in [1..n -> Matched(i, price)]
  BY <1>1 DEF Emits, InListOrder
<1>3. \A k \in 1..n : hit[k] \in DOMAIN orders
  BY <1>2, MatchedSize
<1>4. \A k \in 1..n : FillOf(hit[k], price) \in Fill
  BY <1>3, FillOfType
<1>5. new = [k \in 1..n |-> FillOf(hit[k], price)]
  BY <1>2 DEF Emits
<1>6. new \in Seq(Fill) /\ Len(new) = n /\ \A k \in 1..n : new[k] = FillOf(hit[k], price)
  BY <1>4, <1>5
<1>7. fills \in Seq(Fill) /\ fills' = fills \o new
  BY DEF DeskTyped, Emits
<1>8. /\ fills' \in Seq(Fill) /\ Len(fills') = Len(fills) + Len(new)
      /\ \A k \in 1..Len(fills) : fills'[k] = fills[k]
      /\ \A k \in 1..Len(new) : fills'[Len(fills) + k] = new[k]
  <2>1. new \in Seq(Fill)
    BY <1>6
  <2>. QED  BY <1>7, <2>1, Continued
<1>. QED
  BY <1>1, <1>2, <1>6, <1>8

LEMMA OrderAfterQuote ==
  ASSUME DeskTyped, NEW i \in Instruments, NEW price \in Prices, NEW o \in DOMAIN orders
  PROVE  LET after == OrderAfter(o, i, price)
         IN  /\ after \in Ticket
             /\ after.qty = orders[o].qty /\ after.side = orders[o].side
             /\ after.instrument = orders[o].instrument
             /\ o \notin Matched(i, price) => after = orders[o]
             /\ o \in Matched(i, price) =>
                  /\ after.filled_qty = orders[o].filled_qty + FillQty(orders[o])
                  /\ after.status =
                       IF orders[o].qty - (orders[o].filled_qty + FillQty(orders[o])) = 0
                         THEN "filled" ELSE "partially_filled"
<1>1. orders[o] \in Ticket
  BY DEF DeskTyped
<1>2. CASE o \notin Matched(i, price)
  BY <1>1, <1>2 DEF OrderAfter
<1>3. CASE o \in Matched(i, price)
  <2>1. FillQty(orders[o]) \in Int /\ FillPrice(orders[o], price) \in Int
    BY <1>1, FillQtyType, FillPriceInt
  <2>2. OrderAfter(o, i, price) =
          Executed(orders[o], FillQty(orders[o]), FillPrice(orders[o], price))
    BY <1>3 DEF OrderAfter
  <2>. QED  BY <1>1, <1>3, <2>1, <2>2, ExecutedTicket
<1>. QED
  BY <1>2, <1>3

LEMMA DeskAfterQuote ==
  ASSUME DeskTyped, NEW i \in Instruments, NEW price \in Prices,
         NEW hit, NEW new, Emits(i, price, hit, new)
  PROVE  /\ DOMAIN orders' = DOMAIN orders /\ orders' \in Seq(Ticket)
         /\ \A o \in DOMAIN orders : orders'[o] = OrderAfter(o, i, price)
         /\ DOMAIN pending' \subseteq DOMAIN pending
         /\ \A o \in DOMAIN pending' : orders'[o].status # "rejected"
<1>1. /\ DOMAIN orders' = DOMAIN orders
      /\ \A o \in DOMAIN orders : orders'[o] = OrderAfter(o, i, price)
  BY DEF Emits
<1>2. orders' \in Seq(Ticket)
  <2>1. DOMAIN orders = 1..Len(orders) /\ Len(orders) \in Nat
    BY DEF DeskTyped
  <2>2. \A o \in 1..Len(orders) : OrderAfter(o, i, price) \in Ticket
    BY <2>1, OrderAfterQuote
  <2>3. orders' = [o \in 1..Len(orders) |-> OrderAfter(o, i, price)]
    BY <2>1 DEF Emits
  <2>. QED  BY <2>1, <2>2, <2>3
<1>3. DOMAIN pending' \subseteq DOMAIN pending
  BY DEF Emits, StillPending
<1>4. ASSUME NEW o \in DOMAIN pending PROVE orders'[o].status # "rejected"
  <2>1. o \in DOMAIN orders /\ orders[o].status # "rejected"
    BY DEF DeskTyped
  <2>2. orders'[o] = OrderAfter(o, i, price)
    BY <1>1, <2>1
  <2>3. CASE o \in Matched(i, price)
    BY <2>1, <2>2, <2>3, OrderAfterQuote
  <2>4. CASE o \notin Matched(i, price)
    BY <2>1, <2>2, <2>4, OrderAfterQuote
  <2>. QED  BY <2>3, <2>4
<1>. QED
  BY <1>1, <1>2, <1>3, <1>4

\* The books go on from where they stood, execution by execution.
LEMMA BooksAfterQuote ==
  ASSUME DeskTyped, NEW i \in Instruments, NEW price \in Prices,
         NEW hit, NEW new, Emits(i, price, hit, new), oms_positions' = oms_positions,
         NEW h, InStep(h)
  PROVE  \E h2 : /\ InStep(h2)' /\ positions' \in Books
                 /\ \A k \in streamed..Len(fills) : h2[k] = h[k]
                 /\ Len(new) = 0 => positions' = positions
                 /\ Len(new) = 1 => positions' = Booked(positions, new[1])
<1>1. /\ new \in Seq(Fill) /\ Len(new) \in Nat
      /\ fills' \in Seq(Fill) /\ Len(fills') = Len(fills) + Len(new)
      /\ \A k \in 1..Len(fills) : fills'[k] = fills[k]
      /\ \A k \in 1..Len(new) : fills'[Len(fills) + k] = new[k]
      /\ Len(fills) \in Nat /\ streamed \in 0..Len(fills) /\ streamed' = streamed
  <2>1. /\ new \in Seq(Fill)
        /\ fills' \in Seq(Fill) /\ Len(fills') = Len(fills) + Len(new)
        /\ \A k \in 1..Len(fills) : fills'[k] = fills[k]
        /\ \A k \in 1..Len(new) : fills'[Len(fills) + k] = new[k]
    BY EmittedFills
  <2>2. fills \in Seq(Fill) /\ streamed \in 0..Len(fills)
    BY DEF DeskTyped
  <2>3. streamed' = streamed
    BY DEF Emits
  <2>. QED  BY <2>1, <2>2, <2>3
<1>2. PICK g : History(g, positions, new) /\ positions' = g[Len(new)]
  <2>1. PICK g : History(g, positions, new) /\ BooksAfter(positions, new) = g[Len(new)]
    BY <1>1, BooksAfterHistory
  <2>. QED  BY <2>1 DEF Emits
<1>3. g[0] = positions /\ \A k \in 1..Len(new) : g[k] = Booked(g[k - 1], new[k])
  BY <1>2 DEF History
<1>4. \A k \in 0..Len(new) : g[k] \in Books
  <2>. DEFINE T == { k \in 0..Len(new) : g[k] \in Books }
  <2>1. 0 \in T
    BY <1>1, <1>3 DEF DeskTyped
  <2>2. ASSUME NEW k \in 0..(Len(new) - 1), k \in T PROVE k + 1 \in T
    <3>1. k + 1 \in 1..Len(new) /\ (k + 1) - 1 = k
      BY <1>1
    <3>2. g[k + 1] = Booked(g[k], new[k + 1])
      BY <1>3, <3>1
    <3>3. new[k + 1] \in Fill
      BY <1>1, <3>1
    <3>4. g[k + 1] \in Books
      BY <2>2, <3>2, <3>3, BookedType
    <3>. QED  BY <3>1, <3>4
  <2>3. \A k \in 0..Len(new) : k \in T
    <3>. HIDE DEF T
    <3>. QED  BY <1>1, <2>1, <2>2, ReachesAll
  <2>. QED  BY <2>3
<1>5. PICK l \in Nat : l = Len(fills)
  BY <1>1
<1>6. PICK n \in Nat : n = Len(new)
  BY <1>1
<1>7. PICK s \in 0..l : s = streamed
  BY <1>1, <1>5
<1>8. PICK h2 : h2 = [k \in s..(l + n) |-> IF k <= l THEN h[k] ELSE g[k - l]]
  OBVIOUS
<1>9. h[l] = positions /\ h[s] = oms_positions /\ \A k \in s..l : h[k] \in Books
  BY <1>5, <1>7 DEF InStep
<1>10. \A k \in s..l : h2[k] = h[k]
  BY <1>8
<1>11. ASSUME NEW j \in 0..n PROVE h2[l + j] = g[j]
  <2>1. l + j \in s..(l + n)
    OBVIOUS
  <2>2. CASE j = 0
    BY <1>3, <1>9, <1>10, <2>2
  <2>3. CASE j # 0
    <3>1. ~(l + j <= l) /\ (l + j) - l = j
      BY <2>3
    <3>. QED  BY <1>8, <2>1, <3>1
  <2>. QED  BY <2>2, <2>3
<1>12. ASSUME NEW k \in s..(l + n)
       PROVE  \/ k \in s..l
              \/ \E j \in 1..n : k = l + j
  <2>1. CASE k <= l
    BY <2>1
  <2>2. CASE k > l
    <3>1. k - l \in 1..n /\ k = l + (k - l)
      BY <2>2
    <3>. QED  BY <3>1
  <2>. QED  BY <2>1, <2>2
<1>13. \A k \in s..(l + n) : h2[k] \in Books
  <2>. TAKE k \in s..(l + n)
  <2>1. CASE k \in s..l
    BY <1>9, <1>10, <2>1
  <2>2. ASSUME NEW j \in 1..n, k = l + j PROVE h2[k] \in Books
    BY <1>4, <1>6, <1>11, <2>2
  <2>. QED  BY <1>12, <2>1, <2>2
<1>14. ASSUME NEW k \in (s + 1)..(l + n) PROVE h2[k] = Booked(h2[k - 1], fills'[k])
  <2>1. k \in s..(l + n)
    OBVIOUS
  <2>2. CASE k \in s..l
    <3>1. k \in (s + 1)..l /\ k - 1 \in s..l /\ k \in 1..l
      BY <2>2
    <3>2. h[k] = Booked(h[k - 1], fills[k])
      BY <1>5, <1>7, <3>1 DEF InStep
    <3>. QED  BY <1>1, <1>5, <1>10, <3>1, <3>2
  <2>3. ASSUME NEW j \in 1..n, k = l + j PROVE h2[k] = Booked(h2[k - 1], fills'[k])
    <3>1. j \in 0..n /\ j - 1 \in 0..n /\ k - 1 = l + (j - 1)
      BY <2>3
    <3>2. h2[k] = g[j] /\ h2[k - 1] = g[j - 1]
      BY <1>11, <2>3, <3>1
    <3>3. g[j] = Booked(g[j - 1], new[j]) /\ fills'[k] = new[j]
      BY <1>1, <1>3, <1>5, <1>6, <2>3
    <3>. QED  BY <3>2, <3>3
  <2>. QED  BY <1>12, <2>1, <2>2, <2>3
<1>15. h2[l + n] = positions' /\ h2[s] = oms_positions
  <2>1. n \in 0..n /\ s \in s..l
    OBVIOUS
  <2>. QED  BY <1>2, <1>6, <1>9, <1>10, <1>11, <2>1
<1>16. InStep(h2)'
  BY <1>1, <1>5, <1>6, <1>7, <1>13, <1>14, <1>15 DEF InStep
<1>17. positions' \in Books
  BY <1>2, <1>4, <1>1
<1>18. Len(new) = 0 => positions' = positions
  BY <1>2, <1>3
<1>19. Len(new) = 1 => positions' = Booked(positions, new[1])
  BY <1>2, <1>3
<1>. QED
  BY <1>5, <1>7, <1>10, <1>16, <1>17, <1>18, <1>19

\* A number between two whose magnitude is within a limit is within it.
LEMMA Convex ==
  ASSUME NEW base \in Int, NEW q \in Nat, NEW n \in 0..q, NEW limit \in Nat,
         Magnitude(base) <= limit
  PROVE  /\ Magnitude(base + q) <= limit => Magnitude(base + n) <= limit
         /\ Magnitude(base - q) <= limit => Magnitude(base - n) <= limit
BY DEF Magnitude

\* A quote that matches nothing moves nothing.
LEMMA LimitUnmatched ==
  ASSUME DeskTyped, NEW i \in Instruments, NEW price \in Prices,
         NEW hit, NEW new, Emits(i, price, hit, new), UNCHANGED <<oms_positions, crowded>>,
         NEW h, InStep(h), LimitKept(h),
         NEW h2, \A k \in streamed..Len(fills) : h2[k] = h[k],
         Matched(i, price) = {}, positions' = positions
  PROVE  LimitKept(h2)'
<1>1. Len(new) = 0 /\ Len(fills') = Len(fills)
  <2>1. Len(new) = 0
    BY EmittedFills, FS_EmptySet
  <2>2. Len(fills) \in Nat /\ Len(fills') = Len(fills) + Len(new)
    BY EmittedFills DEF DeskTyped
  <2>. QED  BY <2>1, <2>2
<1>2. \A k \in 1..Len(fills) : fills'[k] = fills[k]
  BY EmittedFills
<1>3. streamed' = streamed /\ streamed \in Nat /\ Len(fills) \in Nat
  BY DEF Emits, DeskTyped
<1>4. DOMAIN pending' \subseteq DOMAIN pending
  BY DeskAfterQuote
<1>5. ASSUME NEW o \in DOMAIN pending, NEW base, Alone(h, o, base) PROVE Alone(h2, o, base)'
  <2>1. o \in DOMAIN orders
    BY DEF DeskTyped
  <2>2. orders'[o] = orders[o]
    BY <2>1, DeskAfterQuote, OrderAfterQuote
  <2>3. /\ base \in Int /\ Magnitude(base) <= MaxQtyPerSymbol
        /\ Magnitude(base + SignedQty(orders[o])) <= MaxQtyPerSymbol
        /\ \A k \in streamed..Len(fills) :
             0 <= Done(o, base, h[k]) /\ Done(o, base, h[k]) <= Done(o, base, positions)
        /\ Done(o, base, positions) <= orders[o].qty
        /\ orders[o].filled_qty = Done(o, base, positions) + Done(o, base, oms_positions)
        /\ \A k \in (streamed + 1)..Len(fills) :
             /\ fills[k].order_id = o /\ fills[k].side = orders[o].side
             /\ fills[k].instrument = orders[o].instrument
    BY <1>5 DEF Alone
  <2>4. /\ Done(o, base, positions)' = Done(o, base, positions)
        /\ Done(o, base, oms_positions)' = Done(o, base, oms_positions)
        /\ \A k \in streamed..Len(fills) : Done(o, base, h2[k])' = Done(o, base, h[k])
    BY <2>2 DEF Done
  <2>5. (Magnitude(base + SignedQty(orders[o])) <= MaxQtyPerSymbol)'
    BY <2>2, <2>3
  <2>6. \A k \in (streamed' + 1)..Len(fills') :
          /\ fills'[k].order_id = o /\ fills'[k].side = orders'[o].side
          /\ fills'[k].instrument = orders'[o].instrument
    <3>1. (streamed + 1)..Len(fills) \subseteq 1..Len(fills)
      BY <1>3
    <3>. QED  BY <1>1, <1>2, <1>3, <2>2, <2>3, <3>1
  <2>. QED  BY <1>1, <1>3, <2>2, <2>3, <2>4, <2>5, <2>6 DEF Alone
<1>. QED
  BY <1>4, <1>5 DEF LimitKept

\* Alone in flight, the order a quote matches moves the position no further than the
\* quantity it was checked for, though its filled quantity runs ahead of what was executed.
LEMMA LimitMatched ==
  ASSUME DeskTyped, NEW i \in Instruments, NEW price \in Prices,
         NEW hit, NEW new, Emits(i, price, hit, new), UNCHANGED <<oms_positions, crowded>>,
         NEW h, InStep(h), LimitKept(h),
         NEW h2, \A k \in streamed..Len(fills) : h2[k] = h[k], InStep(h2)',
         Len(new) = 1 => positions' = Booked(positions, new[1]),
         NEW o \in Matched(i, price)
  PROVE  LimitKept(h2)'
<1>. SUFFICES ASSUME MaxQtyPerSymbol # NoLimit, ~crowded
              PROVE  /\ \A j \in Instruments : Magnitude(positions'[j].qty) <= MaxQtyPerSymbol
                     /\ \A p, q \in DOMAIN pending' : p = q
                     /\ \A p \in DOMAIN pending' : \E base : Alone(h2, p, base)'
  BY DEF LimitKept
<1>0. MaxQtyPerSymbol \in Nat
  BY LimitsAssumption
<1>b. positions \in Books /\ oms_positions \in Books
  BY DEF DeskTyped
<1>1. /\ \A j \in Instruments : Magnitude(positions[j].qty) <= MaxQtyPerSymbol
      /\ \A p, q \in DOMAIN pending : p = q
      /\ \A p \in DOMAIN pending : \E base : Alone(h, p, base)
  BY DEF LimitKept
<1>2. o \in DOMAIN pending /\ o \in DOMAIN orders /\ orders[o] \in Ticket
  BY DEF Matched, DeskTyped
<1>3. Matched(i, price) = {o}
  BY <1>1, <1>2 DEF Matched
<1>4. Cardinality(Matched(i, price)) = 1
  BY <1>3, FS_Singleton
<1>5. hit[1] = o /\ Len(new) = 1
  <2>1. /\ hit \in [1..Cardinality(Matched(i, price)) -> Matched(i, price)]
        /\ Len(new) = Cardinality(Matched(i, price))
    BY EmittedFills
  <2>. QED  BY <1>3, <1>4, <2>1
<1>6. PICK fill \in Fill : fill = FillOf(o, price)
  BY <1>2, FillOfType
<1>7. new[1] = fill
  <2>1. \A k \in 1..Len(new) : new[k] = FillOf(hit[k], price)
    BY EmittedFills
  <2>. QED  BY <1>5, <1>6, <2>1
<1>8. positions' = Booked(positions, fill)
  BY <1>5, <1>7
<1>9. /\ fill.order_id = o /\ fill.instrument = orders[o].instrument
      /\ fill.side = orders[o].side /\ fill.qty = FillQty(orders[o])
  BY <1>2, <1>6, FillOfType
<1>10. PICK base : Alone(h, o, base)
  BY <1>1, <1>2
<1>11. /\ base \in Int /\ Magnitude(base) <= MaxQtyPerSymbol
       /\ Magnitude(base + SignedQty(orders[o])) <= MaxQtyPerSymbol
       /\ \A k \in streamed..Len(fills) :
            0 <= Done(o, base, h[k]) /\ Done(o, base, h[k]) <= Done(o, base, positions)
       /\ Done(o, base, positions) <= orders[o].qty
       /\ orders[o].filled_qty = Done(o, base, positions) + Done(o, base, oms_positions)
       /\ \A k \in (streamed + 1)..Len(fills) :
            /\ fills[k].order_id = o /\ fills[k].side = orders[o].side
            /\ fills[k].instrument = orders[o].instrument
  BY <1>10 DEF Alone
<1>12. PICK m \in Int : m = FillQty(orders[o])
  BY <1>2, FillQtyType
<1>13. PICK e \in Int : e = Done(o, base, positions)
  BY <1>2, <1>b, <1>6, <1>9, <1>11, DoneBooked
<1>14. PICK d \in Int : d = Done(o, base, oms_positions)
  BY <1>2, <1>b, <1>6, <1>9, <1>11, DoneBooked
<1>15. PICK q \in Nat : q = orders[o].qty
  BY <1>2 DEF Ticket
<1>16. 0 <= d /\ d <= e /\ e <= q /\ orders[o].filled_qty = e + d
  <2>1. streamed \in streamed..Len(fills) /\ h[streamed] = oms_positions
    BY DEF DeskTyped, InStep
  <2>. QED  BY <1>11, <1>13, <1>14, <1>15, <2>1
<1>17. m <= q - (e + d) /\ (m = q - (e + d) \/ m > 0)
  BY <1>2, <1>12, <1>15, <1>16, FillQtyType
<1>18. Done(o, base, Booked(positions, fill)) = e + m
  BY <1>2, <1>b, <1>9, <1>11, <1>12, <1>13, DoneBooked
<1>19. e + m \in 0..q
  BY <1>16, <1>17
<1>20. \A j \in Instruments : Magnitude(positions'[j].qty) <= MaxQtyPerSymbol
  <2>. TAKE j \in Instruments
  <2>1. CASE j # orders[o].instrument
    <3>1. positions'[j].qty = positions[j].qty
      BY <1>b, <1>6, <1>8, <1>9, <2>1, BookedType
    <3>. QED  BY <1>1, <3>1
  <2>2. CASE j = orders[o].instrument
    <3>1. positions'[j].qty \in Int
      <4>1. positions' \in Books
        BY <1>b, <1>8, BookedType
      <4>. QED  BY <4>1 DEF Books, Position
    <3>2. orders[o].side = "buy" => positions'[j].qty - base = e + m
      BY <1>8, <1>18, <2>2 DEF Done
    <3>3. orders[o].side # "buy" => base - positions'[j].qty = e + m
      BY <1>8, <1>18, <2>2 DEF Done
    <3>4. CASE orders[o].side = "buy"
      <4>1. SignedQty(orders[o]) = q
        BY <1>15, <3>4 DEF SignedQty
      <4>2. Magnitude(base + (e + m)) <= MaxQtyPerSymbol
        BY <1>0, <1>11, <1>19, <4>1, Convex
      <4>3. positions'[j].qty = base + (e + m)
        BY <1>11, <3>1, <3>2, <3>4
      <4>. QED  BY <4>2, <4>3
    <3>5. CASE orders[o].side # "buy"
      <4>1. base + SignedQty(orders[o]) = base - q
        BY <1>11, <1>15, <3>5 DEF SignedQty
      <4>2. Magnitude(base - (e + m)) <= MaxQtyPerSymbol
        BY <1>0, <1>11, <1>19, <4>1, Convex
      <4>3. positions'[j].qty = base - (e + m)
        BY <1>11, <3>1, <3>3, <3>5
      <4>. QED  BY <4>2, <4>3
    <3>. QED  BY <3>4, <3>5
  <2>. QED  BY <2>1, <2>2
<1>21. DOMAIN pending' \subseteq {o}
  BY <1>1, <1>2, DeskAfterQuote
<1>22. ASSUME o \in DOMAIN pending' PROVE Alone(h2, o, base)'
  <2>1. /\ orders'[o].qty = q /\ orders'[o].side = orders[o].side
        /\ orders'[o].instrument = orders[o].instrument
        /\ orders'[o].filled_qty = (e + d) + m
        /\ OrderAfter(o, i, price).status =
             IF q - ((e + d) + m) = 0 THEN "filled" ELSE "partially_filled"
    <3>1. orders'[o] = OrderAfter(o, i, price)
      BY <1>2, DeskAfterQuote
    <3>. QED  BY <1>2, <1>12, <1>15, <1>16, <3>1, OrderAfterQuote
  <2>2. m > 0
    <3>1. OrderAfter(o, i, price).status # "filled"
      BY <1>22 DEF Emits, StillPending
    <3>2. q - ((e + d) + m) # 0
      BY <2>1, <3>1
    <3>. QED  BY <1>17, <3>2
  <2>3. \A book : Done(o, base, book)' = Done(o, base, book)
    BY <2>1 DEF Done
  <2>4. Done(o, base, positions)' = e + m
    BY <1>8, <1>18, <2>1 DEF Done
  <2>5. Done(o, base, oms_positions)' = d
    BY <1>14, <2>1 DEF Done
  <2>6. PICK l \in Nat : l = Len(fills)
    BY DEF DeskTyped
  <2>7. PICK s \in Nat : s = streamed /\ s <= l
    BY <2>6 DEF DeskTyped
  <2>8. Len(fills') = l + 1 /\ fills'[l + 1] = fill /\ streamed' = s
    <3>1. /\ Len(fills') = Len(fills) + Len(new)
          /\ \A k \in 1..Len(new) : fills'[Len(fills) + k] = new[k]
      BY EmittedFills
    <3>. QED  BY <1>5, <1>7, <2>6, <2>7, <3>1 DEF Emits
  <2>9. \A k \in s..(l + 1) : 0 <= Done(o, base, h2[k])' /\ Done(o, base, h2[k])' <= e + m
    <3>. TAKE k \in s..(l + 1)
    <3>1. CASE k \in s..l
      <4>1. h2[k] = h[k]
        BY <2>6, <2>7, <3>1
      <4>2. Done(o, base, h2[k])' = Done(o, base, h[k])
        BY <2>1, <4>1 DEF Done
      <4>3. 0 <= Done(o, base, h[k]) /\ Done(o, base, h[k]) <= e
        BY <1>11, <1>13, <2>6, <2>7, <3>1
      <4>4. Done(o, base, h[k]) \in Int
        <5>1. h[k] \in Books
          BY <2>6, <2>7, <3>1 DEF InStep
        <5>. QED  BY <1>2, <1>9, <1>11, <5>1, DoneBooked
      <4>. QED  BY <2>2, <4>2, <4>3, <4>4
    <3>2. CASE k = l + 1
      <4>1. h2[k] = positions'
        BY <2>8, <3>2 DEF InStep
      <4>2. Done(o, base, h2[k])' = Done(o, base, positions)'
        BY <4>1 DEF Done
      <4>. QED  BY <1>19, <2>4, <4>2
    <3>. QED  BY <3>1, <3>2
  <2>10. \A k \in (s + 1)..(l + 1) :
           /\ fills'[k].order_id = o /\ fills'[k].side = orders'[o].side
           /\ fills'[k].instrument = orders'[o].instrument
    <3>. TAKE k \in (s + 1)..(l + 1)
    <3>1. CASE k \in (s + 1)..l
      <4>1. k \in 1..Len(fills)
        BY <2>6, <3>1
      <4>2. fills'[k] = fills[k]
        BY <4>1, EmittedFills
      <4>. QED  BY <1>11, <2>1, <2>6, <2>7, <3>1, <4>2
    <3>2. CASE k = l + 1
      BY <1>9, <2>1, <2>8, <3>2
    <3>. QED  BY <3>1, <3>2
  <2>11. (Magnitude(base + SignedQty(orders[o])) <= MaxQtyPerSymbol)'
    <3>1. SignedQty(orders[o])' = SignedQty(orders[o])
      BY <1>15, <2>1 DEF SignedQty
    <3>. QED  BY <1>11, <3>1
  <2>12. orders'[o].filled_qty = Done(o, base, positions)' + Done(o, base, oms_positions)'
    BY <2>1, <2>4, <2>5
  <2>13. Done(o, base, positions)' <= orders'[o].qty
    BY <1>19, <2>1, <2>4
  <2>. QED
    BY <1>11, <2>4, <2>8, <2>9, <2>10, <2>11, <2>12, <2>13 DEF Alone
<1>. QED
  BY <1>20, <1>21, <1>22

LEMMA InvTick ==
  ASSUME OMSInv, NEW i \in Instruments, NEW price \in Prices, Tick(i, price), BrokerAlone
  PROVE  OMSInv'
<1>0. DeskTyped
  BY DEF OMSInv
<1>1. UNCHANGED <<window, daily_realised_pnl, now, registry, oms_positions, sent_at, crowded>>
  BY DEF BrokerAlone, riskVars, omsOwn
<1>2. PICK hit, new : Emits(i, price, hit, new)
  BY TickEmits
<1>3. WindowInv'
  BY <1>1 DEF OMSInv, WindowInv, WindowTyped, WindowCovers, RateCapped, Ascending
<1>4. PICK h : InStep(h) /\ LimitKept(h)
  BY DEF OMSInv, BooksInv
<1>5. PICK h2 : /\ InStep(h2)' /\ positions' \in Books
                /\ \A k \in streamed..Len(fills) : h2[k] = h[k]
                /\ Len(new) = 0 => positions' = positions
                /\ Len(new) = 1 => positions' = Booked(positions, new[1])
  BY <1>0, <1>1, <1>2, <1>4, BooksAfterQuote
<1>6. DeskTyped'
  <2>1. /\ DOMAIN orders' = DOMAIN orders /\ orders' \in Seq(Ticket)
        /\ DOMAIN pending' \subseteq DOMAIN pending
        /\ \A o \in DOMAIN pending' : orders'[o].status # "rejected"
    BY <1>0, <1>2, DeskAfterQuote
  <2>2. fills' \in Seq(Fill) /\ Len(fills') = Len(fills) + Len(new) /\ Len(new) \in Nat
    BY <1>0, <1>2, EmittedFills, MatchedSize
  <2>3. streamed' \in 0..Len(fills')
    <3>1. streamed' = streamed
      BY <1>2 DEF Emits
    <3>2. streamed \in 0..Len(fills) /\ Len(fills) \in Nat
      BY <1>0 DEF DeskTyped
    <3>. QED  BY <2>2, <3>1, <3>2
  <2>. QED  BY <1>0, <1>1, <1>5, <2>1, <2>2, <2>3 DEF DeskTyped
<1>7. DailyIsSum'
  BY <1>1 DEF OMSInv, DailyIsSum
<1>8. LimitKept(h2)'
  <2>1. CASE Matched(i, price) = {}
    <3>1. Len(new) = 0
      BY <1>0, <1>2, <2>1, EmittedFills, FS_EmptySet
    <3>. QED  BY <1>0, <1>1, <1>2, <1>4, <1>5, <2>1, <3>1, LimitUnmatched
  <2>2. CASE Matched(i, price) # {}
    <3>1. PICK o : o \in Matched(i, price)
      BY <2>2
    <3>. QED  BY <1>0, <1>1, <1>2, <1>4, <1>5, <3>1, LimitMatched
  <2>. QED  BY <2>1, <2>2
<1>9. BooksInv'
  BY <1>5, <1>8 DEF BooksInv
<1>. QED
  BY <1>3, <1>6, <1>7, <1>9 DEF OMSInv

-----------------------------------------------------------------------------
(* The theorems                                                            *)

LEMMA InvNext == OMSInv /\ [OMSNext]_omsVars => OMSInv'
<1>. SUFFICES ASSUME OMSInv, [OMSNext]_omsVars PROVE OMSInv'
  OBVIOUS
<1>1. ASSUME NEW r \in Requests, Submit(r) PROVE OMSInv'
  BY <1>1, InvSubmit, RequestsAssumption
<1>2. CASE DeliverFill
  BY <1>2, InvDeliver
<1>3. ASSUME NEW o \in DOMAIN orders, CancelOrder(o), BrokerAlone PROVE OMSInv'
  BY <1>3, InvCancel
<1>4. ASSUME NEW i \in Instruments, NEW price \in Prices, Tick(i, price), BrokerAlone
      PROVE  OMSInv'
  BY <1>4, InvTick
<1>5. ASSUME NEW t \in Ticks, Elapse(t), UNCHANGED <<brokerVars, omsOwn>> PROVE OMSInv'
  BY <1>5, InvElapse
<1>6. CASE UNCHANGED omsVars
  <2>1. UNCHANGED <<orders, pending, positions, fills, streamed, window, daily_realised_pnl,
                    now, registry, oms_positions, sent_at, crowded>>
    BY <1>6 DEF omsVars, brokerVars, riskVars, omsOwn
  <2>2. WindowInv'
    BY <2>1 DEF OMSInv, WindowInv, WindowTyped, WindowCovers, RateCapped, Ascending
  <2>3. DeskTyped' /\ DailyIsSum'
    BY <2>1 DEF OMSInv, DeskTyped, DailyIsSum
  <2>4. BooksInv'
    BY <2>1 DEF OMSInv, BooksInv, InStep, LimitKept, Alone, Done
  <2>. QED  BY <2>2, <2>3, <2>4 DEF OMSInv
<1>. QED
  BY <1>1, <1>2, <1>3, <1>4, <1>5, <1>6 DEF OMSNext

\* OMSInv holds of every state a desk reaches, for any instruments, requests, prices,
\* limits and configuration of the broker.
THEOREM OMSKeepsInv == OMSSpec => []OMSInv
<1>1. OMSInit => OMSInv
  BY InvInit
<1>2. OMSInv /\ [OMSNext]_omsVars => OMSInv'
  BY InvNext
<1>. QED
  BY <1>1, <1>2, PTL DEF OMSSpec

\* What the parts of OMSInv say of the types.
LEMMA DeskTypes ==
  ASSUME DeskTyped, WindowInv, DailyIsSum
  PROVE  OMSTypeOK
<1>1. \A o \in DOMAIN orders : orders[o].status \in OrderStatuses /\ orders[o].filled_qty \in Int
  <2>. TAKE o \in DOMAIN orders
  <2>1. orders[o] \in Ticket
    BY DEF DeskTyped
  <2>. QED  BY <2>1 DEF Ticket
<1>2. /\ registry = DOMAIN orders
      /\ DOMAIN pending \subseteq { o \in registry : orders[o].status # "rejected" }
      /\ streamed \in 0..Len(fills)
  BY DEF DeskTyped
<1>3. /\ \A k \in DOMAIN window : window[k] \in 0..now
      /\ Len(window) <= MaxOrdersPerMinute
  BY DEF WindowInv, WindowTyped
<1>4. daily_realised_pnl \in Int \X (Nat \ {0})
  <2>1. [i \in Instruments |-> oms_positions[i].realised_pnl] \in [Instruments -> Frac]
    BY DEF DeskTyped, Books, Position
  <2>2. SumOfFractions([i \in Instruments |-> oms_positions[i].realised_pnl]) \in Frac
    BY <2>1, SumType, ConfigAssumption
  <2>. QED  BY <2>2 DEF DailyIsSum, Frac
<1>. QED
  BY <1>1, <1>2, <1>3, <1>4 DEF OMSTypeOK

\* The manager's state keeps its shape: every order it made is registered, nothing it
\* refused is with the broker, and the day's profit is a fraction.
THEOREM OMSTypesCorrect == OMSSpec => []OMSTypeOK
<1>1. OMSInv => OMSTypeOK
  BY DeskTypes DEF OMSInv
<1>. QED
  BY <1>1, OMSKeepsInv, PTL

\* Any two orders sent MaxOrdersPerMinute places apart are a minute apart: pruning the
\* window never forgets an order that still counts, however refusals fall between.
THEOREM RateIsCapped == OMSSpec => []RateCapped
<1>1. OMSInv => RateCapped
  BY DEF OMSInv, WindowInv
<1>. QED
  BY <1>1, OMSKeepsInv, PTL

\* Whatever the interleaving of quotes, submissions and deliveries, once the stream of
\* executions is drained the manager's positions are the broker's.
THEOREM ManagerAgreesWithBroker == OMSSpec => []PositionsAgree
<1>1. OMSInv => PositionsAgree
  BY DEF OMSInv, BooksInv, InStep, PositionsAgree
<1>. QED
  BY <1>1, OMSKeepsInv, PTL

\* The size limit holds of the position at the broker as long as orders are sent one at a
\* time, though a partly executed order's filled quantity is counted twice over.
THEOREM SymbolLimitIsKept == OMSSpec => []SymbolLimitHolds
<1>1. OMSInv => SymbolLimitHolds
  BY DEF OMSInv, BooksInv, LimitKept, SymbolLimitHolds
<1>. QED
  BY <1>1, OMSKeepsInv, PTL

-----------------------------------------------------------------------------
(* What was reported, and the kill switch                                  *)

\* Two histories of the same executions are the same.
LEMMA HistoriesAgree ==
  ASSUME NEW g, NEW h, NEW book, NEW n \in Nat, NEW new, NEW more,
         Len(new) \in Nat, Len(more) \in Nat, n <= Len(new), n <= Len(more),
         \A k \in 1..n : more[k] = new[k],
         History(g, book, new), History(h, book, more)
  PROVE  g[n] = h[n]
<1>. DEFINE T == { k \in 0..n : g[k] = h[k] }
<1>1. 0 \in T
  BY DEF History
<1>2. ASSUME NEW k \in 0..(n - 1), k \in T PROVE k + 1 \in T
  <2>1. PICK m \in 1..n : m = k + 1 /\ m - 1 = k
    OBVIOUS
  <2>2. g[m] = Booked(g[k], new[m]) /\ h[m] = Booked(h[k], new[m])
    BY <2>1 DEF History
  <2>. QED
    BY <1>2, <2>1, <2>2
<1>3. n \in T
  <2>. HIDE DEF T
  <2>. QED
    BY <1>1, <1>2, Reaches
<1>. QED
  BY <1>3

\* The books after a list that starts like another, and after one execution more.
LEMMA BooksAfterMore ==
  ASSUME NEW book, NEW new \in Seq(Fill), NEW more \in Seq(Fill),
         \A k \in 1..Len(new) : more[k] = new[k]
  PROVE  /\ Len(more) = Len(new) => BooksAfter(book, more) = BooksAfter(book, new)
         /\ Len(more) = Len(new) + 1 =>
              BooksAfter(book, more) = Booked(BooksAfter(book, new), more[Len(more)])
<1>1. PICK g : History(g, book, new) /\ BooksAfter(book, new) = g[Len(new)]
  BY BooksAfterHistory
<1>2. PICK h : History(h, book, more) /\ BooksAfter(book, more) = h[Len(more)]
  BY BooksAfterHistory
<1>3. PICK n \in Nat : n = Len(new)
  OBVIOUS
<1>4. ASSUME n <= Len(more) PROVE g[n] = h[n]
  <2>1. Len(new) \in Nat /\ Len(more) \in Nat /\ n <= Len(new)
    BY <1>3
  <2>2. \A k \in 1..n : more[k] = new[k]
    BY <1>3
  <2>. QED
    BY <1>1, <1>2, <1>4, <2>1, <2>2, HistoriesAgree
<1>5. Len(more) = n + 1 => h[n + 1] = Booked(h[n], more[n + 1])
  BY <1>2 DEF History
<1>. QED
  BY <1>1, <1>2, <1>3, <1>4, <1>5

\* The manager's positions are those of the executions delivered.
ReportedInv == oms_positions = Reported

LEMMA ReportedInit == OMSInit => ReportedInv
<1>. SUFFICES ASSUME OMSInit PROVE ReportedInv
  OBVIOUS
<1>. DEFINE none == SubSeq(fills, 1, streamed)
            book == [i \in Instruments |-> Flat]
<1>1. Len(none) = 0
  BY DEF OMSInit, SimInit
<1>2. PICK h : History(h, book, none) /\ BooksAfter(book, none) = h[Len(none)]
  <2>. HIDE DEF none, book
  <2>1. Len(none) \in Nat
    BY <1>1
  <2>. QED
    BY <2>1, BooksAfterHistory
<1>3. Reported = h[Len(none)]
  BY <1>2 DEF Reported
<1>. QED
  BY <1>1, <1>2, <1>3 DEF History, ReportedInv, OMSInit

\* What a step leaves of the executions delivered.
LEMMA ReportedSame ==
  ASSUME DeskTyped, ReportedInv, fills' \in Seq(Fill), streamed' = streamed,
         \A k \in 1..Len(fills) : fills'[k] = fills[k], Len(fills) <= Len(fills'),
         oms_positions' = oms_positions
  PROVE  ReportedInv'
<1>. DEFINE new == SubSeq(fills, 1, streamed)
            more == SubSeq(fills', 1, streamed)
<1>1. fills \in Seq(Fill) /\ streamed \in 0..Len(fills)
  BY DEF DeskTyped
<1>2. /\ new \in Seq(Fill) /\ Len(new) = streamed /\ \A k \in 1..streamed : new[k] = fills[k]
      /\ more \in Seq(Fill) /\ Len(more) = streamed /\ \A k \in 1..streamed : more[k] = fills'[k]
  BY <1>1
<1>3. \A k \in 1..Len(new) : more[k] = new[k]
  BY <1>1, <1>2
<1>4. BooksAfter([i \in Instruments |-> Flat], more) = BooksAfter([i \in Instruments |-> Flat], new)
  <2>. HIDE DEF new, more
  <2>. QED
    BY <1>2, <1>3, BooksAfterMore
<1>. QED
  BY <1>4 DEF ReportedInv, Reported

LEMMA ReportedDelivered ==
  ASSUME OMSInv, ReportedInv, DeliverFill
  PROVE  ReportedInv'
<1>. DEFINE new == SubSeq(fills, 1, streamed)
            more == SubSeq(fills, 1, streamed + 1)
<1>1. /\ fills \in Seq(Fill) /\ streamed \in 0..Len(fills) /\ streamed + 1 \in 1..Len(fills)
      /\ fills' = fills /\ streamed' = streamed + 1
      /\ oms_positions' = Booked(oms_positions, fills[streamed + 1])
  BY DEF OMSInv, DeskTyped, DeliverFill, BookFill, PositionsAfterFill, Booked
<1>2. /\ new \in Seq(Fill) /\ Len(new) = streamed /\ \A k \in 1..streamed : new[k] = fills[k]
      /\ more \in Seq(Fill) /\ Len(more) = streamed + 1
      /\ \A k \in 1..(streamed + 1) : more[k] = fills[k]
  BY <1>1
<1>3. \A k \in 1..Len(new) : more[k] = new[k]
  BY <1>1, <1>2
<1>4. BooksAfter([i \in Instruments |-> Flat], more) =
        Booked(BooksAfter([i \in Instruments |-> Flat], new), fills[streamed + 1])
  <2>1. more[Len(more)] = fills[streamed + 1]
    BY <1>1, <1>2
  <2>. HIDE DEF new, more
  <2>. QED
    BY <1>2, <1>3, <2>1, BooksAfterMore
<1>. QED
  BY <1>1, <1>4 DEF ReportedInv, Reported

\* Submitting moves neither positions nor executions.
LEMMA ReportedSubmit ==
  ASSUME OMSInv, ReportedInv, NEW r, Submit(r)
  PROVE  ReportedInv'
BY DEF Submit, ReportedInv, Reported

LEMMA ReportedNext ==
  ASSUME OMSInv, ReportedInv, [OMSNext]_omsVars
  PROVE  ReportedInv'
<1>1. ASSUME NEW r \in Requests, Submit(r) PROVE ReportedInv'
  BY <1>1, ReportedSubmit
<1>2. CASE DeliverFill
  BY <1>2, ReportedDelivered
<1>3. ASSUME NEW o \in DOMAIN orders, CancelOrder(o), BrokerAlone PROVE ReportedInv'
  BY <1>3 DEF CancelOrder, BrokerAlone, omsOwn, ReportedInv, Reported
<1>4. ASSUME NEW i \in Instruments, NEW price \in Prices, Tick(i, price), BrokerAlone
      PROVE  ReportedInv'
  <2>1. PICK hit, new : Emits(i, price, hit, new)
    BY <1>4, TickEmits
  <2>2. DeskTyped /\ oms_positions' = oms_positions
    BY <1>4 DEF OMSInv, BrokerAlone, omsOwn
  <2>3. /\ fills' \in Seq(Fill) /\ Len(fills) <= Len(fills')
        /\ \A k \in 1..Len(fills) : fills'[k] = fills[k]
    <3>1. /\ fills \in Seq(Fill) /\ new \in Seq(Fill) /\ Len(fills') = Len(fills) + Len(new)
          /\ fills' \in Seq(Fill) /\ \A k \in 1..Len(fills) : fills'[k] = fills[k]
      BY <2>1, <2>2, EmittedFills DEF DeskTyped
    <3>. QED
      BY <3>1
  <2>4. streamed' = streamed
    BY <2>1 DEF Emits
  <2>. QED
    BY <2>2, <2>3, <2>4, ReportedSame
<1>5. ASSUME NEW t \in Ticks, Elapse(t), UNCHANGED <<brokerVars, omsOwn>> PROVE ReportedInv'
  BY <1>5 DEF brokerVars, omsOwn, ReportedInv, Reported
<1>6. CASE UNCHANGED omsVars
  BY <1>6 DEF omsVars, brokerVars, omsOwn, ReportedInv, Reported
<1>. QED
  BY <1>1, <1>2, <1>3, <1>4, <1>5, <1>6 DEF OMSNext

\* An order sent finds neither the loss reported nor, with nothing under way, booked.
LEMMA SentBeforeLoss ==
  ASSUME OMSInv, ReportedInv, NEW r, Submit(r), sent_at' # sent_at
  PROVE  ~LossReached(Reported) /\ (LossReached(positions) => streamed < Len(fills))
<1>1. ~KillSwitch
  BY DEF Submit, Refuse, Passes
<1>2. ~LossReached(oms_positions)
  BY <1>1 DEF OMSInv, DailyIsSum, LossReached, KillSwitch
<1>3. streamed = Len(fills) => oms_positions = positions
  BY DEF OMSInv, BooksInv, InStep
<1>4. streamed < Len(fills) \/ streamed = Len(fills)
  BY DEF OMSInv, DeskTyped
<1>. QED
  BY <1>2, <1>3, <1>4 DEF ReportedInv

\* Only a submit sends.
LEMMA OnlySubmitSends ==
  ASSUME [OMSNext]_omsVars, sent_at' # sent_at
  PROVE  \E r : Submit(r)
BY DEF OMSNext, DeliverFill, BrokerAlone, omsOwn, omsVars

\* The kill switch goes by what was reported: no order is sent once the executions delivered
\* come to the loss, and against a loss the broker has booked only while one is on its way.
THEOREM NothingSentAtLoss == OMSSpec => OrdersStopAtLoss
<1>1. OMSInit => ReportedInv
  BY ReportedInit
<1>2. OMSInv /\ ReportedInv /\ [OMSNext]_omsVars => ReportedInv'
  BY ReportedNext
<1>3. OMSInv /\ ReportedInv /\ [OMSNext]_omsVars =>
        [sent_at' # sent_at =>
           /\ ~LossReached(Reported)
           /\ LossReached(positions) => streamed < Len(fills)]_omsVars
  BY OnlySubmitSends, SentBeforeLoss
<1>. QED
  BY <1>1, <1>2, <1>3, OMSKeepsInv, PTL DEF OMSSpec, OrdersStopAtLoss

=============================================================================
