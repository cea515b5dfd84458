---------------------------- MODULE LedgerProofs ----------------------------
(***************************************************************************)
(* Lemmas about the books that the broker, the order manager and the       *)
(* portfolio keep: induction, sums, fractions, what an execution does to a *)
(* position, and how the ledgers reconcile.  Checked by TLAPS.             *)
(***************************************************************************)
EXTENDS SimBroker, FiniteSetTheorems, SequenceTheorems, WellFoundedInduction, TLAPS

-----------------------------------------------------------------------------
(* Induction, stated over sets                                             *)

\* A set of natural numbers that is not empty has a least element.
LEMMA LeastNumber ==
  ASSUME NEW T, T \subseteq Nat, T # {}
  PROVE  \E n \in T : \A m \in T : n <= m
<1>1. IsWellFoundedOn(OpToRel(<, Nat), Nat)
  BY NatLessThanWellFounded
<1>2. PICK n \in T : \A m \in T : ~ (<<m, n>> \in OpToRel(<, Nat))
  BY <1>1, WFMin
<1>3. \A m \in T : ~ (m < n)
  BY <1>2 DEF OpToRel
<1>. QED
  BY <1>3

\* A set of natural numbers that holds 0 and every successor within n holds n.
LEMMA Reaches ==
  ASSUME NEW n \in Nat, NEW T, 0 \in T,
         \A k \in 0..(n - 1) : k \in T => k + 1 \in T
  PROVE  n \in T
<1>. SUFFICES ASSUME n \notin T PROVE FALSE
  OBVIOUS
<1>. DEFINE missing == { k \in 0..n : k \notin T }
<1>1. missing \subseteq Nat /\ missing # {}
  OBVIOUS
<1>2. PICK m \in missing : \A k \in missing : m <= k
  <2>. HIDE DEF missing
  <2>. QED  BY <1>1, LeastNumber
<1>3. m \in 1..n
  BY <1>2
<1>4. m - 1 \in T
  BY <1>2, <1>3
<1>. QED
  BY <1>2, <1>3, <1>4

\* Every number up to n is in such a set.
LEMMA ReachesAll ==
  ASSUME NEW n \in Nat, NEW T, 0 \in T,
         \A k \in 0..(n - 1) : k \in T => k + 1 \in T
  PROVE  \A k \in 0..n : k \in T
<1>. TAKE k \in 0..n
<1>1. \A j \in 0..(k - 1) : j \in T => j + 1 \in T
  OBVIOUS
<1>. QED
  BY <1>1, Reaches

-----------------------------------------------------------------------------
(* Fractions                                                               *)

Frac == Int \X (Nat \ {0})

(* What a fraction is worth: f is num/den, whatever its own terms.         *)
Is(f, num, den) == f[1] * den = num * f[2]

LEMMA Cancels ==
  ASSUME NEW a \in Int, NEW b \in Int, NEW c \in Nat \ {0}, a * c = b * c
  PROVE  a = b
<1>1. (a - b) * c = 0
  OBVIOUS
<1>2. a - b \in Int
  OBVIOUS
<1>3. PICK d \in Int : d = a - b
  BY <1>2
<1>4. d * c = 0
  BY <1>1, <1>3
<1>5. ~(d > 0) /\ ~(d < 0)
  BY <1>4
<1>. QED
  BY <1>3, <1>5

LEMMA Regrouped ==
  ASSUME NEW a \in Int, NEW b \in Int, NEW c \in Int
  PROVE  a * (b * c) = (a * c) * b /\ (a * b) * c = a * (b * c)
OBVIOUS

LEMMA ProductPositive ==
  ASSUME NEW a \in Nat \ {0}, NEW b \in Nat \ {0}
  PROVE  a * b \in Nat \ {0}
<1>1. a * b > 0 /\ a * b \in Int
  OBVIOUS
<1>. QED
  BY <1>1

\* The largest divisor d that Fraction takes out of both terms, and what is left of them.
Divided(num, den, d, a, b) ==
  /\ d \in Nat \ {0} /\ a \in Int /\ b \in Nat \ {0}
  /\ Fraction(num, den) = <<a, b>> /\ num = d * a /\ den = d * b
  /\ num % den = 0 => d = den

LEMMA CommonDivisor ==
  ASSUME NEW num \in Int, NEW den \in Nat \ {0}
  PROVE  \E d, a, b : Divided(num, den, d, a, b)
<1>. DEFINE Divides(d) == num % d = 0 /\ den % d = 0
            Largest(d) == /\ num % d = 0 /\ den % d = 0
                          /\ \A e \in (d + 1)..den : num % e # 0 \/ den % e # 0
            common == CHOOSE d \in 1..den : Largest(d)
            T == { n \in 0..den : n < den /\ Divides(den - n) }
<1>1. \E d \in 1..den : Largest(d)
  <2>1. num % 1 = 0 /\ den % 1 = 0
    OBVIOUS
  <2>2. den - 1 \in T
    BY <2>1
  <2>3. T \subseteq Nat /\ T # {}
    <3>1. T \subseteq Nat
      <4>. HIDE DEF Divides
      <4>. QED  OBVIOUS
    <3>. HIDE DEF T
    <3>. QED  BY <2>2, <3>1
  <2>4. PICK n \in T : \A m \in T : n <= m
    <3>. HIDE DEF T
    <3>. QED  BY <2>3, LeastNumber
  <2>5. ASSUME NEW e \in (den - n + 1)..den PROVE ~Divides(e)
    <3>1. den - e \in 0..den /\ den - e < den /\ ~(n <= den - e) /\ den - (den - e) = e
      BY <2>4
    <3>2. den - e \notin T
      BY <2>4, <3>1
    <3>. QED
      <4>. HIDE DEF Divides
      <4>. QED  BY <3>1, <3>2
  <2>6. den - n \in 1..den /\ Divides(den - n)
    BY <2>4
  <2>. QED  BY <2>5, <2>6
<1>2. common \in 1..den /\ Largest(common)
  <2>. HIDE DEF Largest
  <2>. QED  BY <1>1
<1>3. Fraction(num, den) = <<num \div common, den \div common>>
  BY DEF Fraction
<1>4. num % den = 0 => common = den
  <2>. SUFFICES ASSUME num % den = 0, common # den PROVE FALSE
    OBVIOUS
  <2>1. den \in (common + 1)..den /\ den % den = 0
    <3>. HIDE DEF common
    <3>. QED  BY <1>2
  <2>. QED
    <3>. HIDE DEF common
    <3>. QED  BY <1>2, <2>1
<1>. HIDE DEF common
<1>5. common \in Nat \ {0} /\ num % common = 0 /\ den % common = 0
  BY <1>2
<1>6. num = common * (num \div common) /\ num \div common \in Int
  BY <1>5
<1>7. den = common * (den \div common) /\ den \div common \in Int
  BY <1>5
<1>8. den \div common \in Nat \ {0}
  <2>1. ~ (den \div common <= 0)
    BY <1>5, <1>7
  <2>. QED  BY <1>7, <2>1
<1>. QED
  BY <1>3, <1>4, <1>5, <1>6, <1>7, <1>8 DEF Divided

LEMMA FractionType ==
  ASSUME NEW num \in Int, NEW den \in Nat \ {0}
  PROVE  Fraction(num, den) \in Frac
<1>1. PICK d, a, b : Divided(num, den, d, a, b)
  BY CommonDivisor
<1>. QED
  BY <1>1 DEF Divided, Frac

\* Fraction keeps the value.
LEMMA FractionIs ==
  ASSUME NEW num \in Int, NEW den \in Nat \ {0}
  PROVE  Is(Fraction(num, den), num, den)
<1>1. PICK d, a, b : Divided(num, den, d, a, b)
  BY CommonDivisor
<1>2. d \in Int /\ a \in Int /\ b \in Int
  BY <1>1 DEF Divided
<1>3. a * (d * b) = (d * a) * b
  BY <1>2
<1>. QED
  BY <1>1, <1>3 DEF Is, Divided

LEMMA WholeType ==
  ASSUME NEW n \in Int
  PROVE  Whole(n) \in Frac
BY DEF Whole, Frac

LEMMA PlusType ==
  ASSUME NEW a \in Frac, NEW b \in Frac
  PROVE  Plus(a, b) \in Frac
<1>1. /\ a[1] * b[2] + b[1] * a[2] \in Int
      /\ a[2] * b[2] \in Nat \ {0}
  <2>1. a[1] \in Int /\ b[1] \in Int /\ a[2] \in Nat \ {0} /\ b[2] \in Nat \ {0}
    BY DEF Frac
  <2>2. a[2] * b[2] > 0 /\ a[2] * b[2] \in Int
    BY <2>1
  <2>. QED  BY <2>1, <2>2
<1>. QED
  BY <1>1, FractionType DEF Plus

LEMMA TimesType ==
  ASSUME NEW k \in Int, NEW a \in Frac
  PROVE  Times(k, a) \in Frac
<1>1. k * a[1] \in Int /\ a[2] \in Nat \ {0}
  BY DEF Frac
<1>. QED
  BY <1>1, FractionType DEF Times

\* The value of a fraction does not depend on the denominator it is told over.
LEMMA IsScaled ==
  ASSUME NEW f \in Frac, NEW num \in Int, NEW den \in Nat \ {0}, NEW c \in Nat \ {0},
         Is(f, num, den)
  PROVE  Is(f, num * c, den * c)
<1>1. PICK a \in Int, b \in Int : a = f[1] /\ b = f[2]
  BY DEF Frac
<1>2. a * den = num * b
  BY <1>1 DEF Is
<1>3. (a * den) * c = (num * b) * c
  BY <1>2
<1>4. a * (den * c) = (num * c) * b
  BY <1>3
<1>. QED
  BY <1>1, <1>4 DEF Is

LEMMA IsReduced ==
  ASSUME NEW f \in Frac, NEW num \in Int, NEW den \in Nat \ {0}, NEW c \in Nat \ {0},
         Is(f, num * c, den * c)
  PROVE  Is(f, num, den)
<1>1. PICK a \in Int, b \in Int : a = f[1] /\ b = f[2]
  BY DEF Frac
<1>2. a * (den * c) = (num * c) * b
  BY <1>1 DEF Is
<1>3. (a * den) * c = (num * b) * c
  BY <1>2
<1>4. a * den = num * b
  <2>1. a * den \in Int /\ num * b \in Int
    OBVIOUS
  <2>. QED  BY <1>3, <2>1, Cancels
<1>. QED
  BY <1>1, <1>4 DEF Is

LEMMA WholeIs ==
  ASSUME NEW n \in Int, NEW den \in Nat \ {0}
  PROVE  Is(Whole(n), n * den, den)
BY DEF Is, Whole

\* What two fractions are worth together over a common denominator.
LEMMA PlusIs ==
  ASSUME NEW a \in Frac, NEW b \in Frac, NEW A \in Int, NEW B \in Int,
         NEW D \in Nat \ {0}, Is(a, A, D), Is(b, B, D)
  PROVE  Is(Plus(a, b), A + B, D)
<1>1. PICK p \in Int, q \in Nat \ {0}, r \in Int, s \in Nat \ {0} :
        p = a[1] /\ q = a[2] /\ r = b[1] /\ s = b[2]
  BY DEF Frac
<1>2. p * D = A * q /\ r * D = B * s
  BY <1>1 DEF Is
<1>3. PICK n \in Int, m \in Nat \ {0} : n = p * s + r * q /\ m = q * s
  <2>1. p * s + r * q \in Int /\ q * s \in Nat \ {0}
    BY ProductPositive
  <2>. QED  BY <2>1
<1>4. Plus(a, b) = Fraction(n, m)
  BY <1>1, <1>3 DEF Plus
<1>5. PICK x \in Int, y \in Int : x = Plus(a, b)[1] /\ y = Plus(a, b)[2]
  BY PlusType DEF Frac
<1>6. x * m = n * y
  BY <1>4, <1>5, FractionIs DEF Is
<1>7. n * D = (A + B) * m
  <2>1. n * D = (p * D) * s + (r * D) * q
    BY <1>3
  <2>2. (p * D) * s + (r * D) * q = (A * q) * s + (B * s) * q
    BY <1>2
  <2>3. (A * q) * s + (B * s) * q = (A + B) * (q * s)
    OBVIOUS
  <2>. QED  BY <1>3, <2>1, <2>2, <2>3
<1>8. (x * D) * m = ((A + B) * y) * m
  <2>1. (x * D) * m = (x * m) * D
    OBVIOUS
  <2>2. (x * m) * D = (n * y) * D
    BY <1>6
  <2>3. (n * y) * D = (n * D) * y
    OBVIOUS
  <2>4. (n * D) * y = ((A + B) * m) * y
    BY <1>7
  <2>5. ((A + B) * m) * y = ((A + B) * y) * m
    OBVIOUS
  <2>. QED  BY <2>1, <2>2, <2>3, <2>4, <2>5
<1>9. x * D = (A + B) * y
  <2>1. x * D \in Int /\ (A + B) * y \in Int
    OBVIOUS
  <2>. QED  BY <1>8, <2>1, Cancels
<1>. QED
  BY <1>5, <1>9 DEF Is

LEMMA TimesIs ==
  ASSUME NEW k \in Int, NEW a \in Frac, NEW A \in Int, NEW D \in Nat \ {0}, Is(a, A, D)
  PROVE  Is(Times(k, a), k * A, D)
<1>1. PICK p \in Int, q \in Nat \ {0} : p = a[1] /\ q = a[2]
  BY DEF Frac
<1>2. p * D = A * q
  BY <1>1 DEF Is
<1>3. PICK n \in Int : n = k * p
  OBVIOUS
<1>4. Times(k, a) = Fraction(n, q)
  BY <1>1, <1>3 DEF Times
<1>5. PICK x \in Int, y \in Int : x = Times(k, a)[1] /\ y = Times(k, a)[2]
  BY TimesType DEF Frac
<1>6. x * q = n * y
  BY <1>4, <1>5, FractionIs DEF Is
<1>7. (x * D) * q = ((k * A) * y) * q
  <2>1. (x * D) * q = (x * q) * D
    OBVIOUS
  <2>2. (x * q) * D = ((k * p) * y) * D
    BY <1>3, <1>6
  <2>3. ((k * p) * y) * D = (p * D) * (k * y)
    OBVIOUS
  <2>4. (p * D) * (k * y) = (A * q) * (k * y)
    BY <1>2
  <2>5. (A * q) * (k * y) = ((k * A) * y) * q
    OBVIOUS
  <2>. QED  BY <2>1, <2>2, <2>3, <2>4, <2>5
<1>8. x * D = (k * A) * y
  <2>1. x * D \in Int /\ (k * A) * y \in Int
    OBVIOUS
  <2>. QED  BY <1>7, <2>1, Cancels
<1>. QED
  BY <1>5, <1>8 DEF Is

\* A whole number comes out of Fraction as itself over one.
LEMMA FractionWhole ==
  ASSUME NEW num \in Int, NEW den \in Nat \ {0}, NEW w \in Int, num = w * den
  PROVE  Fraction(num, den) = Whole(w)
<1>1. num % den = 0
  OBVIOUS
<1>2. PICK a \in Int, b \in Nat \ {0} :
        Fraction(num, den) = <<a, b>> /\ num = den * a /\ den = den * b
  <2>1. PICK d, a, b : Divided(num, den, d, a, b)
    BY CommonDivisor
  <2>. QED  BY <1>1, <2>1 DEF Divided
<1>3. a = w
  BY <1>2, Cancels
<1>4. b = 1
  <2>1. b * den = 1 * den
    BY <1>2
  <2>. QED  BY <2>1, Cancels
<1>. QED
  BY <1>2, <1>3, <1>4 DEF Whole

\* So equal sums are equal pairs: one worth w over D is the pair <<w, 1>>.
LEMMA PlusWhole ==
  ASSUME NEW a \in Frac, NEW b \in Frac, NEW A \in Int, NEW B \in Int,
         NEW D \in Nat \ {0}, NEW w \in Int, Is(a, A, D), Is(b, B, D), A + B = w * D
  PROVE  Plus(a, b) = Whole(w)
<1>1. PICK p \in Int, q \in Nat \ {0}, r \in Int, s \in Nat \ {0} :
        p = a[1] /\ q = a[2] /\ r = b[1] /\ s = b[2]
  BY DEF Frac
<1>2. p * D = A * q /\ r * D = B * s
  BY <1>1 DEF Is
<1>3. PICK n \in Int, m \in Nat \ {0} : n = p * s + r * q /\ m = q * s
  <2>1. p * s + r * q \in Int /\ q * s \in Nat \ {0}
    BY ProductPositive
  <2>. QED  BY <2>1
<1>4. Plus(a, b) = Fraction(n, m)
  BY <1>1, <1>3 DEF Plus
<1>5. n * D = (w * m) * D
  <2>1. n * D = (p * D) * s + (r * D) * q
    BY <1>3
  <2>2. (p * D) * s + (r * D) * q = (A * q) * s + (B * s) * q
    BY <1>2
  <2>3. (A * q) * s + (B * s) * q = (A + B) * (q * s)
    OBVIOUS
  <2>4. (A + B) * (q * s) = (w * D) * m
    BY <1>3
  <2>5. (w * D) * m = (w * m) * D
    OBVIOUS
  <2>. QED  BY <2>1, <2>2, <2>3, <2>4, <2>5
<1>6. n = w * m
  <2>1. w * m \in Int
    OBVIOUS
  <2>. QED  BY <1>5, <2>1, Cancels
<1>. QED
  BY <1>4, <1>6, FractionWhole

-----------------------------------------------------------------------------
(* Booking executions on positions                                         *)

Fill ==
  [order_id : Nat, instrument : Instruments, side : Sides, qty : Int, price : Int,
   fees : Int]

Position == [qty : Int, avg_price : Frac, realised_pnl : Frac]

LEMMA SignedQtyType ==
  ASSUME NEW fill \in Fill
  PROVE  SignedQty(fill) \in Int
BY DEF Fill, Sides, SignedQty

LEMMA MagnitudeType ==
  ASSUME NEW n \in Int
  PROVE  Magnitude(n) \in Nat /\ (n # 0 => Magnitude(n) \in Nat \ {0})
BY DEF Magnitude

LEMMA FlatType == Flat \in Position
BY WholeType DEF Flat, Position

\* Whatever branch an execution takes, the quantity held changes by what was executed.
LEMMA ApplyType ==
  ASSUME NEW pos \in Position, NEW fill \in Fill
  PROVE  /\ Apply(pos, fill) \in Position
         /\ Apply(pos, fill).qty = pos.qty + SignedQty(fill)
<1>1. PICK signed \in Int : signed = SignedQty(fill)
  BY SignedQtyType
<1>2. PICK held \in Int : held = pos.qty + signed
  BY DEF Position
<1>3. pos.qty \in Int /\ pos.avg_price \in Frac /\ pos.realised_pnl \in Frac
  BY DEF Position
<1>4. Magnitude(pos.qty) \in Nat /\ Magnitude(signed) \in Nat /\ Magnitude(held) \in Nat
      /\ (held # 0 => Magnitude(held) \in Nat \ {0})
  BY <1>3, MagnitudeType
<1>5. fill.price \in Int /\ Whole(fill.price) \in Frac /\ Whole(0) \in Frac
  BY WholeType DEF Fill
<1>6. Added(pos, fill) \in Position /\ Added(pos, fill).qty = held
  <2>1. fill.price * Magnitude(signed) \in Int
    BY <1>4, <1>5
  <2>2. PICK total \in Frac : total = Plus(Times(Magnitude(pos.qty), pos.avg_price),
                                           Whole(fill.price * Magnitude(signed)))
    BY <1>3, <1>4, <2>1, WholeType, TimesType, PlusType
  <2>3. PICK average : average = IF held = 0 THEN Whole(0)
                                 ELSE Fraction(total[1], total[2] * Magnitude(held))
    OBVIOUS
  <2>4. average \in Frac
    <3>1. CASE held = 0
      BY <1>5, <2>3, <3>1
    <3>2. CASE held # 0
      <4>1. total[1] \in Int /\ total[2] \in Nat \ {0} /\ Magnitude(held) \in Nat \ {0}
        BY <1>4, <3>2 DEF Frac
      <4>2. total[2] * Magnitude(held) \in Nat \ {0}
        <5>1. PICK a \in Nat \ {0}, b \in Nat \ {0} : a = total[2] /\ b = Magnitude(held)
          BY <4>1
        <5>2. a * b \in Int /\ a * b > 0
          OBVIOUS
        <5>. QED  BY <5>1, <5>2
      <4>. QED  BY <2>3, <3>2, <4>1, <4>2, FractionType
    <3>. QED  BY <3>1, <3>2
  <2>5. Added(pos, fill) = [pos EXCEPT !.qty = held, !.avg_price = average]
    BY <1>1, <1>2, <2>2, <2>3 DEF Added
  <2>. QED  BY <2>4, <2>5 DEF Position
<1>7. Reduced(pos, fill) \in Position /\ Reduced(pos, fill).qty = held
  <2>1. PICK closing \in Nat : closing = Least(Magnitude(signed), Magnitude(pos.qty))
    BY <1>4 DEF Least
  <2>2. PICK direction \in Int : direction = IF pos.qty > 0 THEN 1 ELSE -1
    OBVIOUS
  <2>3. direction * closing \in Int
    OBVIOUS
  <2>4. PICK gain \in Frac : gain = Times(direction * closing,
                                          Plus(Whole(fill.price), Times(-1, pos.avg_price)))
    BY <1>3, <1>5, <2>3, TimesType, PlusType
  <2>5. PICK average \in Frac : average = IF held = 0 THEN Whole(0)
                   ELSE IF (held > 0) # (pos.qty > 0) THEN Whole(fill.price)
                   ELSE pos.avg_price
    BY <1>3, <1>5
  <2>6. Reduced(pos, fill) = [qty |-> held, avg_price |-> average,
                              realised_pnl |-> Plus(pos.realised_pnl, gain)]
    BY <1>1, <1>2, <2>1, <2>2, <2>4, <2>5 DEF Reduced
  <2>. QED  BY <1>3, <2>6, PlusType DEF Position
<1>. QED
  BY <1>1, <1>2, <1>6, <1>7 DEF Apply

\* What a position has earned: profit realised less the cost of what is held is w.
EarnedOver(pos, w, D, A, C) ==
  /\ D \in Nat \ {0} /\ A \in Int /\ C \in Int
  /\ Is(pos.realised_pnl, A, D) /\ Is(pos.avg_price, C, D)
  /\ A - pos.qty * C = w * D

HasEarned(pos, w) == \E D, A, C : EarnedOver(pos, w, D, A, C)

LEMMA FlatSettles == HasEarned(Flat, 0)
<1>1. EarnedOver(Flat, 0, 1, 0, 0)
  BY DEF EarnedOver, Is, Flat, Whole
<1>. QED
  BY <1>1 DEF HasEarned

\* Adding to a position: the average moves so that what is held costs what was paid.
LEMMA AddedSettles ==
  ASSUME NEW pos \in Position, NEW fill \in Fill, NEW w \in Int, HasEarned(pos, w),
         Extends(pos, SignedQty(fill))
  PROVE  HasEarned(Added(pos, fill), w + (-SignedQty(fill) * fill.price))
<1>1. PICK D \in Nat \ {0}, A \in Int, C \in Int : EarnedOver(pos, w, D, A, C)
  BY DEF HasEarned, EarnedOver
<1>2. PICK q \in Int, s \in Int, p \in Int :
        q = pos.qty /\ s = SignedQty(fill) /\ p = fill.price
  BY SignedQtyType DEF Position, Fill
<1>3. PICK h \in Int : h = q + s
  OBVIOUS
<1>4. pos.avg_price \in Frac /\ pos.realised_pnl \in Frac
  BY DEF Position
<1>5. A - q * C = w * D /\ Is(pos.realised_pnl, A, D) /\ Is(pos.avg_price, C, D)
  BY <1>1, <1>2 DEF EarnedOver
<1>6. PICK mq \in Nat, ms \in Nat, mh \in Nat :
        mq = Magnitude(q) /\ ms = Magnitude(s) /\ mh = Magnitude(h)
  BY MagnitudeType
<1>7. PICK paid \in Int : paid = p * ms
  <2>1. p * ms \in Int
    OBVIOUS
  <2>. QED  BY <2>1
<1>8. PICK total \in Frac : total = Plus(Times(mq, pos.avg_price), Whole(paid))
  <2>1. Times(mq, pos.avg_price) \in Frac /\ Whole(paid) \in Frac
    BY <1>4, WholeType, TimesType
  <2>. QED  BY <2>1, PlusType
<1>9. PICK average : average = IF h = 0 THEN Whole(0) ELSE Fraction(total[1], total[2] * mh)
  OBVIOUS
<1>10. Added(pos, fill) = [pos EXCEPT !.qty = h, !.avg_price = average]
  BY <1>2, <1>3, <1>6, <1>7, <1>8, <1>9 DEF Added
<1>11. PICK after : /\ after = Added(pos, fill) /\ after.qty = h /\ after.avg_price = average
                    /\ after.realised_pnl = pos.realised_pnl
  <2>1. /\ Added(pos, fill).qty = h /\ Added(pos, fill).avg_price = average
        /\ Added(pos, fill).realised_pnl = pos.realised_pnl
    BY <1>10 DEF Position
  <2>. QED  BY <2>1
<1>12. PICK T \in Int : T = mq * C + paid * D
  <2>1. mq * C \in Int /\ paid * D \in Int
    OBVIOUS
  <2>. QED  BY <2>1
<1>13. Is(total, T, D)
  <2>1. Is(Times(mq, pos.avg_price), mq * C, D) /\ mq * C \in Int
    BY <1>4, <1>5, TimesIs
  <2>2. Is(Whole(paid), paid * D, D) /\ paid * D \in Int
    BY WholeIs
  <2>3. Times(mq, pos.avg_price) \in Frac /\ Whole(paid) \in Frac
    BY <1>4, TimesType, WholeType
  <2>. QED  BY <1>8, <1>12, <2>1, <2>2, <2>3, PlusIs
<1>14. w + (-s * p) \in Int
  OBVIOUS
<1>15. PICK v \in Int : v = w + (-s * p)
  BY <1>14
<1>16. CASE h = 0
  <2>1. q = 0 /\ s = 0
    <3>1. q = 0 \/ (q > 0) = (s > 0)
      BY <1>2 DEF Extends
    <3>. QED  BY <1>3, <1>16, <3>1
  <2>2. v = w /\ A = w * D
    BY <1>5, <1>15, <2>1
  <2>3. Is(Whole(0), 0, D)
    BY DEF Is, Whole
  <2>4. EarnedOver(after, v, D, A, 0)
    BY <1>5, <1>9, <1>11, <1>16, <2>2, <2>3 DEF EarnedOver
  <2>. QED  BY <1>2, <1>11, <1>15, <2>4 DEF HasEarned
<1>17. CASE h # 0
  <2>1. mh \in Nat \ {0}
    BY <1>6, <1>17, MagnitudeType
  <2>2. PICK n \in Int, m \in Nat \ {0} : n = total[1] /\ m = total[2]
    BY DEF Frac
  <2>3. n * D = T * m
    BY <1>13, <2>2 DEF Is
  <2>4. m * mh \in Nat \ {0}
    BY <2>1, ProductPositive
  <2>5. average \in Frac /\ Is(average, n, m * mh)
    BY <1>9, <1>17, <2>2, <2>4, FractionType, FractionIs
  <2>6. PICK E \in Nat \ {0} : E = D * mh
    BY <2>1, ProductPositive
  <2>7. Is(average, T, E)
    <3>1. Is(average, n * D, (m * mh) * D)
      BY <2>4, <2>5, IsScaled
    <3>2. n * D = T * m /\ (m * mh) * D = E * m
      BY <2>3, <2>6
    <3>. QED  BY <2>5, <3>1, <3>2, IsReduced
  <2>8. Is(pos.realised_pnl, A * mh, E) /\ A * mh \in Int
    <3>1. Is(pos.realised_pnl, A * mh, D * mh)
      BY <1>4, <1>5, <2>1, IsScaled
    <3>2. A * mh \in Int
      OBVIOUS
    <3>. QED  BY <2>6, <3>1, <3>2
  <2>9. h * mq = mh * q /\ h * ms = mh * s
    <3>1. q = 0 \/ (q > 0) = (s > 0)
      BY <1>2 DEF Extends
    <3>2. CASE q = 0
      <4>1. h = s /\ mq = 0 /\ ms = mh
        BY <1>3, <1>6, <3>2 DEF Magnitude
      <4>2. h * ms = mh * s
        BY <4>1
      <4>. QED  BY <3>2, <4>1, <4>2
    <3>3. CASE q > 0
      <4>1. mq = q /\ ms = s /\ mh = h
        BY <1>3, <1>6, <3>1, <3>3 DEF Magnitude
      <4>. QED  BY <4>1
    <3>4. CASE q < 0
      <4>1. mq = -q /\ ms = -s /\ mh = -h
        BY <1>3, <1>6, <3>1, <3>4 DEF Magnitude
      <4>2. h * (-q) = (-h) * q /\ h * (-s) = (-h) * s
        OBVIOUS
      <4>. QED  BY <4>1, <4>2
    <3>5. q = 0 \/ q > 0 \/ q < 0
      OBVIOUS
    <3>. QED  BY <3>2, <3>3, <3>4, <3>5
  <2>10. A * mh - h * T = v * E
    <3>1. h * T = (h * mq) * C + ((h * ms) * p) * D
      <4>1. PICK x \in Int, y \in Int : x = mq * C /\ y = paid * D
        <5>1. mq * C \in Int /\ paid * D \in Int
          OBVIOUS
        <5>. QED  BY <5>1
      <4>2. h * T = h * x + h * y
        BY <1>12, <4>1
      <4>3. h * x = (h * mq) * C
        BY <4>1
      <4>4. h * y = (h * (p * ms)) * D
        <5>1. h * (paid * D) = (h * paid) * D
          BY Regrouped
        <5>. QED  BY <1>7, <4>1, <5>1
      <4>5. h * (p * ms) = (h * ms) * p
        <5>1. ms \in Int
          OBVIOUS
        <5>. QED  BY <5>1, Regrouped
      <4>. QED  BY <4>2, <4>3, <4>4, <4>5
    <3>2. (h * mq) * C + ((h * ms) * p) * D = (mh * q) * C + ((mh * s) * p) * D
      BY <2>9
    <3>3. A * mh - h * T = (A - q * C) * mh - ((mh * s) * p) * D
      <4>1. A * mh - ((mh * q) * C + ((mh * s) * p) * D)
              = (A - q * C) * mh - ((mh * s) * p) * D
        OBVIOUS
      <4>. QED  BY <3>1, <3>2, <4>1
    <3>4. (A - q * C) * mh = (w * D) * mh
      BY <1>5
    <3>5. (w * D) * mh - ((mh * s) * p) * D = (w + (-s * p)) * (D * mh)
      OBVIOUS
    <3>6. (w + (-s * p)) * (D * mh) = v * E
      BY <1>15, <2>6
    <3>. QED  BY <3>3, <3>4, <3>5, <3>6
  <2>11. EarnedOver(after, v, E, A * mh, T)
    BY <1>9, <1>11, <2>6, <2>7, <2>8, <2>10 DEF EarnedOver
  <2>. QED  BY <1>2, <1>11, <1>15, <2>11 DEF HasEarned
<1>. QED
  BY <1>16, <1>17

\* Reducing, closing and flipping: the profit is realised on the closed part alone.
LEMMA ReducedSettles ==
  ASSUME NEW pos \in Position, NEW fill \in Fill, NEW w \in Int, HasEarned(pos, w),
         ~Extends(pos, SignedQty(fill))
  PROVE  HasEarned(Reduced(pos, fill), w + (-SignedQty(fill) * fill.price))
<1>1. PICK D \in Nat \ {0}, A \in Int, C \in Int : EarnedOver(pos, w, D, A, C)
  BY DEF HasEarned, EarnedOver
<1>2. PICK q \in Int, s \in Int, p \in Int :
        q = pos.qty /\ s = SignedQty(fill) /\ p = fill.price
  BY SignedQtyType DEF Position, Fill
<1>3. PICK h \in Int : h = q + s
  OBVIOUS
<1>4. pos.avg_price \in Frac /\ pos.realised_pnl \in Frac
  BY DEF Position
<1>5. A - q * C = w * D /\ Is(pos.realised_pnl, A, D) /\ Is(pos.avg_price, C, D)
  BY <1>1, <1>2 DEF EarnedOver
<1>6. q # 0 /\ (q > 0) # (s > 0)
  BY <1>2 DEF Extends
<1>7. PICK c \in Int :
        c = (IF q > 0 THEN 1 ELSE -1) * Least(Magnitude(s), Magnitude(q))
  <2>1. Least(Magnitude(s), Magnitude(q)) \in Int
    BY DEF Magnitude, Least
  <2>. QED  BY <2>1
<1>8. PICK average : average = IF h = 0 THEN Whole(0)
                               ELSE IF (h > 0) # (q > 0) THEN Whole(p) ELSE pos.avg_price
  OBVIOUS
<1>9. PICK gain : gain = Times(c, Plus(Whole(p), Times(-1, pos.avg_price)))
  OBVIOUS
<1>10. PICK after : /\ after = Reduced(pos, fill) /\ after.qty = h
                    /\ after.avg_price = average
                    /\ after.realised_pnl = Plus(pos.realised_pnl, gain)
  <2>1. Reduced(pos, fill) = [qty |-> h, avg_price |-> average,
                              realised_pnl |-> Plus(pos.realised_pnl, gain)]
    BY <1>2, <1>3, <1>7, <1>8, <1>9 DEF Reduced
  <2>. QED  BY <2>1
<1>11. PICK G \in Int : G = c * (p * D + (-1) * C)
  OBVIOUS
<1>12. gain \in Frac /\ Is(gain, G, D)
  <2>1. Times(-1, pos.avg_price) \in Frac /\ Is(Times(-1, pos.avg_price), (-1) * C, D)
    <3>1. PICK minus \in Int : minus = -1
      OBVIOUS
    <3>2. Times(minus, pos.avg_price) \in Frac /\ Is(Times(minus, pos.avg_price), minus * C, D)
      BY <1>4, <1>5, TimesType, TimesIs
    <3>. QED  BY <3>1, <3>2
  <2>2. Whole(p) \in Frac /\ Is(Whole(p), p * D, D)
    BY WholeType, WholeIs
  <2>3. p * D \in Int /\ (-1) * C \in Int /\ p * D + (-1) * C \in Int
    OBVIOUS
  <2>4. PICK price : price = Plus(Whole(p), Times(-1, pos.avg_price))
    OBVIOUS
  <2>5. price \in Frac /\ Is(price, p * D + (-1) * C, D)
    BY <2>1, <2>2, <2>3, <2>4, PlusType, PlusIs
  <2>. QED  BY <1>9, <1>11, <2>3, <2>4, <2>5, TimesType, TimesIs
<1>13. Is(after.realised_pnl, A + G, D)
  BY <1>4, <1>5, <1>10, <1>12, PlusIs
<1>14. PICK v \in Int : v = w + (-s * p)
  <2>1. w + (-s * p) \in Int
    OBVIOUS
  <2>. QED  BY <2>1
<1>15. ASSUME NEW K \in Int, Is(average, K, D), A + G - h * K = v * D
       PROVE  HasEarned(after, v)
  <2>1. EarnedOver(after, v, D, A + G, K)
    BY <1>10, <1>13, <1>15 DEF EarnedOver
  <2>. QED  BY <2>1 DEF HasEarned
<1>16. G = (c * p) * D - c * C
  BY <1>11
<1>17. v * D = w * D - (s * p) * D
  BY <1>14
<1>18. CASE h = 0
  <2>1. c = q /\ q = -s
    BY <1>3, <1>6, <1>7, <1>18 DEF Magnitude, Least
  <2>2. Is(average, 0, D)
    BY <1>8, <1>18 DEF Is, Whole
  <2>3. (c * p) * D = -((s * p) * D) /\ c * C = q * C
    <3>1. (-s * p) * D = -((s * p) * D)
      OBVIOUS
    <3>. QED  BY <2>1, <3>1
  <2>4. A + G - h * 0 = v * D
    BY <1>5, <1>16, <1>17, <1>18, <2>3
  <2>. QED  BY <1>2, <1>10, <1>14, <1>15, <2>2, <2>4
<1>19. CASE h # 0 /\ (h > 0) # (q > 0)
  <2>1. c = q
    BY <1>3, <1>6, <1>7, <1>19 DEF Magnitude, Least
  <2>2. Is(average, p * D, D) /\ p * D \in Int
    BY <1>8, <1>19, WholeIs
  <2>3. h * (p * D) = (c * p) * D + (s * p) * D /\ c * C = q * C
    <3>1. (q + s) * (p * D) = (q * p) * D + (s * p) * D
      OBVIOUS
    <3>. QED  BY <1>3, <2>1, <3>1
  <2>4. A + G - h * (p * D) = v * D
    BY <1>5, <1>16, <1>17, <2>3
  <2>. QED  BY <1>2, <1>10, <1>14, <1>15, <2>2, <2>4
<1>20. CASE h # 0 /\ (h > 0) = (q > 0)
  <2>1. c = -s
    BY <1>3, <1>6, <1>7, <1>20 DEF Magnitude, Least
  <2>2. Is(average, C, D)
    BY <1>5, <1>8, <1>20
  <2>3. /\ (c * p) * D = -((s * p) * D) /\ c * C = -(s * C)
        /\ h * C = q * C + s * C
    <3>1. (-s * p) * D = -((s * p) * D) /\ (-s) * C = -(s * C)
      OBVIOUS
    <3>2. (q + s) * C = q * C + s * C
      OBVIOUS
    <3>. QED  BY <1>3, <2>1, <3>1, <3>2
  <2>4. A + G - h * C = v * D
    BY <1>5, <1>16, <1>17, <2>3
  <2>. QED  BY <1>2, <1>10, <1>14, <1>15, <2>2, <2>4
<1>. QED
  BY <1>2, <1>10, <1>14, <1>18, <1>19, <1>20

\* Position.apply, "broker-side numbers should always reconcile": whichever branch it
\* takes, an execution moves what the position has earned by what it brought in.
LEMMA ApplySettles ==
  ASSUME NEW pos \in Position, NEW fill \in Fill, NEW w \in Int, HasEarned(pos, w)
  PROVE  HasEarned(Apply(pos, fill), w + (-SignedQty(fill) * fill.price))
BY AddedSettles, ReducedSettles DEF Apply

\* What a position has earned, as the fraction the property forms.
LEMMA SettledIs ==
  ASSUME NEW pos \in Position, NEW w \in Int, HasEarned(pos, w)
  PROVE  Plus(pos.realised_pnl, Times(-pos.qty, pos.avg_price)) = Whole(w)
<1>1. PICK D \in Nat \ {0}, A \in Int, C \in Int : EarnedOver(pos, w, D, A, C)
  BY DEF HasEarned, EarnedOver
<1>2. PICK q \in Int : q = pos.qty
  BY DEF Position
<1>3. pos.avg_price \in Frac /\ pos.realised_pnl \in Frac
  BY DEF Position
<1>4. A - q * C = w * D /\ Is(pos.realised_pnl, A, D) /\ Is(pos.avg_price, C, D)
  BY <1>1, <1>2 DEF EarnedOver
<1>5. Times(-q, pos.avg_price) \in Frac /\ Is(Times(-q, pos.avg_price), -q * C, D)
  <2>1. PICK k \in Int : k = -q
    OBVIOUS
  <2>2. Times(k, pos.avg_price) \in Frac /\ Is(Times(k, pos.avg_price), k * C, D)
    BY <1>3, <1>4, TimesType, TimesIs
  <2>3. k * C = -q * C
    BY <2>1
  <2>. QED  BY <2>1, <2>2, <2>3
<1>6. -q * C \in Int /\ A + (-q * C) = w * D
  BY <1>4
<1>. QED
  BY <1>2, <1>3, <1>4, <1>5, <1>6, PlusWhole

\* The books after one more execution.
Booked(book, fill) == [book EXCEPT ![fill.instrument] = Apply(@, fill)]

Books == [Instruments -> Position]

LEMMA BookedType ==
  ASSUME NEW book \in Books, NEW fill \in Fill
  PROVE  /\ Booked(book, fill) \in Books
         /\ \A i \in Instruments :
              Booked(book, fill)[i].qty =
                IF i = fill.instrument THEN book[i].qty + SignedQty(fill) ELSE book[i].qty
<1>1. fill.instrument \in Instruments
  BY DEF Fill
<1>. QED
  BY <1>1, ApplyType DEF Books, Booked

\* How the books went, execution by execution, from `book` on.
History(h, book, new) ==
  /\ h[0] = book
  /\ \A k \in 1..Len(new) : h[k] = Booked(h[k - 1], new[k])

\* BooksAfter is where such a history ends.
LEMMA BooksAfterHistory ==
  ASSUME NEW book, NEW new, Len(new) \in Nat
  PROVE  \E h : History(h, book, new) /\ BooksAfter(book, new) = h[Len(new)]
<1>. DEFINE Next(g, k) == IF k = 0 THEN book
                          ELSE [g[k - 1] EXCEPT ![new[k].instrument] = Apply(@, new[k])]
            All(g) == [k \in 0..Len(new) |-> Next(g, k)]
            after == CHOOSE g : g = All(g)
<1>1. BooksAfter(book, new) = after[Len(new)]
  BY DEF BooksAfter
<1>2. \E g : g = All(g)
  <2>. DEFINE Good(g, n) == \A k \in 0..n : g[k] = Next(g, k)
              T == { n \in Nat : \E g : Good(g, n) }
  <2>1. 0 \in T
    <3>1. Good([k \in {0} |-> book], 0)
      OBVIOUS
    <3>. QED  BY <3>1
  <2>2. ASSUME NEW n \in Nat, n \in T PROVE n + 1 \in T
    <3>1. PICK g : Good(g, n)
      BY <2>2
    <3>. DEFINE h == [k \in 0..(n + 1) |-> IF k <= n THEN g[k] ELSE Next(g, k)]
    <3>2. ASSUME NEW k \in 0..(n + 1) PROVE h[k] = Next(h, k)
      <4>1. h[k] = Next(g, k)
        <5>. HIDE DEF Next
        <5>. QED  BY <3>1
      <4>2. CASE k = 0
        BY <4>1, <4>2
      <4>3. CASE k # 0
        <5>1. k - 1 \in 0..n
          BY <4>3
        <5>2. h[k - 1] = g[k - 1]
          <6>. HIDE DEF Next
          <6>. QED  BY <5>1
        <5>. QED  BY <4>1, <4>3, <5>2
      <4>. QED  BY <4>2, <4>3
    <3>3. Good(h, n + 1)
      <4>. HIDE DEF h, Next
      <4>. QED  BY <3>2
    <3>. QED
      <4>. HIDE DEF h, Good
      <4>. QED  BY <3>3
  <2>3. Len(new) \in T
    <3>. HIDE DEF T
    <3>. QED  BY <2>1, <2>2, Reaches
  <2>4. PICK g : Good(g, Len(new))
    BY <2>3
  <2>5. ASSUME NEW k \in 0..Len(new) PROVE Next(All(g), k) = Next(g, k)
    <3>1. CASE k = 0
      BY <3>1
    <3>2. CASE k # 0
      <4>1. k - 1 \in 0..Len(new)
        BY <3>2
      <4>2. All(g)[k - 1] = g[k - 1]
        <5>. HIDE DEF Next
        <5>. QED  BY <2>4, <4>1
      <4>. HIDE DEF All
      <4>. QED  BY <3>2, <4>2
    <3>. QED  BY <3>1, <3>2
  <2>6. All(All(g)) = All(g)
    <3>. HIDE DEF Next
    <3>. QED  BY <2>5
  <2>. QED  BY <2>6
<1>3. after = All(after)
  <2>. HIDE DEF All
  <2>. QED  BY <1>2, Zenon
<1>4. \A k \in 0..Len(new) : after[k] = Next(after, k)
  <2>. HIDE DEF after, Next
  <2>. QED  BY <1>3
<1>. HIDE DEF after
<1>5. after[0] = book
  <2>1. after[0] = Next(after, 0)
    <3>. HIDE DEF Next
    <3>. QED  BY <1>4
  <2>. QED  BY <2>1
<1>6. ASSUME NEW k \in 1..Len(new) PROVE after[k] = Booked(after[k - 1], new[k])
  <2>1. k \in 0..Len(new) /\ k # 0
    OBVIOUS
  <2>2. after[k] = [after[k - 1] EXCEPT ![new[k].instrument] = Apply(@, new[k])]
    <3>1. after[k] = Next(after, k)
      <4>. HIDE DEF Next
      <4>. QED  BY <1>4, <2>1
    <3>. QED  BY <2>1, <3>1
  <2>. QED  BY <2>2 DEF Booked
<1>. QED
  BY <1>1, <1>5, <1>6 DEF History

LEMMA CashFlowInt ==
  ASSUME NEW fill \in Fill
  PROVE  CashFlow(fill) \in Int
<1>1. SignedQty(fill) \in Int /\ fill.price \in Int /\ fill.fees \in Int
  BY SignedQtyType DEF Fill
<1>2. PICK q \in Int, p \in Int, f \in Int :
        q = SignedQty(fill) /\ p = fill.price /\ f = fill.fees
  BY <1>1
<1>3. -q * p - f \in Int
  OBVIOUS
<1>. QED
  BY <1>2, <1>3 DEF CashFlow

-----------------------------------------------------------------------------
(* Sums along a list                                                       *)

\* The running sums of a list of numbers.
Runs(s, values) ==
  /\ s[0] = 0
  /\ \A k \in 1..Len(values) : s[k] = s[k - 1] + values[k]

\* Total is where they end.
LEMMA TotalRuns ==
  ASSUME NEW values, Len(values) \in Nat
  PROVE  \E s : Runs(s, values) /\ Total(values) = s[Len(values)]
<1>. DEFINE Next(g, k) == IF k = 0 THEN 0 ELSE g[k - 1] + values[k]
            All(g) == [k \in 0..Len(values) |-> Next(g, k)]
            after == CHOOSE g : g = All(g)
<1>1. Total(values) = after[Len(values)]
  BY DEF Total
<1>2. \E g : g = All(g)
  <2>. DEFINE Good(g, n) == \A k \in 0..n : g[k] = Next(g, k)
              T == { n \in Nat : \E g : Good(g, n) }
  <2>1. 0 \in T
    <3>1. Good([k \in {0} |-> 0], 0)
      OBVIOUS
    <3>. QED  BY <3>1
  <2>2. ASSUME NEW n \in Nat, n \in T PROVE n + 1 \in T
    <3>1. PICK g : Good(g, n)
      BY <2>2
    <3>. DEFINE h == [k \in 0..(n + 1) |-> IF k <= n THEN g[k] ELSE Next(g, k)]
    <3>2. ASSUME NEW k \in 0..(n + 1) PROVE h[k] = Next(h, k)
      <4>1. h[k] = Next(g, k)
        <5>. HIDE DEF Next
        <5>. QED  BY <3>1
      <4>2. CASE k = 0
        BY <4>1, <4>2
      <4>3. CASE k # 0
        <5>1. k - 1 \in 0..n
          BY <4>3
        <5>2. h[k - 1] = g[k - 1]
          <6>. HIDE DEF Next
          <6>. QED  BY <5>1
        <5>. QED  BY <4>1, <4>3, <5>2
      <4>. QED  BY <4>2, <4>3
    <3>3. Good(h, n + 1)
      <4>. HIDE DEF h, Next
      <4>. QED  BY <3>2
    <3>. QED
      <4>. HIDE DEF h, Good
      <4>. QED  BY <3>3
  <2>3. Len(values) \in T
    <3>. HIDE DEF T
    <3>. QED  BY <2>1, <2>2, Reaches
  <2>4. PICK g : Good(g, Len(values))
    BY <2>3
  <2>5. ASSUME NEW k \in 0..Len(values) PROVE Next(All(g), k) = Next(g, k)
    <3>1. CASE k = 0
      BY <3>1
    <3>2. CASE k # 0
      <4>1. k - 1 \in 0..Len(values)
        BY <3>2
      <4>2. All(g)[k - 1] = g[k - 1]
        <5>. HIDE DEF Next
        <5>. QED  BY <2>4, <4>1
      <4>. HIDE DEF All
      <4>. QED  BY <3>2, <4>2
    <3>. QED  BY <3>1, <3>2
  <2>6. All(All(g)) = All(g)
    <3>. HIDE DEF Next
    <3>. QED  BY <2>5
  <2>. QED  BY <2>6
<1>3. after = All(after)
  <2>. HIDE DEF All
  <2>. QED  BY <1>2, Zenon
<1>4. \A k \in 0..Len(values) : after[k] = Next(after, k)
  <2>. HIDE DEF after, Next
  <2>. QED  BY <1>3
<1>. HIDE DEF after
<1>5. after[0] = 0
  <2>1. after[0] = Next(after, 0)
    <3>. HIDE DEF Next
    <3>. QED  BY <1>4
  <2>. QED  BY <2>1
<1>6. ASSUME NEW k \in 1..Len(values) PROVE after[k] = after[k - 1] + values[k]
  <2>1. k \in 0..Len(values) /\ k # 0
    OBVIOUS
  <2>2. after[k] = Next(after, k)
    <3>. HIDE DEF Next
    <3>. QED  BY <1>4, <2>1
  <2>. QED  BY <2>1, <2>2
<1>. QED
  BY <1>1, <1>5, <1>6 DEF Runs

\* Running sums of integers are integers.
LEMMA RunsInt ==
  ASSUME NEW values \in Seq(Int), NEW s, Runs(s, values)
  PROVE  \A k \in 0..Len(values) : s[k] \in Int
<1>. DEFINE T == { k \in Nat : s[k] \in Int }
<1>1. 0 \in T
  BY DEF Runs
<1>2. ASSUME NEW k \in 0..(Len(values) - 1), k \in T PROVE k + 1 \in T
  <2>1. k + 1 \in 1..Len(values) /\ (k + 1) - 1 = k
    OBVIOUS
  <2>2. s[k + 1] = s[k] + values[k + 1] /\ values[k + 1] \in Int
    BY <2>1 DEF Runs
  <2>. QED  BY <1>2, <2>2
<1>3. \A k \in 0..Len(values) : k \in T
  <2>. HIDE DEF T
  <2>. QED  BY <1>1, <1>2, ReachesAll, LenProperties
<1>. QED
  BY <1>3

LEMMA TotalType ==
  ASSUME NEW values \in Seq(Int)
  PROVE  Total(values) \in Int
<1>1. Len(values) \in Nat
  BY LenProperties
<1>2. PICK s : Runs(s, values) /\ Total(values) = s[Len(values)]
  BY <1>1, TotalRuns
<1>. QED
  BY <1>1, <1>2, RunsInt

\* A list that starts like another runs through the sum of that other one.
LEMMA RunsPrefix ==
  ASSUME NEW values \in Seq(Int), NEW longer \in Seq(Int), NEW s, Runs(s, longer),
         Len(values) <= Len(longer), \A k \in 1..Len(values) : longer[k] = values[k]
  PROVE  s[Len(values)] = Total(values)
<1>1. Len(values) \in Nat /\ Len(longer) \in Nat
  BY LenProperties
<1>2. PICK r : Runs(r, values) /\ Total(values) = r[Len(values)]
  BY <1>1, TotalRuns
<1>. DEFINE T == { k \in Nat : s[k] = r[k] }
<1>3. 0 \in T
  BY <1>2 DEF Runs
<1>4. ASSUME NEW k \in 0..(Len(values) - 1), k \in T PROVE k + 1 \in T
  <2>1. k + 1 \in 1..Len(values) /\ k + 1 \in 1..Len(longer) /\ (k + 1) - 1 = k
    BY <1>1
  <2>2. s[k + 1] = s[k] + longer[k + 1] /\ r[k + 1] = r[k] + values[k + 1]
    BY <1>2, <2>1 DEF Runs
  <2>. QED  BY <1>4, <2>1, <2>2
<1>5. Len(values) \in T
  <2>. HIDE DEF T
  <2>. QED  BY <1>1, <1>3, <1>4, Reaches
<1>. QED
  BY <1>2, <1>5

\* The empty list comes to nothing.
LEMMA TotalEmpty ==
  ASSUME NEW values, Len(values) = 0
  PROVE  Total(values) = 0
<1>1. PICK s : Runs(s, values) /\ Total(values) = s[Len(values)]
  BY TotalRuns
<1>. QED
  BY <1>1 DEF Runs

\* A list joined to another comes to both together.
LEMMA TotalJoined ==
  ASSUME NEW old \in Seq(Int), NEW new \in Seq(Int)
  PROVE  Total(old \o new) = Total(old) + Total(new)
<1>1. Len(old) \in Nat /\ Len(new) \in Nat
  BY LenProperties
<1>2. PICK n \in Nat, m \in Nat : n = Len(old) /\ m = Len(new)
  BY <1>1
<1>3. PICK both \in Seq(Int) : /\ both = old \o new /\ Len(both) = n + m
                               /\ \A k \in 1..n : both[k] = old[k]
                               /\ \A k \in 1..m : both[n + k] = new[k]
  <2>1. old \o new \in Seq(Int) /\ Len(old \o new) = n + m
    BY <1>2, ConcatProperties
  <2>2. \A k \in 1..(Len(old) + Len(new)) :
           (old \o new)[k] = IF k <= Len(old) THEN old[k] ELSE new[k - Len(old)]
    BY ConcatProperties
  <2>5. \A k \in 1..(n + m) : (old \o new)[k] = IF k <= n THEN old[k] ELSE new[k - n]
    <3>. HIDE <1>1
    <3>. QED  BY <1>2, <2>2, Zenon
  <2>3. ASSUME NEW k \in 1..m PROVE (old \o new)[n + k] = new[k]
    <3>1. n + k \in 1..(n + m) /\ ~(n + k <= n) /\ (n + k) - n = k
      OBVIOUS
    <3>. QED  BY <2>5, <3>1
  <2>4. ASSUME NEW k \in 1..n PROVE (old \o new)[k] = old[k]
    <3>1. k \in 1..(n + m) /\ k <= n
      OBVIOUS
    <3>. QED  BY <2>5, <3>1
  <2>. QED  BY <2>1, <2>3, <2>4
<1>4. PICK s : Runs(s, both) /\ Total(both) = s[n + m]
  <2>1. Len(both) \in Nat /\ Len(both) = n + m
    BY <1>3
  <2>2. \E s : Runs(s, both) /\ Total(both) = s[Len(both)]
    BY <2>1, TotalRuns
  <2>. QED  BY <2>1, <2>2
<1>5. PICK r : Runs(r, new) /\ Total(new) = r[m]
  BY <1>2, TotalRuns
<1>6. s[n] = Total(old)
  <2>1. Len(old) <= Len(both) /\ \A k \in 1..Len(old) : both[k] = old[k]
    BY <1>2, <1>3
  <2>2. s[Len(old)] = Total(old)
    BY <1>4, <2>1, RunsPrefix
  <2>. QED  BY <1>2, <2>2
<1>7. \A k \in 0..m : r[k] \in Int
  BY <1>2, <1>5, RunsInt
<1>8. Total(old) \in Int
  BY TotalType
<1>. DEFINE T == { k \in Nat : s[n + k] = Total(old) + r[k] }
<1>9. 0 \in T
  <2>1. n + 0 = n /\ r[0] = 0
    BY <1>5 DEF Runs
  <2>. QED  BY <1>6, <1>8, <2>1
<1>10. ASSUME NEW k \in 0..(m - 1), k \in T PROVE k + 1 \in T
  <2>1. /\ k + 1 \in 1..m /\ (k + 1) - 1 = k /\ n + (k + 1) \in 1..(n + m)
        /\ (n + (k + 1)) - 1 = n + k
    OBVIOUS
  <2>2. s[n + (k + 1)] = s[n + k] + both[n + (k + 1)]
    BY <1>3, <1>4, <2>1 DEF Runs
  <2>3. both[n + (k + 1)] = new[k + 1] /\ new[k + 1] \in Int
    BY <1>2, <1>3, <2>1
  <2>4. r[k + 1] = r[k] + new[k + 1] /\ r[k] \in Int
    BY <1>2, <1>5, <1>7, <2>1 DEF Runs
  <2>5. s[n + k] = Total(old) + r[k]
    BY <1>10
  <2>. QED  BY <1>8, <2>2, <2>3, <2>4, <2>5
<1>11. m \in T
  <2>. HIDE DEF T
  <2>. QED  BY <1>9, <1>10, Reaches
<1>. QED
  BY <1>3, <1>4, <1>5, <1>11

-----------------------------------------------------------------------------
(* What a list of executions comes to                                      *)

\* The sum over a list of executions of what f makes of each.
Over(f, list) == Total([k \in DOMAIN list |-> f[list[k]]])

Signed(i) == [e \in Fill |-> IF e.instrument = i THEN SignedQty(e) ELSE 0]

Earned(i) == [e \in Fill |-> IF e.instrument = i THEN -SignedQty(e) * e.price ELSE 0]

Charged == [e \in Fill |-> e.fees]

Flow == [e \in Fill |-> CashFlow(e)]

LEMMA MeasuresType ==
  /\ \A i : Signed(i) \in [Fill -> Int] /\ Earned(i) \in [Fill -> Int]
  /\ Charged \in [Fill -> Int] /\ Flow \in [Fill -> Int]
<1>1. ASSUME NEW e \in Fill
      PROVE  SignedQty(e) \in Int /\ -SignedQty(e) * e.price \in Int /\ e.fees \in Int
  <2>1. PICK q \in Int, p \in Int : q = SignedQty(e) /\ p = e.price
    BY SignedQtyType DEF Fill
  <2>2. -q * p \in Int
    OBVIOUS
  <2>. QED  BY <2>1, <2>2 DEF Fill
<1>2. ASSUME NEW i PROVE Signed(i) \in [Fill -> Int] /\ Earned(i) \in [Fill -> Int]
  BY <1>1 DEF Signed, Earned
<1>. QED
  BY <1>1, <1>2, CashFlowInt DEF Charged, Flow

\* The running sums over a list.
Along(s, f, list) ==
  /\ s[0] = 0
  /\ \A k \in 1..Len(list) : s[k] = s[k - 1] + f[list[k]]
  /\ \A k \in 0..Len(list) : s[k] \in Int
  /\ Over(f, list) = s[Len(list)]

\* What f makes of a list, as a list of numbers.
LEMMA MeasuredList ==
  ASSUME NEW f \in [Fill -> Int], NEW list \in Seq(Fill)
  PROVE  LET values == [k \in DOMAIN list |-> f[list[k]]]
         IN  /\ values \in Seq(Int) /\ Len(values) = Len(list)
             /\ DOMAIN list = 1..Len(list) /\ Len(list) \in Nat
             /\ \A k \in 1..Len(list) : values[k] = f[list[k]] /\ list[k] \in Fill
<1>1. PICK n \in Nat : n = Len(list) /\ DOMAIN list = 1..n
  BY LenProperties
<1>2. \A k \in 1..n : list[k] \in Fill
  BY <1>1
<1>3. PICK values : values = [k \in 1..n |-> f[list[k]]]
  OBVIOUS
<1>4. values \in [1..n -> Int]
  BY <1>2, <1>3
<1>5. values \in Seq(Int) /\ Len(values) = n
  BY <1>4
<1>. QED
  BY <1>1, <1>2, <1>3, <1>5

LEMMA OverAlong ==
  ASSUME NEW f \in [Fill -> Int], NEW list \in Seq(Fill)
  PROVE  \E s : Along(s, f, list)
<1>1. PICK values : values = [k \in DOMAIN list |-> f[list[k]]]
  OBVIOUS
<1>2. /\ values \in Seq(Int) /\ Len(values) = Len(list) /\ Len(list) \in Nat
      /\ \A k \in 1..Len(list) : values[k] = f[list[k]]
  BY <1>1, MeasuredList
<1>3. PICK s : Runs(s, values) /\ Total(values) = s[Len(values)]
  BY <1>2, TotalRuns
<1>4. \A k \in 0..Len(values) : s[k] \in Int
  BY <1>2, <1>3, RunsInt
<1>5. \A k \in 1..Len(list) : s[k] = s[k - 1] + f[list[k]]
  BY <1>2, <1>3 DEF Runs
<1>6. s[0] = 0
  BY <1>3 DEF Runs
<1>7. Over(f, list) = s[Len(list)]
  BY <1>1, <1>2, <1>3 DEF Over
<1>. QED
  BY <1>2, <1>4, <1>5, <1>6, <1>7 DEF Along

LEMMA OverType ==
  ASSUME NEW f \in [Fill -> Int], NEW list \in Seq(Fill)
  PROVE  Over(f, list) \in Int
<1>1. PICK s : Along(s, f, list)
  BY OverAlong
<1>2. Len(list) \in 0..Len(list)
  BY LenProperties
<1>. QED
  BY <1>1, <1>2 DEF Along

LEMMA OverEmpty ==
  ASSUME NEW f
  PROVE  Over(f, << >>) = 0
<1>1. Len([k \in DOMAIN << >> |-> f[<< >>[k]]]) = 0
  OBVIOUS
<1>. QED
  BY <1>1, TotalEmpty DEF Over

LEMMA OverJoined ==
  ASSUME NEW f \in [Fill -> Int], NEW old \in Seq(Fill), NEW new \in Seq(Fill)
  PROVE  Over(f, old \o new) = Over(f, old) + Over(f, new)
<1>. DEFINE V(list) == [k \in DOMAIN list |-> f[list[k]]]
<1>1. PICK n \in Nat, m \in Nat : n = Len(old) /\ m = Len(new)
  BY LenProperties
<1>2. PICK both \in Seq(Fill) : /\ both = old \o new /\ Len(both) = n + m
  BY <1>1, ConcatProperties
<1>3. \A k \in 1..(Len(old) + Len(new)) :
         (old \o new)[k] = IF k <= Len(old) THEN old[k] ELSE new[k - Len(old)]
  BY ConcatProperties
<1>4. \A k \in 1..(n + m) : both[k] = IF k <= n THEN old[k] ELSE new[k - n]
  BY <1>1, <1>2, <1>3, Zenon
<1>5. /\ V(old) \in Seq(Int) /\ Len(V(old)) = n
      /\ \A k \in 1..n : V(old)[k] = f[old[k]]
  BY <1>1, MeasuredList
<1>6. /\ V(new) \in Seq(Int) /\ Len(V(new)) = m
      /\ \A k \in 1..m : V(new)[k] = f[new[k]]
  BY <1>1, MeasuredList
<1>7. /\ V(both) \in Seq(Int) /\ Len(V(both)) = n + m
      /\ \A k \in 1..(n + m) : V(both)[k] = f[both[k]]
  BY <1>2, MeasuredList
<1>. HIDE DEF V
<1>8. PICK vo, vn, vb : vo = V(old) /\ vn = V(new) /\ vb = V(both)
  OBVIOUS
<1>9. vb = vo \o vn
  <2>1. vo \o vn \in Seq(Int) /\ Len(vo \o vn) = n + m
    <3>1. Len(vo \o vn) = Len(vo) + Len(vn)
      BY <1>5, <1>6, <1>8, ConcatProperties
    <3>2. vo \o vn \in Seq(Int)
      BY <1>5, <1>6, <1>8, ConcatProperties
    <3>. QED  BY <1>5, <1>6, <1>8, <3>1, <3>2
  <2>2. \A k \in 1..(Len(vo) + Len(vn)) :
           (vo \o vn)[k] = IF k <= Len(vo) THEN vo[k] ELSE vn[k - Len(vo)]
    BY <1>5, <1>6, <1>8, ConcatProperties
  <2>3. \A k \in 1..(n + m) : (vo \o vn)[k] = IF k <= n THEN vo[k] ELSE vn[k - n]
    <3>1. Len(vo) = n /\ Len(vn) = m
      BY <1>5, <1>6, <1>8
    <3>. QED  BY <2>2, <3>1, Zenon
  <2>4. ASSUME NEW k \in 1..(n + m) PROVE vb[k] = (vo \o vn)[k]
    <3>1. vb[k] = f[both[k]]
      BY <1>7, <1>8
    <3>2. CASE k <= n
      <4>1. k \in 1..n
        BY <3>2
      <4>2. vo[k] = f[old[k]] /\ both[k] = old[k] /\ (vo \o vn)[k] = vo[k]
        BY <1>4, <1>5, <1>8, <2>3, <3>2, <4>1
      <4>. QED  BY <3>1, <4>2
    <3>3. CASE ~(k <= n)
      <4>1. PICK j \in 1..m : j = k - n
        BY <3>3
      <4>2. vn[j] = f[new[j]]
        BY <1>6, <1>8
      <4>3. both[k] = new[j]
        BY <1>4, <3>3, <4>1
      <4>4. (vo \o vn)[k] = vn[j]
        BY <2>3, <3>3, <4>1
      <4>. QED  BY <3>1, <4>2, <4>3, <4>4
    <3>. QED  BY <3>2, <3>3
  <2>5. PICK vj : vj = vo \o vn
    OBVIOUS
  <2>6. Len(vb) = Len(vj) /\ Len(vb) = n + m /\ vb \in Seq(Int) /\ vj \in Seq(Int)
    BY <1>7, <1>8, <2>1, <2>5
  <2>7. \A k \in 1..Len(vb) : vb[k] = vj[k]
    BY <2>4, <2>5, <2>6
  <2>8. vb = vj
    BY <2>6, <2>7, SeqEqual
  <2>. QED  BY <2>5, <2>8
<1>10. Total(vo \o vn) = Total(vo) + Total(vn)
  BY <1>5, <1>6, <1>8, TotalJoined
<1>11. /\ Over(f, old) = Total(vo) /\ Over(f, new) = Total(vn)
       /\ Over(f, both) = Total(vb)
  BY <1>8 DEF Over, V
<1>. QED
  BY <1>2, <1>9, <1>10, <1>11

\* The books after a list of executions hold and have earned what the list comes to.
LEMMA BooksSettle ==
  ASSUME NEW book \in Books, NEW new \in Seq(Fill)
  PROVE  /\ BooksAfter(book, new) \in Books
         /\ \A i \in Instruments :
              /\ BooksAfter(book, new)[i].qty = book[i].qty + Over(Signed(i), new)
              /\ \A w \in Int : HasEarned(book[i], w) =>
                   HasEarned(BooksAfter(book, new)[i], w + Over(Earned(i), new))
<1>1. PICK n \in Nat : n = Len(new) /\ \A k \in 1..n : new[k] \in Fill
  BY LenProperties
<1>2. PICK h : History(h, book, new) /\ BooksAfter(book, new) = h[n]
  BY <1>1, BooksAfterHistory
<1>3. h[0] = book /\ \A k \in 1..n : h[k] = Booked(h[k - 1], new[k])
  BY <1>1, <1>2 DEF History
<1>4. \A k \in 0..n : h[k] \in Books
  <2>. DEFINE T == { k \in Nat : h[k] \in Books }
  <2>1. 0 \in T
    BY <1>3
  <2>2. ASSUME NEW k \in 0..(n - 1), k \in T PROVE k + 1 \in T
    <3>1. k + 1 \in 1..n /\ (k + 1) - 1 = k
      OBVIOUS
    <3>2. h[k + 1] = Booked(h[k], new[k + 1])
      BY <1>3, <3>1
    <3>3. h[k] \in Books /\ new[k + 1] \in Fill
      BY <1>1, <2>2, <3>1
    <3>. QED  BY <3>2, <3>3, BookedType
  <2>3. \A k \in 0..n : k \in T
    <3>. HIDE DEF T
    <3>. QED  BY <2>1, <2>2, ReachesAll
  <2>. QED  BY <2>3
<1>5. ASSUME NEW i \in Instruments
      PROVE  /\ h[n][i].qty = book[i].qty + Over(Signed(i), new)
             /\ \A w \in Int : HasEarned(book[i], w) =>
                  HasEarned(h[n][i], w + Over(Earned(i), new))
  <2>1. PICK s : Along(s, Signed(i), new)
    BY MeasuresType, OverAlong
  <2>2. PICK e : Along(e, Earned(i), new)
    BY MeasuresType, OverAlong
  <2>3. /\ s[0] = 0 /\ Over(Signed(i), new) = s[n] /\ \A k \in 0..n : s[k] \in Int
        /\ e[0] = 0 /\ Over(Earned(i), new) = e[n] /\ \A k \in 0..n : e[k] \in Int
    BY <1>1, <2>1, <2>2 DEF Along
  <2>4. ASSUME NEW k \in 1..n
        PROVE  /\ s[k] = s[k - 1] + Signed(i)[new[k]]
               /\ e[k] = e[k - 1] + Earned(i)[new[k]]
    BY <1>1, <2>1, <2>2 DEF Along
  <2>5. PICK q \in Int : q = book[i].qty
    BY DEF Books, Position
  <2>. DEFINE T == { k \in Nat :
                       /\ h[k][i].qty = q + s[k]
                       /\ \A w \in Int : HasEarned(book[i], w) => HasEarned(h[k][i], w + e[k]) }
  <2>6. 0 \in T
    <3>1. q + s[0] = q /\ \A w \in Int : w + e[0] = w
      BY <2>3
    <3>. QED  BY <1>3, <2>5, <3>1
  <2>7. ASSUME NEW k \in 0..(n - 1), k \in T PROVE k + 1 \in T
    <3>1. k + 1 \in 1..n /\ (k + 1) - 1 = k /\ k \in 0..n
      OBVIOUS
    <3>2. PICK fill \in Fill : fill = new[k + 1]
      BY <1>1, <3>1
    <3>3. h[k] \in Books /\ h[k][i] \in Position
      BY <1>4, <3>1 DEF Books
    <3>4. h[k + 1] = Booked(h[k], fill)
      BY <1>3, <3>1, <3>2
    <3>5. PICK sk \in Int, ek \in Int : sk = s[k] /\ ek = e[k]
      BY <2>3, <3>1
    <3>6. /\ s[k + 1] = sk + Signed(i)[fill]
          /\ e[k + 1] = ek + Earned(i)[fill]
      BY <2>4, <3>1, <3>2, <3>5
    <3>7. CASE fill.instrument = i
      <4>1. PICK x \in Int, y \in Int :
              x = SignedQty(fill) /\ y = -SignedQty(fill) * fill.price
        <5>1. PICK a \in Int, p \in Int : a = SignedQty(fill) /\ p = fill.price
          BY SignedQtyType DEF Fill
        <5>2. -a * p \in Int
          OBVIOUS
        <5>. QED  BY <5>1, <5>2
      <4>2. s[k + 1] = sk + x /\ e[k + 1] = ek + y
        BY <3>6, <3>7, <4>1 DEF Signed, Earned
      <4>3. h[k + 1][i] = Apply(h[k][i], fill)
        BY <3>3, <3>4, <3>7 DEF Booked, Books
      <4>4. h[k + 1][i].qty = h[k][i].qty + x
        BY <3>3, <4>1, <4>3, ApplyType
      <4>5. h[k + 1][i].qty = q + s[k + 1]
        <5>1. h[k][i].qty = q + sk
          BY <2>7, <3>5
        <5>. QED  BY <4>2, <4>4, <5>1
      <4>6. ASSUME NEW w \in Int, HasEarned(book[i], w)
            PROVE  HasEarned(h[k + 1][i], w + e[k + 1])
        <5>1. w + ek \in Int /\ HasEarned(h[k][i], w + ek)
          BY <2>7, <3>5, <4>6
        <5>2. HasEarned(Apply(h[k][i], fill), (w + ek) + y)
          BY <3>3, <4>1, <5>1, ApplySettles
        <5>3. (w + ek) + y = w + e[k + 1]
          BY <4>2
        <5>. QED  BY <4>3, <5>2, <5>3
      <4>. QED  BY <4>5, <4>6
    <3>8. CASE fill.instrument # i
      <4>1. s[k + 1] = sk /\ e[k + 1] = ek
        BY <3>6, <3>8 DEF Signed, Earned
      <4>2. h[k + 1][i] = h[k][i]
        BY <3>3, <3>4, <3>8 DEF Booked, Books
      <4>. QED  BY <2>7, <3>5, <4>1, <4>2
    <3>. QED  BY <3>7, <3>8
  <2>8. n \in T
    <3>. HIDE DEF T
    <3>. QED  BY <2>6, <2>7, Reaches
  <2>. QED  BY <2>3, <2>5, <2>8
<1>. QED
  BY <1>2, <1>4, <1>5

\* The cash after a list of executions, each of which moves it once.
LEMMA CashMoves ==
  ASSUME NEW balance, NEW new \in Seq(Fill)
  PROVE  CashAfter(balance, new) = balance + Over(Flow, new)
<1>1. ASSUME NEW k \in DOMAIN new PROVE CashFlow(new[k]) = Flow[new[k]]
  BY DEF Flow
<1>2. [k \in DOMAIN new |-> CashFlow(new[k])] = [k \in DOMAIN new |-> Flow[new[k]]]
  BY <1>1
<1>. QED
  BY <1>2 DEF CashAfter, Over

-----------------------------------------------------------------------------
(* Sums over the instruments                                               *)

\* What the sum of the numbers f computes at every subset of D, from what it computes at
\* the smaller ones.
Unfolding(iter, D, f) ==
  /\ iter[D] = SumFunction(f)
  /\ \A s \in SUBSET D :
       iter[s] = IF s = {} THEN 0
                 ELSE f[CHOOSE x \in s : TRUE] + iter[s \ {CHOOSE x \in s : TRUE}]

LEMMA TotalUnfolds ==
  ASSUME NEW D, IsFiniteSet(D), NEW f, DOMAIN f = D
  PROVE  \E iter : Unfolding(iter, D, f)
<1>. DEFINE Of(g, s) == IF s = {} THEN 0
                        ELSE f[CHOOSE x \in s : TRUE] + g[s \ {CHOOSE x \in s : TRUE}]
            All(g) == [s \in SUBSET D |-> Of(g, s)]
            iter == CHOOSE g : g = All(g)
<1>1. iter[D] = SumFunction(f)
  BY DEF SumFunction, SumFunctionOnSet, FoldFunctionOnSet, MapThenFoldSet
<1>2. ASSUME NEW g, g = All(g) PROVE iter = All(iter)
  <2>. HIDE DEF All
  <2>. QED  BY <1>2, Zenon
<1>3. \E g : g = All(g)
  <2>. DEFINE Good(g, n) == \A s \in SUBSET D : Cardinality(s) <= n => g[s] = Of(g, s)
              T == { n \in Nat : \E g : Good(g, n) }
  <2>1. 0 \in T
    <3>1. \A s \in SUBSET D : Cardinality(s) <= 0 => s = {}
      BY FS_Subset, FS_CardinalityType, FS_EmptySet
    <3>2. Good([s \in SUBSET D |-> 0], 0)
      BY <3>1
    <3>. QED  BY <3>2
  <2>2. ASSUME NEW n \in Nat, n \in T PROVE n + 1 \in T
    <3>1. PICK g : Good(g, n)
      BY <2>2
    <3>. DEFINE h == [s \in SUBSET D |-> IF Cardinality(s) <= n THEN g[s] ELSE Of(g, s)]
    <3>2. ASSUME NEW s \in SUBSET D, Cardinality(s) <= n + 1 PROVE h[s] = Of(h, s)
      <4>1. h[s] = Of(g, s)
        BY <3>1
      <4>2. CASE s = {}
        BY <4>1, <4>2
      <4>3. CASE s # {}
        <5>. DEFINE x == CHOOSE x \in s : TRUE
        <5>1. x \in s /\ s \ {x} \in SUBSET D
          BY <4>3
        <5>2. IsFiniteSet(s)
          BY FS_Subset
        <5>3. Cardinality(s \ {x}) = Cardinality(s) - 1 /\ Cardinality(s) \in Nat
          <6>. HIDE DEF x
          <6>. QED  BY <5>1, <5>2, FS_RemoveElement, FS_CardinalityType
        <5>4. Cardinality(s \ {x}) <= n
          BY <5>3, <3>2
        <5>5. h[s \ {x}] = g[s \ {x}]
          BY <5>1, <5>4
        <5>. QED  BY <4>1, <4>3, <5>5
      <4>. QED  BY <4>2, <4>3
    <3>3. Good(h, n + 1)
      <4>. HIDE DEF h, Of
      <4>. QED  BY <3>2
    <3>. QED
      <4>. HIDE DEF h, Good
      <4>. QED  BY <3>3
  <2>3. Cardinality(D) \in Nat
    BY FS_CardinalityType
  <2>4. Cardinality(D) \in T
    <3>. HIDE DEF T
    <3>. QED  BY <2>1, <2>2, <2>3, Reaches
  <2>5. PICK g : Good(g, Cardinality(D))
    BY <2>4
  <2>6. ASSUME NEW s \in SUBSET D PROVE g[s] = Of(g, s)
    <3>1. Cardinality(s) <= Cardinality(D)
      BY FS_Subset
    <3>. QED  BY <3>1, <2>5
  <2>7. ASSUME NEW s \in SUBSET D PROVE Of(All(g), s) = Of(g, s)
    BY <2>6
  <2>8. All(All(g)) = All(g)
    BY <2>7
  <2>. QED  BY <2>8
<1>4. iter = All(iter)
  BY <1>2, <1>3
<1>5. \A s \in SUBSET D : iter[s] = Of(iter, s)
  <2>. HIDE DEF iter, Of
  <2>. QED  BY <1>4
<1>. QED
  <2>. HIDE DEF iter
  <2>. QED  BY <1>1, <1>5 DEF Unfolding

\* Two functions whose values differ by d at one point alone have sums that differ as much.
MovedAt(D, f, g, at, d) == \A x \in D : g[x] = IF x = at THEN f[x] + d ELSE f[x]

LEMMA SumMoved ==
  ASSUME NEW D, IsFiniteSet(D), NEW f \in [D -> Int], NEW g \in [D -> Int],
         NEW at, NEW d \in Int, MovedAt(D, f, g, at, d)
  PROVE  /\ SumFunction(f) \in Int
         /\ SumFunction(g) = IF at \in D THEN SumFunction(f) + d ELSE SumFunction(f)
<1>1. PICK a : Unfolding(a, D, f)
  BY TotalUnfolds
<1>2. PICK b : Unfolding(b, D, g)
  BY TotalUnfolds
<1>. DEFINE Moved(s) == a[s] \in Int /\ b[s] = IF at \in s THEN a[s] + d ELSE a[s]
            T == { n \in Nat : \A s \in SUBSET D : Cardinality(s) = n => Moved(s) }
<1>3. 0 \in T
  <2>1. \A s \in SUBSET D : Cardinality(s) = 0 => s = {}
    BY FS_Subset, FS_EmptySet
  <2>2. Moved({})
    BY <1>1, <1>2 DEF Unfolding
  <2>3. \A s \in SUBSET D : Cardinality(s) = 0 => Moved(s)
    <3>. HIDE DEF Moved
    <3>. QED  BY <2>1, <2>2
  <2>. QED
    <3>. HIDE DEF Moved
    <3>. QED  BY <2>3
<1>4. ASSUME NEW n \in Nat, n \in T PROVE n + 1 \in T
  <2>. SUFFICES ASSUME NEW s \in SUBSET D, Cardinality(s) = n + 1 PROVE Moved(s)
    OBVIOUS
  <2>1. s # {} /\ IsFiniteSet(s)
    BY FS_EmptySet, FS_Subset
  <2>2. PICK x : x = CHOOSE y \in s : TRUE
    OBVIOUS
  <2>3. x \in s
    BY <2>1, <2>2
  <2>4. Cardinality(s \ {x}) = n
    <3>1. Cardinality(s \ {x}) = Cardinality(s) - 1
      BY <2>1, <2>3, FS_RemoveElement
    <3>. QED  BY <3>1
  <2>5. PICK rest : rest = s \ {x}
    OBVIOUS
  <2>6. a[s] = f[x] + a[rest] /\ b[s] = g[x] + b[rest]
    BY <1>1, <1>2, <2>1, <2>2, <2>5 DEF Unfolding
  <2>7. Moved(rest)
    BY <1>4, <2>4, <2>5
  <2>8. f[x] \in Int /\ g[x] = IF x = at THEN f[x] + d ELSE f[x]
    BY <2>3 DEF MovedAt
  <2>9. CASE x = at
    <3>1. at \in s /\ at \notin rest
      BY <2>3, <2>5, <2>9
    <3>2. a[rest] \in Int /\ b[rest] = a[rest]
      BY <2>7, <3>1
    <3>. QED  BY <2>6, <2>8, <2>9, <3>1, <3>2
  <2>10. CASE x # at
    <3>1. at \in s <=> at \in rest
      BY <2>5, <2>10
    <3>. QED  BY <2>6, <2>7, <2>8, <2>10, <3>1
  <2>. QED  BY <2>9, <2>10
<1>5. Cardinality(D) \in T
  <2>. HIDE DEF T
  <2>. QED  BY <1>3, <1>4, FS_CardinalityType, Reaches
<1>. QED
  BY <1>1, <1>2, <1>5 DEF Unfolding

\* A sum of noughts is nought.
LEMMA SumNought ==
  ASSUME NEW D, IsFiniteSet(D), NEW f \in [D -> Int], \A x \in D : f[x] = 0
  PROVE  SumFunction(f) = 0
<1>1. PICK a : Unfolding(a, D, f)
  BY TotalUnfolds
<1>. DEFINE T == { n \in Nat : \A s \in SUBSET D : Cardinality(s) = n => a[s] = 0 }
<1>2. 0 \in T
  <2>1. \A s \in SUBSET D : Cardinality(s) = 0 => s = {}
    BY FS_Subset, FS_EmptySet
  <2>2. a[{}] = 0
    BY <1>1 DEF Unfolding
  <2>. QED  BY <2>1, <2>2
<1>3. ASSUME NEW n \in Nat, n \in T PROVE n + 1 \in T
  <2>. SUFFICES ASSUME NEW s \in SUBSET D, Cardinality(s) = n + 1 PROVE a[s] = 0
    OBVIOUS
  <2>1. s # {} /\ IsFiniteSet(s)
    BY FS_EmptySet, FS_Subset
  <2>2. PICK x : x = CHOOSE y \in s : TRUE
    OBVIOUS
  <2>3. x \in s
    BY <2>1, <2>2
  <2>4. Cardinality(s \ {x}) = n
    <3>1. Cardinality(s \ {x}) = Cardinality(s) - 1
      BY <2>1, <2>3, FS_RemoveElement
    <3>. QED  BY <3>1
  <2>5. a[s] = f[x] + a[s \ {x}]
    BY <1>1, <2>1, <2>2 DEF Unfolding
  <2>. QED  BY <1>3, <2>3, <2>4, <2>5
<1>4. Cardinality(D) \in T
  <2>. HIDE DEF T
  <2>. QED  BY <1>2, <1>3, FS_CardinalityType, Reaches
<1>. QED
  BY <1>1, <1>4 DEF Unfolding

\* The cash that a list of executions moves is what they brought in for every instrument,
\* less their fees.
LEMMA CashByInstrument ==
  ASSUME NEW list \in Seq(Fill)
  PROVE  Over(Flow, list) =
           SumFunction([i \in Instruments |-> Over(Earned(i), list)]) - Over(Charged, list)
<1>1. PICK n \in Nat : n = Len(list) /\ \A k \in 1..n : list[k] \in Fill
  BY LenProperties
<1>2. PICK c : Along(c, Flow, list)
  BY MeasuresType, OverAlong
<1>3. PICK x : Along(x, Charged, list)
  BY MeasuresType, OverAlong
<1>4. PICK r : r = [i \in Instruments |-> CHOOSE s : Along(s, Earned(i), list)]
  OBVIOUS
<1>5. ASSUME NEW i \in Instruments PROVE Along(r[i], Earned(i), list)
  <2>1. \E s : Along(s, Earned(i), list)
    BY MeasuresType, OverAlong
  <2>. QED  BY <1>4, <2>1
<1>6. ASSUME NEW k \in 1..n
      PROVE  /\ c[k] = c[k - 1] + Flow[list[k]] /\ x[k] = x[k - 1] + Charged[list[k]]
             /\ \A i \in Instruments : r[i][k] = r[i][k - 1] + Earned(i)[list[k]]
  BY <1>1, <1>2, <1>3, <1>5 DEF Along
<1>7. ASSUME NEW k \in 0..n
      PROVE  c[k] \in Int /\ x[k] \in Int /\ \A i \in Instruments : r[i][k] \in Int
  BY <1>1, <1>2, <1>3, <1>5 DEF Along
<1>8. /\ c[0] = 0 /\ x[0] = 0 /\ c[n] = Over(Flow, list) /\ x[n] = Over(Charged, list)
      /\ \A i \in Instruments : r[i][0] = 0 /\ r[i][n] = Over(Earned(i), list)
  BY <1>1, <1>2, <1>3, <1>5 DEF Along
<1>9. IsFiniteSet(Instruments)
  BY ConfigAssumption
<1>. DEFINE At(k) == [i \in Instruments |-> r[i][k]]
            T == { k \in Nat : c[k] = SumFunction(At(k)) - x[k] }
<1>10. \A k \in 0..n : At(k) \in [Instruments -> Int]
  BY <1>7
<1>11. 0 \in T
  <2>1. At(0) \in [Instruments -> Int] /\ \A i \in Instruments : At(0)[i] = 0
    BY <1>8
  <2>. HIDE DEF At
  <2>2. SumFunction(At(0)) = 0
    BY <1>9, <2>1, SumNought
  <2>. QED  BY <1>8, <2>2
<1>12. ASSUME NEW k \in 0..(n - 1), k \in T PROVE k + 1 \in T
  <2>1. k \in 0..n /\ k + 1 \in 0..n /\ k + 1 \in 1..n /\ (k + 1) - 1 = k
    OBVIOUS
  <2>2. PICK fill \in Fill : fill = list[k + 1]
    BY <1>1, <2>1
  <2>3. PICK a \in Int, p \in Int, fees \in Int :
          a = SignedQty(fill) /\ p = fill.price /\ fees = fill.fees
    BY SignedQtyType DEF Fill
  <2>4. PICK y \in Int : y = -a * p
    <3>1. -a * p \in Int
      OBVIOUS
    <3>. QED  BY <3>1
  <2>5. PICK at \in Instruments : at = fill.instrument
    BY DEF Fill
  <2>6. c[k + 1] = c[k] + (y - fees) /\ x[k + 1] = x[k] + fees
    BY <1>6, <2>1, <2>2, <2>3, <2>4 DEF Flow, CashFlow, Charged
  <2>7. ASSUME NEW i \in Instruments
        PROVE  r[i][k + 1] = IF i = at THEN r[i][k] + y ELSE r[i][k]
    <3>1. r[i][k + 1] = r[i][k] + Earned(i)[fill]
      BY <1>6, <2>1, <2>2
    <3>2. Earned(i)[fill] = IF i = at THEN y ELSE 0
      BY <2>3, <2>4, <2>5 DEF Earned
    <3>3. r[i][k] \in Int
      BY <1>7, <2>1
    <3>. QED  BY <3>1, <3>2, <3>3
  <2>8. PICK before \in [Instruments -> Int], after \in [Instruments -> Int] :
          before = At(k) /\ after = At(k + 1)
    BY <1>10, <2>1
  <2>9. MovedAt(Instruments, before, after, at, y)
    BY <2>7, <2>8 DEF MovedAt
  <2>10. SumFunction(before) \in Int /\ SumFunction(after) = SumFunction(before) + y
    BY <1>9, <2>9, SumMoved
  <2>11. c[k] = SumFunction(before) - x[k] /\ x[k] \in Int
    BY <1>7, <1>12, <2>1, <2>8
  <2>12. c[k + 1] = SumFunction(after) - x[k + 1]
    <3>. HIDE DEF At
    <3>. QED  BY <2>6, <2>10, <2>11
  <2>. QED  BY <2>8, <2>12
<1>13. n \in T
  <2>. HIDE DEF T
  <2>. QED  BY <1>11, <1>12, Reaches
<1>14. At(n) = [i \in Instruments |-> Over(Earned(i), list)]
  BY <1>8
<1>. QED
  <2>. HIDE DEF At
  <2>. QED  BY <1>8, <1>13, <1>14

-----------------------------------------------------------------------------
(* The broker's ledgers reconcile                                          *)

\* Positions and cash are what the executions emitted come to.
Reconciled ==
  /\ fills \in Seq(Fill) /\ positions \in Books
  /\ \A i \in Instruments :
       /\ positions[i].qty = Over(Signed(i), fills)
       /\ HasEarned(positions[i], Over(Earned(i), fills))
  /\ cash = StartingCash + Over(Flow, fills)

LEMMA ReconciledInit == SimInit => Reconciled
<1>. SUFFICES ASSUME SimInit PROVE Reconciled
  OBVIOUS
<1>1. /\ fills = << >> /\ cash = StartingCash /\ StartingCash \in Int
      /\ positions \in Books /\ \A i \in Instruments : positions[i] = Flat
  BY FlatType, ConfigAssumption DEF SimInit, Books
<1>2. fills \in Seq(Fill)
  BY <1>1
<1>3. \A f : Over(f, fills) = 0
  BY <1>1, OverEmpty
<1>4. Flat.qty = 0
  BY DEF Flat
<1>5. cash = StartingCash + Over(Flow, fills)
  BY <1>1, <1>3
<1>. QED
  BY <1>1, <1>2, <1>3, <1>4, <1>5, FlatSettles DEF Reconciled

\* A quote, whatever it executes, keeps them so.
LEMMA ReconciledTick ==
  ASSUME Reconciled, NEW new \in Seq(Fill), fills' = fills \o new,
         positions' = BooksAfter(positions, new), cash' = CashAfter(cash, new)
  PROVE  Reconciled'
<1>1. fills \in Seq(Fill) /\ positions \in Books
  BY DEF Reconciled
<1>2. fills' \in Seq(Fill)
  BY <1>1, ConcatProperties
<1>3. positions' \in Books
  BY <1>1, BooksSettle
<1>4. ASSUME NEW i \in Instruments
      PROVE  /\ positions'[i].qty = Over(Signed(i), fills')
             /\ HasEarned(positions'[i], Over(Earned(i), fills'))
  <2>1. Over(Signed(i), fills') = Over(Signed(i), fills) + Over(Signed(i), new)
    BY <1>1, MeasuresType, OverJoined
  <2>2. Over(Earned(i), fills') = Over(Earned(i), fills) + Over(Earned(i), new)
    BY <1>1, MeasuresType, OverJoined
  <2>3. Over(Earned(i), fills) \in Int
    BY <1>1, MeasuresType, OverType
  <2>4. positions'[i].qty = positions[i].qty + Over(Signed(i), new)
    BY <1>1, BooksSettle
  <2>5. HasEarned(positions'[i], Over(Earned(i), fills) + Over(Earned(i), new))
    BY <1>1, <2>3, BooksSettle DEF Reconciled
  <2>. QED  BY <2>1, <2>2, <2>4, <2>5 DEF Reconciled
<1>5. cash' = StartingCash + Over(Flow, fills')
  <2>1. Over(Flow, fills') = Over(Flow, fills) + Over(Flow, new)
    BY <1>1, MeasuresType, OverJoined
  <2>2. Over(Flow, fills) \in Int /\ Over(Flow, new) \in Int
    BY <1>1, MeasuresType, OverType
  <2>3. cash' = cash + Over(Flow, new)
    BY CashMoves
  <2>. QED  BY <2>1, <2>2, <2>3, ConfigAssumption DEF Reconciled
<1>. QED
  BY <1>2, <1>3, <1>4, <1>5 DEF Reconciled

LEMMA ReconciledSame ==
  ASSUME Reconciled, UNCHANGED <<fills, positions, cash>>
  PROVE  Reconciled'
BY DEF Reconciled

\* What the properties of SimBroker say of such ledgers.
LEMMA ReconciledMeans ==
  ASSUME Reconciled
  PROVE  /\ PositionsReconcile
         /\ CashReconciles
         /\ \A i \in Instruments : HeldOf(i) = Over(Signed(i), fills)
                                   /\ Proceeds(i) = Over(Earned(i), fills)
         /\ FeesPaid = Over(Charged, fills)
<1>1. \A k \in DOMAIN fills : fills[k] \in Fill
  BY DEF Reconciled
<1>2. ASSUME NEW i \in Instruments
      PROVE  HeldOf(i) = Over(Signed(i), fills) /\ Proceeds(i) = Over(Earned(i), fills)
  <2>1. [k \in DOMAIN fills |-> IF fills[k].instrument = i THEN SignedQty(fills[k]) ELSE 0]
          = [k \in DOMAIN fills |-> Signed(i)[fills[k]]]
    BY <1>1 DEF Signed
  <2>2. [k \in DOMAIN fills |-> IF fills[k].instrument = i
                                  THEN -SignedQty(fills[k]) * fills[k].price ELSE 0]
          = [k \in DOMAIN fills |-> Earned(i)[fills[k]]]
    BY <1>1 DEF Earned
  <2>. QED  BY <2>1, <2>2 DEF HeldOf, Proceeds, Over
<1>3. FeesPaid = Over(Charged, fills)
  <2>1. [k \in DOMAIN fills |-> fills[k].fees] = [k \in DOMAIN fills |-> Charged[fills[k]]]
    BY <1>1 DEF Charged
  <2>. QED  BY <2>1 DEF FeesPaid, Over
<1>4. PositionsReconcile
  <2>. SUFFICES ASSUME NEW i \in Instruments
                PROVE  /\ positions[i].qty = HeldOf(i)
                       /\ Plus(positions[i].realised_pnl,
                               Times(-positions[i].qty, positions[i].avg_price))
                            = Whole(Proceeds(i))
    BY DEF PositionsReconcile
  <2>1. positions[i] \in Position /\ HasEarned(positions[i], Proceeds(i))
    BY <1>2 DEF Reconciled, Books
  <2>2. Proceeds(i) \in Int
    BY <1>2, MeasuresType, OverType DEF Reconciled
  <2>3. positions[i].qty = HeldOf(i)
    BY <1>2 DEF Reconciled
  <2>4. Plus(positions[i].realised_pnl, Times(-positions[i].qty, positions[i].avg_price))
          = Whole(Proceeds(i))
    BY <2>1, <2>2, SettledIs
  <2>. QED  BY <2>3, <2>4
<1>5. CashReconciles
  <2>1. [i \in Instruments |-> Proceeds(i)] = [i \in Instruments |-> Over(Earned(i), fills)]
    BY <1>2
  <2>2. PICK sum : sum = SumFunction([i \in Instruments |-> Proceeds(i)])
    OBVIOUS
  <2>3. Over(Flow, fills) = sum - FeesPaid
    BY <1>3, <2>1, <2>2, CashByInstrument DEF Reconciled
  <2>4. FeesPaid \in Int
    BY <1>3, MeasuresType, OverType DEF Reconciled
  <2>5. PICK f \in [Instruments -> Int] : f = [i \in Instruments |-> Proceeds(i)]
    BY <1>2, MeasuresType, OverType DEF Reconciled
  <2>6. sum \in Int
    <3>1. MovedAt(Instruments, f, f, 0, 0)
      BY DEF MovedAt
    <3>2. SumFunction(f) \in Int
      BY <3>1, ConfigAssumption, SumMoved
    <3>. QED  BY <2>2, <2>5, <3>2
  <2>7. cash = StartingCash + Over(Flow, fills) /\ StartingCash \in Int
    BY ConfigAssumption DEF Reconciled
  <2>8. cash = StartingCash + sum - FeesPaid
    BY <2>3, <2>4, <2>6, <2>7
  <2>. QED  BY <2>2, <2>8 DEF CashReconciles
<1>. QED
  BY <1>2, <1>3, <1>4, <1>5

-----------------------------------------------------------------------------
(* One execution of each order a quote matches                             *)

\* The listing of a set names each of its members once.
LEMMA ListedOnce ==
  ASSUME NEW M, M \subseteq Int, IsFiniteSet(M), NEW hit \in InListOrder(M)
  PROVE  /\ Cardinality(M) \in Nat /\ hit \in [1..Cardinality(M) -> M]
         /\ \A j, k \in 1..Cardinality(M) : hit[j] = hit[k] => j = k
         /\ \A o \in M : \E k \in 1..Cardinality(M) : hit[k] = o
<1>1. PICK n \in Nat : n = Cardinality(M)
  BY FS_CardinalityType
<1>2. hit \in [1..n -> M] /\ \A j, k \in 1..n : j < k => hit[j] < hit[k]
  BY <1>1 DEF InListOrder
<1>3. ASSUME NEW j \in 1..n, NEW k \in 1..n, hit[j] = hit[k] PROVE j = k
  <2>1. hit[j] \in Int /\ hit[k] \in Int
    BY <1>2
  <2>2. ~(j < k) /\ ~(k < j)
    BY <1>2, <1>3, <2>1
  <2>. QED  BY <2>2
<1>4. hit \in Injection(1..n, M)
  BY <1>2, <1>3 DEF Injection, IsInjective
<1>5. IsFiniteSet(1..n) /\ Cardinality(1..n) = n
  BY FS_Interval
<1>6. hit \in Surjection(1..n, M)
  BY <1>1, <1>4, <1>5, FS_Injection
<1>. QED
  BY <1>1, <1>2, <1>3, <1>6 DEF Surjection

\* A list in which f makes something of one execution alone comes to just that.
LEMMA OverOne ==
  ASSUME NEW f \in [Fill -> Int], NEW list \in Seq(Fill), NEW at \in Nat,
         \A k \in 1..Len(list) : k # at => f[list[k]] = 0
  PROVE  Over(f, list) = IF at \in 1..Len(list) THEN f[list[at]] ELSE 0
<1>1. PICK n \in Nat : n = Len(list) /\ \A k \in 1..n : list[k] \in Fill
  BY LenProperties
<1>2. PICK s : Along(s, f, list)
  BY OverAlong
<1>3. /\ s[0] = 0 /\ Over(f, list) = s[n]
      /\ \A k \in 1..n : s[k] = s[k - 1] + f[list[k]]
  BY <1>1, <1>2 DEF Along
<1>4. \A k \in 1..n : f[list[k]] \in Int
  BY <1>1
<1>. DEFINE T == { k \in Nat : s[k] = IF at \in 1..k THEN f[list[at]] ELSE 0 }
<1>5. 0 \in T
  BY <1>3
<1>6. ASSUME NEW k \in 0..(n - 1), k \in T PROVE k + 1 \in T
  <2>1. k + 1 \in 1..n /\ (k + 1) - 1 = k
    OBVIOUS
  <2>2. s[k + 1] = s[k] + f[list[k + 1]] /\ f[list[k + 1]] \in Int
    BY <1>3, <1>4, <2>1
  <2>3. s[k] = IF at \in 1..k THEN f[list[at]] ELSE 0
    BY <1>6
  <2>4. CASE at = k + 1
    <3>1. at \notin 1..k /\ at \in 1..(k + 1)
      BY <2>4
    <3>. QED  BY <2>2, <2>3, <2>4, <3>1
  <2>5. CASE at # k + 1
    <3>1. f[list[k + 1]] = 0
      BY <1>1, <2>1, <2>5
    <3>2. at \in 1..k <=> at \in 1..(k + 1)
      BY <2>5
    <3>3. at \in 1..k => f[list[at]] \in Int
      BY <1>4
    <3>4. s[k + 1] = s[k]
      BY <2>2, <2>3, <3>1, <3>3
    <3>. QED  BY <2>3, <3>2, <3>4
  <2>. QED  BY <2>4, <2>5
<1>7. n \in T
  <2>. HIDE DEF T
  <2>. QED  BY <1>5, <1>6, Reaches
<1>. QED
  BY <1>1, <1>3, <1>7

=============================================================================
