--------------------------- MODULE ProtocolProofs ---------------------------
(***************************************************************************)
(* Theorems about Protocol, for any types of packets, base and widths:     *)
(* what Formatter writes, Unformatter reads.                               *)
(***************************************************************************)
EXTENDS Protocol, SequenceTheorems, WellFoundedInduction, TLAPS

-----------------------------------------------------------------------------
(* Numbers, and functions defined by recursion on them *)

\* A set that contains 0 and the successor of each number in it contains all.
LEMMA Induction ==
  ASSUME NEW S, 0 \in S, \A n \in Nat : n \in S => n + 1 \in S
  PROVE  \A n \in Nat : n \in S
<1> DEFINE Before == {ss \in Nat \X Nat : ss[1] < ss[2]}
           Others == Nat \ S
<1> SUFFICES ASSUME Others # {} PROVE FALSE
  OBVIOUS
<1>1. IsWellFoundedOn(Before, Nat)
  BY NatLessThanWellFounded DEF OpToRel
<1>2. \A m, n \in Nat : m < n => <<m, n>> \in Before
  OBVIOUS
<1>3. Others \subseteq Nat
  OBVIOUS
<1> HIDE DEF Before, Others
<1>4. PICK n \in Others : \A m \in Others : <<m, n>> \notin Before
  BY <1>1, <1>3, WFMin
<1>5. n \in Nat /\ n # 0
  BY DEF Others
<1>6. n - 1 \in Nat /\ n - 1 < n /\ (n - 1) + 1 = n
  BY <1>5
<1>7. n - 1 \in S
  BY <1>2, <1>4, <1>5, <1>6 DEF Others
<1>8. n \in S
  BY <1>6, <1>7
<1> QED
  BY <1>8 DEF Others

\* f takes values of S, from the value a by steps.
IsRecursive(f, S, a, step) ==
  /\ f \in [Nat -> S] /\ f[0] = a
  /\ \A n \in Nat : f[n + 1] = step[<<n, f[n]>>]

\* From a first value and a step there is a sequence of values.
LEMMA Recursion ==
  ASSUME NEW S, NEW a \in S, NEW step, step \in [Nat \X S -> S]
  PROVE  \E f : IsRecursive(f, S, a, step)
<1> DEFINE Begun(n) == {g \in [0..n -> S] :
                          /\ g[0] = a
                          /\ \A i \in 0..(n - 1) : g[i + 1] = step[<<i, g[i]>>]}
           Longest == {n \in Nat : Begun(n) # {}}
<1>1. 0 \in Longest
  <2>1. [i \in 0..0 |-> a] \in Begun(0)
    OBVIOUS
  <2> QED
    BY <2>1
<1>2. ASSUME NEW n \in Nat, n \in Longest PROVE n + 1 \in Longest
  <2>1. PICK g : g \in Begun(n)
    BY <1>2
  <2> DEFINE h == [i \in 0..(n + 1) |-> IF i <= n THEN g[i] ELSE step[<<n, g[n]>>]]
  <2>2. g \in [0..n -> S] /\ g[0] = a /\ \A i \in 0..(n - 1) : g[i + 1] = step[<<i, g[i]>>]
    BY <2>1
  <2>3. h \in [0..(n + 1) -> S]
    <3>1. g[n] \in S /\ <<n, g[n]>> \in Nat \X S
      BY <2>2
    <3> QED
      BY <2>2, <3>1
  <2>4. h[0] = a
    BY <2>2
  <2>5. ASSUME NEW i \in 0..n PROVE h[i + 1] = step[<<i, h[i]>>]
    <3>1. CASE i < n
      <4>1. i \in 0..(n - 1) /\ h[i + 1] = g[i + 1] /\ h[i] = g[i]
        BY <3>1
      <4> QED
        BY <2>2, <4>1
    <3>2. CASE i = n
      <4>1. h[i + 1] = step[<<n, g[n]>>] /\ h[i] = g[n]
        BY <3>2
      <4> QED
        BY <3>2, <4>1
    <3> QED
      BY <3>1, <3>2
  <2> HIDE DEF h
  <2>6. h \in Begun(n + 1)
    BY <2>3, <2>4, <2>5
  <2> QED
    BY <2>6
<1>3. \A n \in Nat : n \in Longest
  <2> HIDE DEF Longest
  <2> QED
    BY <1>1, <1>2, Induction
<1>4. ASSUME NEW n \in Nat, NEW g \in Begun(n), NEW m \in Nat, NEW h \in Begun(m)
      PROVE  \A i \in Nat : i <= n /\ i <= m => g[i] = h[i]
  <2> DEFINE Same == {i \in Nat : i <= n /\ i <= m => g[i] = h[i]}
  <2>1. 0 \in Same
    OBVIOUS
  <2>2. ASSUME NEW i \in Nat, i \in Same PROVE i + 1 \in Same
    <3> SUFFICES ASSUME i + 1 <= n, i + 1 <= m PROVE g[i + 1] = h[i + 1]
      OBVIOUS
    <3>1. i \in 0..(n - 1) /\ i \in 0..(m - 1) /\ g[i] = h[i]
      BY <2>2
    <3> QED
      BY <3>1
  <2>3. \A i \in Nat : i \in Same
    <3> HIDE DEF Same
    <3> QED
      BY <2>1, <2>2, Induction
  <2> QED
    BY <2>3
<1> DEFINE G(n) == CHOOSE g \in Begun(n) : TRUE
           f == [n \in Nat |-> G(n)[n]]
<1>5. \A n \in Nat : G(n) \in Begun(n)
  BY <1>3
<1>6. \A n \in Nat : G(n) \in [0..n -> S] /\ G(n)[0] = a
                     /\ \A i \in 0..(n - 1) : G(n)[i + 1] = step[<<i, G(n)[i]>>]
  BY <1>5
<1>7. \A n \in Nat : G(n + 1)[n] = G(n)[n]
  <2> HIDE DEF G, Begun
  <2> QED
    BY <1>4, <1>5
<1> HIDE DEF G, Begun
<1>8. f \in [Nat -> S] /\ f[0] = a
  BY <1>6
<1>9. ASSUME NEW n \in Nat PROVE f[n + 1] = step[<<n, f[n]>>]
  <2>1. n + 1 \in Nat /\ n \in 0..((n + 1) - 1)
    OBVIOUS
  <2>2. G(n + 1)[n + 1] = step[<<n, G(n + 1)[n]>>]
    BY <1>6, <2>1
  <2> QED
    BY <1>7, <2>1, <2>2
<1> QED
  BY <1>8, <1>9 DEF IsRecursive

-----------------------------------------------------------------------------
(* A number is read from its bytes *)

\* What a division by the base leaves, and the last digit.
LEMMA Digits ==
  ASSUME NEW n \in Nat
  PROVE  /\ n \div Base \in Nat /\ n % Base \in 0..(Base - 1)
         /\ n = (n % Base) + Base * (n \div Base)
         /\ \A p \in Nat : n < Base * p => n \div Base < p
<1> DEFINE b == Base
           q == n \div b
           r == n % b
<1>1. b \in Nat \ {0, 1}
  BY BaseAssumption
<1> HIDE DEF b
<1>2. q \in Int /\ r \in 0..(b - 1) /\ n = b * q + r
  BY <1>1
<1> HIDE DEF q, r
<1>3. ~(q <= -1)
  BY <1>1, <1>2
<1>4. q \in Nat
  BY <1>2, <1>3
<1>5. ASSUME NEW p \in Nat, n < b * p PROVE q < p
  <2> SUFFICES ASSUME q >= p PROVE FALSE
    BY <1>4
  <2>1. b * (q - p) >= 0
    BY <1>1, <1>4
  <2>2. b * q >= b * p
    BY <1>1, <1>4, <2>1
  <2> QED
    BY <1>1, <1>2, <1>4, <1>5, <2>2
<1> QED
  BY <1>1, <1>2, <1>4, <1>5 DEF b, q, r

\* Power is the power of the base.
LEMMA Powers ==
  /\ Power[0] = 1
  /\ \A n \in Nat : Power[n] \in Nat \ {0} /\ Power[n + 1] = Base * Power[n]
<1> DEFINE step == [p \in Nat \X Nat |-> Base * p[2]]
<1>1. Base \in Nat \ {0, 1}
  BY BaseAssumption
<1>2. step \in [Nat \X Nat -> Nat] /\ \A n, m \in Nat : step[<<n, m>>] = Base * m
  BY <1>1
<1> HIDE DEF step
<1>3. PICK f : IsRecursive(f, Nat, 1, step)
  <2>1. step \in [Nat \X Nat -> Nat] /\ 1 \in Nat
    BY <1>2
  <2> QED
    BY <2>1, Recursion
<1>4. /\ f \in [Nat -> Nat] /\ f[0] = 1
      /\ \A n \in Nat : f[n + 1] = Base * f[n]
  BY <1>2, <1>3 DEF IsRecursive
<1>5. f = [n \in Nat |-> IF n = 0 THEN 1 ELSE Base * f[n - 1]]
  <2>1. ASSUME NEW n \in Nat PROVE f[n] = IF n = 0 THEN 1 ELSE Base * f[n - 1]
    <3>1. CASE n = 0
      BY <1>4, <3>1
    <3>2. CASE n # 0
      <4>1. n - 1 \in Nat /\ (n - 1) + 1 = n
        BY <3>2
      <4> QED
        BY <1>4, <3>2, <4>1
    <3> QED
      BY <3>1, <3>2
  <2> QED
    BY <1>4, <2>1
<1>6. Power = [n \in Nat |-> IF n = 0 THEN 1 ELSE Base * Power[n - 1]]
  BY <1>5 DEF Power
<1>7. Power[0] = 1 /\ \A n \in Nat : Power[n + 1] = Base * Power[n]
  BY <1>6
<1>8. \A n \in Nat : Power[n] \in Nat \ {0}
  <2> DEFINE Positive == {n \in Nat : Power[n] \in Nat \ {0}}
  <2>1. 0 \in Positive
    BY <1>7
  <2>2. ASSUME NEW n \in Nat, n \in Positive PROVE n + 1 \in Positive
    <3> DEFINE p == Power[n]
               b == Base
    <3>1. p \in Nat \ {0} /\ b \in Nat \ {0, 1}
      BY <1>1, <2>2
    <3> HIDE DEF p, b
    <3>2. b * p \in Nat \ {0}
      BY <3>1
    <3> QED
      BY <1>7, <3>2 DEF p, b
  <2> HIDE DEF Positive
  <2>3. \A n \in Nat : n \in Positive
    BY <2>1, <2>2, Induction
  <2> QED
    BY <2>3 DEF Positive
<1> QED
  BY <1>7, <1>8

\* left is what each byte leaves of the number n of kind k.
IsCutOff(left, k, n) ==
  /\ left \in [Nat -> Nat] /\ left[0] = n
  /\ \A i \in Nat : left[i + 1] = left[i] \div Base
  /\ Bytes(k, n) = [i \in 1..Width[k] |-> left[i - 1] % Base]

\* The bytes of a number are cut off from it, one after the other.
LEMMA BytesCutOff ==
  ASSUME NEW k, NEW n \in Nat
  PROVE  \E left : IsCutOff(left, k, n)
<1> DEFINE step == [p \in Nat \X Nat |-> p[2] \div Base]
<1>1. step \in [Nat \X Nat -> Nat] /\ \A i, m \in Nat : step[<<i, m>>] = m \div Base
  BY Digits
<1> HIDE DEF step
<1>2. PICK f : IsRecursive(f, Nat, n, step)
  <2>1. step \in [Nat \X Nat -> Nat]
    BY <1>1
  <2> QED
    BY <2>1, Recursion
<1>3. /\ f \in [Nat -> Nat] /\ f[0] = n
      /\ \A i \in Nat : f[i + 1] = f[i] \div Base
  BY <1>1, <1>2 DEF IsRecursive
<1>4. f = [i \in Nat |-> IF i = 0 THEN n ELSE f[i - 1] \div Base]
  <2>1. ASSUME NEW i \in Nat PROVE f[i] = IF i = 0 THEN n ELSE f[i - 1] \div Base
    <3>1. CASE i = 0
      BY <1>3, <3>1
    <3>2. CASE i # 0
      <4>1. i - 1 \in Nat /\ (i - 1) + 1 = i
        BY <3>2
      <4> QED
        BY <1>3, <3>2, <4>1
    <3> QED
      BY <3>1, <3>2
  <2> QED
    BY <1>3, <2>1
<1> DEFINE left[i \in Nat] == IF i = 0 THEN n ELSE left[i - 1] \div Base
<1>5. left = [i \in Nat |-> IF i = 0 THEN n ELSE left[i - 1] \div Base]
  BY <1>4
<1>6. Bytes(k, n) = [i \in 1..Width[k] |-> left[i - 1] % Base]
  BY DEF Bytes
<1> HIDE DEF left
<1>7. left[0] = n /\ \A i \in Nat : left[i + 1] = left[i] \div Base
  BY <1>5
<1>8. \A i \in Nat : left[i] \in Nat
  <2> DEFINE Numbers == {i \in Nat : left[i] \in Nat}
  <2>1. 0 \in Numbers
    BY <1>7
  <2>2. ASSUME NEW i \in Nat, i \in Numbers PROVE i + 1 \in Numbers
    <3>1. left[i] \div Base \in Nat
      BY <2>2, Digits
    <3> QED
      BY <1>7, <3>1
  <2> HIDE DEF Numbers
  <2>3. \A i \in Nat : i \in Numbers
    BY <2>1, <2>2, Induction
  <2> QED
    BY <2>3 DEF Numbers
<1>9. left \in [Nat -> Nat]
  BY <1>5, <1>8
<1> QED
  BY <1>6, <1>7, <1>9 DEF IsCutOff

\* The number that bytes hold, from the last of them on.
LEMMA ValueAddsUp ==
  ASSUME NEW L \in Nat, NEW bytes \in Seq(Nat), Len(bytes) = L
  PROVE  \E last \in [0..L -> Nat] :
           /\ last[0] = 0
           /\ \A i \in 1..L : last[i] = bytes[(L - i) + 1] + Base * last[i - 1]
           /\ Value(bytes) = last[L]
<1> DEFINE digit(i) == bytes[L - i]
           step == [p \in Nat \X Nat |-> IF p[1] < L THEN digit(p[1]) + Base * p[2] ELSE 0]
<1>1. Base \in Nat /\ \A i \in Nat : i < L => digit(i) \in Nat
  <2>1. \A i \in 1..L : bytes[i] \in Nat
    BY ElementOfSeq
  <2>2. \A i \in Nat : i < L => L - i \in 1..L
    OBVIOUS
  <2> QED
    BY <2>1, <2>2, BaseAssumption
<1>2. /\ step \in [Nat \X Nat -> Nat]
      /\ \A i, m \in Nat : i < L => step[<<i, m>>] = digit(i) + Base * m
  <2> HIDE DEF digit
  <2>1. ASSUME NEW i \in Nat, NEW m \in Nat
        PROVE  (IF i < L THEN digit(i) + Base * m ELSE 0) \in Nat
    <3> DEFINE b == Base
    <3>1. b \in Nat
      BY <1>1
    <3> HIDE DEF b
    <3>2. b * m \in Nat
      BY <3>1
    <3> DEFINE p == Base * m
    <3>3. p \in Nat
      BY <3>2 DEF b
    <3> HIDE DEF p
    <3>4. (IF i < L THEN digit(i) + p ELSE 0) \in Nat
      BY <1>1, <3>3
    <3> QED
      BY <3>4 DEF p
  <2> QED
    BY <2>1
<1> HIDE DEF step
<1>3. PICK f : IsRecursive(f, Nat, 0, step)
  BY <1>2, Recursion
<1> DEFINE g == [i \in 0..L |-> f[i]]
<1>4. /\ f \in [Nat -> Nat] /\ f[0] = 0
      /\ \A i \in Nat : i < L => f[i + 1] = digit(i) + Base * f[i]
  BY <1>2, <1>3 DEF IsRecursive
<1>5. g \in [0..L -> Nat] /\ g[0] = 0
  BY <1>4
<1>6. ASSUME NEW i \in 1..L PROVE g[i] = bytes[(L - i) + 1] + Base * g[i - 1]
  <2>1. i - 1 \in Nat /\ i - 1 < L /\ (i - 1) + 1 = i /\ L - (i - 1) = (L - i) + 1
    OBVIOUS
  <2>2. f[i] = digit(i - 1) + Base * f[i - 1]
    BY <1>4, <2>1
  <2>3. digit(i - 1) = bytes[(L - i) + 1]
    BY <2>1
  <2>4. g[i] = f[i] /\ g[i - 1] = f[i - 1]
    OBVIOUS
  <2> QED
    BY <2>2, <2>3, <2>4
<1> HIDE DEF g, digit
<1>7. g = [i \in 0..Len(bytes) |-> IF i = 0 THEN 0 ELSE bytes[Len(bytes) - i + 1] + Base * g[i - 1]]
  <2>1. \A i \in 0..L : g[i] = IF i = 0 THEN 0 ELSE bytes[L - i + 1] + Base * g[i - 1]
    <3> SUFFICES ASSUME NEW i \in 0..L
                 PROVE  g[i] = IF i = 0 THEN 0 ELSE bytes[L - i + 1] + Base * g[i - 1]
      OBVIOUS
    <3>1. CASE i = 0
      BY <1>5, <3>1
    <3>2. CASE i # 0
      <4>1. i \in 1..L
        BY <3>2
      <4> QED
        BY <1>6, <3>2, <4>1
    <3> QED
      BY <3>1, <3>2
  <2> QED
    BY <1>5, <2>1
<1> DEFINE last[i \in 0..Len(bytes)] ==
             IF i = 0 THEN 0 ELSE bytes[Len(bytes) - i + 1] + Base * last[i - 1]
<1>8. last = [i \in 0..Len(bytes) |-> IF i = 0 THEN 0 ELSE bytes[Len(bytes) - i + 1] + Base * last[i - 1]]
  BY <1>7
<1>9. Value(bytes) = last[L]
  BY DEF Value
<1> HIDE DEF last
<1>10. /\ \A i \in 0..L : last[i] = IF i = 0 THEN 0 ELSE bytes[L - i + 1] + Base * last[i - 1]
       /\ last = [i \in 0..L |-> last[i]]
  BY <1>8
<1>11. last[0] = 0 /\ \A i \in 1..L : last[i] = bytes[(L - i) + 1] + Base * last[i - 1]
  <2>1. last[0] = 0
    BY <1>10
  <2>2. ASSUME NEW i \in 1..L PROVE last[i] = bytes[(L - i) + 1] + Base * last[i - 1]
    <3>1. i \in 0..L /\ i # 0
      OBVIOUS
    <3> QED
      BY <1>10, <3>1
  <2> QED
    BY <2>1, <2>2
<1>12. \A i \in Nat : i <= L => last[i] \in Nat
  <2> DEFINE Numbers == {i \in Nat : i <= L => last[i] \in Nat}
  <2>1. 0 \in Numbers
    BY <1>11
  <2>2. ASSUME NEW i \in Nat, i \in Numbers PROVE i + 1 \in Numbers
    <3> SUFFICES ASSUME i + 1 <= L PROVE last[i + 1] \in Nat
      OBVIOUS
    <3>1. i + 1 \in 1..L /\ (i + 1) - 1 = i /\ (L - (i + 1)) + 1 = L - i /\ i < L
      OBVIOUS
    <3>2. last[i + 1] = digit(i) + Base * last[i]
      BY <1>11, <3>1 DEF digit
    <3> DEFINE b == Base
               m == last[i]
    <3>3. b \in Nat /\ m \in Nat /\ digit(i) \in Nat
      BY <1>1, <2>2, <3>1
    <3> HIDE DEF b, m
    <3>4. b * m \in Nat
      BY <3>3
    <3> QED
      BY <3>2, <3>3, <3>4 DEF b, m
  <2> HIDE DEF Numbers
  <2>3. \A i \in Nat : i \in Numbers
    BY <2>1, <2>2, Induction
  <2> QED
    BY <2>3 DEF Numbers
<1>13. last \in [0..L -> Nat]
  BY <1>10, <1>12
<1> QED
  BY <1>9, <1>11, <1>13

(***************************************************************************)
(* Unformatter reads the number that Formatter wrote, if it fits into its  *)
(* bytes.                                                                  *)
(***************************************************************************)
LEMMA ReadBack ==
  ASSUME NEW k \in Basics, NEW n \in Nat, n < Power[Width[k]]
  PROVE  /\ Bytes(k, n) \in Seq(0..(Base - 1)) /\ Len(Bytes(k, n)) = Width[k]
         /\ Value(Bytes(k, n)) = n
<1> DEFINE w == Width[k]
           bytes == Bytes(k, n)
<1>1. w \in Nat /\ Base \in Nat \ {0, 1}
  BY WidthAssumption, BaseAssumption
<1>0. PICK left : IsCutOff(left, k, n)
  BY BytesCutOff
<1>2. /\ left \in [Nat -> Nat] /\ left[0] = n
      /\ \A i \in Nat : left[i + 1] = left[i] \div Base
      /\ bytes = [i \in 1..w |-> left[i - 1] % Base]
  BY <1>0 DEF IsCutOff
<1> HIDE DEF bytes, w
<1>3. \A i \in Nat : /\ left[i] \in Nat /\ left[i] % Base \in 0..(Base - 1)
                     /\ left[i] = (left[i] % Base) + Base * left[i + 1]
  <2> SUFFICES ASSUME NEW i \in Nat
               PROVE  /\ left[i] \in Nat /\ left[i] % Base \in 0..(Base - 1)
                      /\ left[i] = (left[i] % Base) + Base * left[i + 1]
    OBVIOUS
  <2>1. left[i] \in Nat
    BY <1>2
  <2>2. /\ left[i] % Base \in 0..(Base - 1)
        /\ left[i] = (left[i] % Base) + Base * (left[i] \div Base)
    BY <2>1, Digits
  <2> QED
    BY <1>2, <2>1, <2>2
<1>4. bytes \in [1..w -> 0..(Base - 1)] /\ \A i \in 1..w : bytes[i] = left[i - 1] % Base
  <2>1. \A i \in 1..w : left[i - 1] % Base \in 0..(Base - 1)
    <3>1. \A i \in 1..w : i - 1 \in Nat
      BY <1>1
    <3> QED
      BY <1>3, <3>1
  <2> QED
    BY <1>2, <2>1
<1>5. bytes \in Seq(0..(Base - 1)) /\ Len(bytes) = w /\ bytes \in Seq(Nat)
  <2>1. bytes \in Seq(0..(Base - 1))
    BY <1>1, <1>4, SeqDef
  <2>2. Len(bytes) = w
    BY <1>1, <1>4, <2>1, LenProperties
  <2>3. 0..(Base - 1) \subseteq Nat
    BY <1>1
  <2> QED
    BY <2>1, <2>2, <2>3, SeqMonotonic
<1>6. left[w] = 0
  <2> DEFINE Fits == {i \in Nat : i <= w => left[i] < Power[w - i]}
  <2>1. 0 \in Fits
    <3>1. w - 0 = w
      BY <1>1
    <3>2. n < Power[w]
      BY DEF w
    <3>3. left[0] < Power[w]
      BY <1>2, <3>2
    <3> QED
      BY <3>1, <3>3
  <2>2. ASSUME NEW i \in Nat, i \in Fits PROVE i + 1 \in Fits
    <3> SUFFICES ASSUME i + 1 <= w PROVE left[i + 1] < Power[w - (i + 1)]
      OBVIOUS
    <3>1. w - (i + 1) \in Nat /\ (w - (i + 1)) + 1 = w - i
      BY <1>1
    <3>2. left[i] < Base * Power[w - (i + 1)] /\ Power[w - (i + 1)] \in Nat
      <4>1. left[i] < Power[w - i]
        BY <1>1, <2>2
      <4>2. Power[w - i] = Base * Power[w - (i + 1)]
        BY <3>1, Powers
      <4> QED
        BY <3>1, <4>1, <4>2, Powers
    <3>3. left[i] \div Base < Power[w - (i + 1)]
      BY <1>3, <3>2, Digits
    <3> QED
      BY <1>2, <3>3
  <2> HIDE DEF Fits
  <2>3. \A i \in Nat : i \in Fits
    BY <2>1, <2>2, Induction
  <2>4. left[w] < Power[w - w]
    BY <1>1, <2>3 DEF Fits
  <2> QED
    BY <1>1, <1>3, <2>4, Powers
<1>7. PICK last \in [0..w -> Nat] :
        /\ last[0] = 0
        /\ \A i \in 1..w : last[i] = bytes[(w - i) + 1] + Base * last[i - 1]
        /\ Value(bytes) = last[w]
  BY <1>1, <1>5, ValueAddsUp
<1>8. \A i \in Nat : i <= w => last[i] = left[w - i]
  <2> DEFINE Read == {i \in Nat : i <= w => last[i] = left[w - i]}
  <2>1. 0 \in Read
    BY <1>1, <1>6, <1>7
  <2>2. ASSUME NEW i \in Nat, i \in Read PROVE i + 1 \in Read
    <3> SUFFICES ASSUME i + 1 <= w PROVE last[i + 1] = left[w - (i + 1)]
      OBVIOUS
    <3> DEFINE j == w - (i + 1)
    <3>1. /\ i + 1 \in 1..w /\ (i + 1) - 1 = i /\ (w - (i + 1)) + 1 = w - i
          /\ w - i \in 1..w /\ j \in Nat /\ j + 1 = w - i /\ (w - i) - 1 = j
      BY <1>1
    <3>2. last[i] = left[j + 1]
      BY <1>1, <2>2, <3>1
    <3>3. bytes[w - i] = left[j] % Base
      BY <1>4, <3>1
    <3>4. last[i + 1] = bytes[w - i] + Base * last[i]
      BY <1>7, <3>1
    <3>5. left[j] = (left[j] % Base) + Base * left[j + 1]
      BY <1>3, <3>1
    <3> HIDE DEF j
    <3> QED
      BY <3>2, <3>3, <3>4, <3>5 DEF j
  <2> HIDE DEF Read
  <2>3. \A i \in Nat : i \in Read
    BY <2>1, <2>2, Induction
  <2> QED
    BY <2>3 DEF Read
<1>9. Value(bytes) = n
  BY <1>1, <1>2, <1>7, <1>8
<1> QED
  BY <1>5, <1>9 DEF bytes, w

-----------------------------------------------------------------------------
(* A field is read as it was written *)

\* The part of a sequence whose elements are those of another is that one.
LEMMA Middle ==
  ASSUME NEW S, NEW s \in Seq(S), NEW b \in Seq(S), NEW m \in Nat,
         m + Len(b) <= Len(s),
         \A i \in 1..Len(b) : s[m + i] = b[i]
  PROVE  SubSeq(s, m + 1, m + Len(b)) = b
<1> DEFINE n == Len(b)
<1>1. n \in Nat /\ Len(s) \in Nat /\ n = Len(b)
  BY LenProperties
<1> HIDE DEF n
<1>2. \A i \in (m + 1)..(m + n) : s[i] \in S
  <2>1. \A i \in (m + 1)..(m + n) : i \in 1..Len(s)
    BY <1>1
  <2> QED
    BY <2>1, ElementOfSeq
<1> DEFINE t == SubSeq(s, m + 1, m + n)
<1>3. /\ t \in Seq(S) /\ Len(t) = n
      /\ \A i \in 1..n : t[i] = s[m + i]
  <2>1. m + 1 \in Int /\ m + n \in Int
    BY <1>1
  <2>2. /\ t \in Seq(S) /\ Len(t) = IF m + 1 <= m + n THEN (m + n) - (m + 1) + 1 ELSE 0
        /\ \A i \in 1..((m + n) - (m + 1) + 1) : t[i] = s[(m + 1) + i - 1]
    BY <1>2, <2>1, SubSeqProperties
  <2> HIDE DEF t
  <2>3. (m + n) - (m + 1) + 1 = n /\ \A i \in 1..n : (m + 1) + i - 1 = m + i
    BY <1>1
  <2>4. Len(t) = n
    BY <1>1, <2>2, <2>3
  <2> QED
    BY <2>2, <2>3, <2>4
<1> HIDE DEF t
<1>4. t = b
  BY <1>1, <1>3, SeqEqual
<1> QED
  BY <1>1, <1>4 DEF t

\* s has the elements of a, then those of b.
Follows(s, a, b) ==
  /\ Len(s) = Len(a) + Len(b) /\ Len(a) \in Nat /\ Len(b) \in Nat
  /\ \A i \in 1..Len(a) : s[i] = a[i]
  /\ \A i \in 1..Len(b) : s[Len(a) + i] = b[i]
  /\ SubSeq(s, 1, Len(a)) = a
  /\ SubSeq(s, Len(a) + 1, Len(s)) = b

\* The two parts of a concatenation.
LEMMA CutInTwo ==
  ASSUME NEW S, NEW a \in Seq(S), NEW b \in Seq(S)
  PROVE  a \o b \in Seq(S) /\ Follows(a \o b, a, b)
<1> DEFINE m == Len(a)
           n == Len(b)
           s == a \o b
<1>1. m \in Nat /\ n \in Nat /\ m = Len(a) /\ n = Len(b)
  BY LenProperties
<1>2. /\ s \in Seq(S) /\ Len(s) = m + n
      /\ \A i \in 1..(m + n) : s[i] = IF i <= m THEN a[i] ELSE b[i - m]
  BY ConcatProperties
<1> HIDE DEF m, n, s
<1>3. \A i \in 1..m : s[i] = a[i]
  <2>1. \A i \in 1..m : i \in 1..(m + n) /\ i <= m
    BY <1>1
  <2> QED
    BY <1>2, <2>1
<1>4. \A i \in 1..n : s[m + i] = b[i]
  <2>1. \A i \in 1..n : m + i \in 1..(m + n) /\ ~(m + i <= m) /\ (m + i) - m = i
    BY <1>1
  <2> QED
    BY <1>2, <2>1
<1>5. SubSeq(s, 1, m) = a
  <2>1. 0 + m <= Len(s) /\ 0 + m = m /\ 0 + 1 = 1 /\ \A i \in 1..m : 0 + i = i
    BY <1>1, <1>2
  <2>2. \A i \in 1..m : s[0 + i] = a[i]
    BY <1>3, <2>1
  <2>3. 0 \in Nat
    OBVIOUS
  <2>4. SubSeq(s, 0 + 1, 0 + m) = a
    BY <1>1, <1>2, <2>1, <2>2, <2>3, Middle
  <2> QED
    BY <2>1, <2>4
<1>6. SubSeq(s, m + 1, m + n) = b
  <2>1. m + n <= Len(s)
    BY <1>1, <1>2
  <2> QED
    BY <1>1, <1>2, <1>4, <2>1, Middle
<1> QED
  BY <1>1, <1>2, <1>3, <1>4, <1>5, <1>6 DEF Follows, s

\* The span after a field was read.
Read(rest, fields, v) == [left |-> rest, fields |-> Append(fields, v), short |-> FALSE]

\* The sizes of the basic kinds.
LEMMA Widths ==
  /\ \A k \in Basics : Width[k] \in Nat \ {0}
  /\ "Size" \in Basics /\ "Int" \in Basics /\ "Enum" \in Basics /\ "Float" \in Basics
  /\ Width["Enum"] = Width["Int"]
BY WidthAssumption DEF Basics

\* A number is read from its bytes.
LEMMA NumberRead ==
  ASSUME NEW k \in Basics, NEW b \in Seq(Byte), Len(b) = Width[k],
         NEW rest \in Seq(Byte), NEW span, span.left = b \o rest
  PROVE  ReadNumber(span, k) = Read(rest, span.fields, <<Value(b)>>)
<1> DEFINE s == span.left
<1>1. /\ Len(s) = Len(b) + Len(rest) /\ Len(b) \in Nat /\ Len(rest) \in Nat
      /\ SubSeq(s, 1, Len(b)) = b
      /\ SubSeq(s, Len(b) + 1, Len(s)) = rest
  <2>1. Follows(s, b, rest)
    BY CutInTwo
  <2> QED
    BY <2>1 DEF Follows
<1>2. ~(Len(s) < Width[k])
  BY <1>1
<1> QED
  BY <1>1, <1>2 DEF ReadNumber, After, Read

\* A string is read from its length and its bytes.
LEMMA StringRead ==
  ASSUME NEW v \in Seq(Byte), Len(v) < Power[Width["Size"]],
         NEW rest \in Seq(Byte), NEW span,
         span.left = (Bytes("Size", Len(v)) \o v) \o rest
  PROVE  ReadString(span) = Read(rest, span.fields, v)
<1> DEFINE s == span.left
           w == Width["Size"]
           h == Bytes("Size", Len(v))
           n == Len(v)
<1>1. n \in Nat /\ w \in Nat
  BY LenProperties, Widths
<1>2. h \in Seq(Byte) /\ Len(h) = w /\ Value(h) = n
  BY <1>1, Widths, ReadBack DEF Byte
<1> HIDE DEF h
<1>3. /\ h \o v \in Seq(Byte) /\ Len(h \o v) = w + n
      /\ \A i \in 1..w : (h \o v)[i] = h[i]
      /\ \A i \in 1..n : (h \o v)[w + i] = v[i]
  <2>1. h \o v \in Seq(Byte) /\ Follows(h \o v, h, v)
    BY <1>2, CutInTwo
  <2> HIDE DEF w, n
  <2> QED
    BY <1>2, <2>1 DEF Follows, n
<1> DEFINE f == h \o v
<1> HIDE DEF f
<1>4. /\ s \in Seq(Byte) /\ Len(s) = (w + n) + Len(rest) /\ Len(rest) \in Nat
      /\ \A i \in 1..(w + n) : s[i] = f[i]
      /\ SubSeq(s, (w + n) + 1, Len(s)) = rest
  <2>1. f \in Seq(Byte) /\ Len(f) = w + n /\ s = f \o rest
    BY <1>3 DEF f, h
  <2>2. s \in Seq(Byte) /\ Follows(s, f, rest)
    BY <2>1, CutInTwo
  <2> HIDE DEF s, w, n
  <2> QED
    BY <2>1, <2>2 DEF Follows
<1> HIDE DEF s, w, n
<1>5. SubSeq(s, 1, w) = h
  <2>1. 0 + w <= Len(s) /\ 0 + w = w /\ 0 + 1 = 1
    BY <1>1, <1>4
  <2>2. \A i \in 1..w : 0 + i = i /\ i \in 1..(w + n)
    BY <1>1
  <2>3. \A i \in 1..w : s[0 + i] = h[i]
    BY <1>3, <1>4, <2>2 DEF f
  <2>4. 0 \in Nat
    OBVIOUS
  <2>5. SubSeq(s, 0 + 1, 0 + Len(h)) = h
    BY <1>2, <1>4, <2>1, <2>3, <2>4, Middle
  <2> QED
    BY <1>2, <2>1, <2>5
<1>6. SubSeq(s, w + 1, w + n) = v
  <2>1. w + n <= Len(s) /\ \A i \in 1..n : w + i \in 1..(w + n)
    BY <1>1, <1>4
  <2>2. \A i \in 1..n : s[w + i] = v[i]
    BY <1>3, <1>4, <2>1 DEF f
  <2>3. n = Len(v)
    BY DEF n
  <2> QED
    BY <1>1, <1>4, <2>1, <2>2, <2>3, Middle
<1>7. ~(Len(s) < w) /\ ~(Len(s) - w < n)
  BY <1>1, <1>4
<1>8. ReadString(span) = IF Len(s) < w \/ Len(s) - w < Value(SubSeq(s, 1, w)) THEN Short(span)
                         ELSE After(span, w + Value(SubSeq(s, 1, w)), SubSeq(s, w + 1, w + Value(SubSeq(s, 1, w))))
  BY DEF ReadString, s, w
<1>9. ReadString(span) = After(span, w + n, v)
  BY <1>2, <1>5, <1>6, <1>7, <1>8
<1> QED
  BY <1>4, <1>9 DEF After, Read, s

\* A vector is read from the bytes of its two coordinates.
LEMMA VectorRead ==
  ASSUME NEW a \in Seq(Byte), NEW b \in Seq(Byte),
         Len(a) = Width["Float"], Len(b) = Width["Float"],
         NEW rest \in Seq(Byte), NEW span, span.left = (a \o b) \o rest
  PROVE  ReadVector(span) = Read(rest, span.fields, <<Value(a), Value(b)>>)
<1> DEFINE s == span.left
           w == Width["Float"]
           f == a \o b
<1>1. w \in Nat /\ Len(a) = w /\ Len(b) = w
  BY Widths
<1>2. f \in Seq(Byte) /\ Follows(f, a, b)
  BY CutInTwo
<1>3. s \in Seq(Byte) /\ Follows(s, f, rest)
  <2>1. s = f \o rest
    OBVIOUS
  <2> HIDE DEF f, s
  <2> QED
    BY <1>2, <2>1, CutInTwo
<1> HIDE DEF s, f, w
<1>4. /\ Len(f) = w + w /\ Len(s) = (w + w) + Len(rest) /\ Len(rest) \in Nat
      /\ SubSeq(s, (w + w) + 1, Len(s)) = rest
      /\ \A i \in 1..w : f[i] = a[i] /\ f[w + i] = b[i]
      /\ \A i \in 1..(w + w) : s[i] = f[i]
  <2>1. Len(f) = w + w /\ \A i \in 1..w : f[i] = a[i] /\ f[w + i] = b[i]
    BY <1>1, <1>2 DEF Follows
  <2> QED
    BY <1>3, <2>1 DEF Follows
<1>5. SubSeq(s, 1, w) = a
  <2>1. 0 + w <= Len(s) /\ 0 + w = w /\ 0 + 1 = 1
    BY <1>1, <1>4
  <2>2. \A i \in 1..w : 0 + i = i /\ i \in 1..(w + w)
    BY <1>1
  <2>3. \A i \in 1..w : s[0 + i] = a[i]
    BY <1>4, <2>2
  <2>4. 0 \in Nat
    OBVIOUS
  <2>5. SubSeq(s, 0 + 1, 0 + Len(a)) = a
    BY <1>1, <1>3, <2>1, <2>3, <2>4, Middle
  <2> QED
    BY <1>1, <2>1, <2>5
<1>6. SubSeq(s, w + 1, w + w) = b
  <2>1. w + w <= Len(s) /\ \A i \in 1..w : w + i \in 1..(w + w)
    BY <1>1, <1>4
  <2>2. \A i \in 1..w : s[w + i] = b[i]
    BY <1>4, <2>1
  <2> QED
    BY <1>1, <1>3, <2>1, <2>2, Middle
<1>7. ~(Len(s) < 2 * w) /\ 2 * w = w + w
  BY <1>1, <1>4
<1>8. ReadVector(span) = IF Len(s) < 2 * w THEN Short(span)
                         ELSE After(span, 2 * w, <<Value(SubSeq(s, 1, w)), Value(SubSeq(s, w + 1, 2 * w))>>)
  BY DEF ReadVector, s, w
<1>9. ReadVector(span) = After(span, w + w, <<Value(a), Value(b)>>)
  BY <1>5, <1>6, <1>7, <1>8
<1> QED
  BY <1>4, <1>9 DEF After, Read, s

\* What is written for a number is its bytes.
LEMMA NumberBytes ==
  ASSUME NEW k \in Basics, NEW n \in Nat, n < Power[Width[k]]
  PROVE  /\ Bytes(k, n) \in Seq(Byte) /\ Len(Bytes(k, n)) = Width[k]
         /\ Value(Bytes(k, n)) = n
BY ReadBack DEF Byte

\* A sequence of one number, and of two.
LEMMA FewNumbers ==
  ASSUME NEW v \in Seq(Nat)
  PROVE  /\ Len(v) = 1 => v[1] \in Nat /\ v = <<v[1]>>
         /\ Len(v) = 2 => v[1] \in Nat /\ v[2] \in Nat /\ v = <<v[1], v[2]>>
<1>1. CASE Len(v) = 1
  <2>1. v[1] \in Nat
    <3>1. 1 \in 1..Len(v)
      BY <1>1
    <3> QED
      BY <3>1, ElementOfSeq
  <2> DEFINE t == <<v[1]>>
  <2>2. t \in Seq(Nat) /\ Len(t) = 1 /\ t[1] = v[1]
    BY <2>1
  <2> HIDE DEF t
  <2>3. \A i \in 1..Len(v) : v[i] = t[i]
    BY <1>1, <2>2
  <2>4. v = t
    BY <1>1, <2>2, <2>3, SeqEqual
  <2> QED
    BY <1>1, <2>1, <2>4 DEF t
<1>2. CASE Len(v) = 2
  <2>1. v[1] \in Nat /\ v[2] \in Nat
    <3>1. 1 \in 1..Len(v) /\ 2 \in 1..Len(v)
      BY <1>2
    <3> QED
      BY <3>1, ElementOfSeq
  <2> DEFINE t == <<v[1], v[2]>>
  <2>2. t \in Seq(Nat) /\ Len(t) = 2 /\ t[1] = v[1] /\ t[2] = v[2]
    BY <2>1
  <2> HIDE DEF t
  <2>3. \A i \in 1..Len(v) : v[i] = t[i]
    BY <1>2, <2>2
  <2>4. v = t
    BY <1>2, <2>2, <2>3, SeqEqual
  <2> QED
    BY <1>2, <2>1, <2>4 DEF t
<1>3. Len(v) = 1 \/ Len(v) = 2 \/ (Len(v) # 1 /\ Len(v) # 2)
  OBVIOUS
<1> QED
  BY <1>1, <1>2, <1>3

(***************************************************************************)
(* Whatever comes after a field, the field is read from its bytes as it    *)
(* was written, and the rest is left.                                      *)
(***************************************************************************)
LEMMA FieldRead ==
  ASSUME NEW kind \in Kinds, NEW v \in Seq(Nat), IsOfKind(v, kind),
         NEW rest \in Seq(Byte), NEW span,
         span.left = Field(kind, v) \o rest, span.short = FALSE
  PROVE  Field(kind, v) \in Seq(Byte) /\ ReadField(span, kind) = Read(rest, span.fields, v)
<1>1. CASE kind = "String"
  <2>1. v \in Seq(Byte) /\ Len(v) < Power[Width["Size"]] /\ Len(v) \in Nat
    BY <1>1, LenProperties DEF IsOfKind
  <2>2. Field(kind, v) = Bytes("Size", Len(v)) \o v
    BY <1>1 DEF Field
  <2>3. Bytes("Size", Len(v)) \in Seq(Byte)
    BY <2>1, Widths, NumberBytes
  <2>4. Field(kind, v) \in Seq(Byte)
    BY <2>1, <2>2, <2>3, ConcatProperties
  <2>5. ReadField(span, kind) = ReadString(span)
    BY <1>1 DEF ReadField
  <2>6. ReadString(span) = Read(rest, span.fields, v)
    BY <2>1, <2>2, StringRead
  <2> QED
    BY <2>4, <2>5, <2>6
<1>2. CASE kind = "Vector"
  <2>1. /\ v = <<v[1], v[2]>> /\ v[1] \in Nat /\ v[2] \in Nat
        /\ v[1] < Power[Width["Float"]] /\ v[2] < Power[Width["Float"]]
    <3>1. Len(v) = 2 /\ \A i \in 1..2 : v[i] < Power[Width["Float"]]
      BY <1>2 DEF IsOfKind
    <3> QED
      BY <3>1, FewNumbers
  <2> DEFINE a == Bytes("Float", v[1])
             b == Bytes("Float", v[2])
  <2>2. /\ a \in Seq(Byte) /\ Len(a) = Width["Float"] /\ Value(a) = v[1]
        /\ b \in Seq(Byte) /\ Len(b) = Width["Float"] /\ Value(b) = v[2]
    BY <2>1, Widths, NumberBytes
  <2>3. Field(kind, v) = a \o b
    BY <1>2 DEF Field
  <2> HIDE DEF a, b
  <2>4. Field(kind, v) \in Seq(Byte)
    BY <2>2, <2>3, ConcatProperties
  <2>5. ReadField(span, kind) = ReadVector(span)
    BY <1>2 DEF ReadField
  <2>6. ReadVector(span) = Read(rest, span.fields, <<Value(a), Value(b)>>)
    <3>1. span.left = (a \o b) \o rest
      BY <2>3
    <3> QED
      BY <2>2, <3>1, VectorRead
  <2>7. ReadVector(span) = Read(rest, span.fields, v)
    BY <2>1, <2>2, <2>6
  <2> QED
    BY <2>4, <2>5, <2>7
<1>3. CASE kind \in Basics
  <2>1. v = <<v[1]>> /\ v[1] \in Nat /\ v[1] < Power[Width[kind]]
    <3>1. Len(v) = 1 /\ v[1] < Power[Width[kind]]
      BY <1>3 DEF IsOfKind, Basics
    <3> QED
      BY <3>1, FewNumbers
  <2>2. PICK b \in Seq(Byte) : Field(kind, v) = b /\ Len(b) = Width[kind] /\ Value(b) = v[1]
    <3>1. CASE kind = "Enum"
      <4>1. Field(kind, v) = Bytes("Int", v[1])
        BY <3>1 DEF Field
      <4>2. v[1] < Power[Width["Int"]] /\ Width[kind] = Width["Int"]
        BY <2>1, <3>1, Widths
      <4> QED
        BY <2>1, <4>1, <4>2, Widths, NumberBytes
    <3>2. CASE kind # "Enum"
      <4>1. Field(kind, v) = Bytes(kind, v[1])
        BY <1>3, <3>2 DEF Field, Basics
      <4> QED
        BY <1>3, <2>1, <4>1, NumberBytes
    <3> QED
      BY <3>1, <3>2
  <2>3. ReadField(span, kind) = ReadNumber(span, kind)
    BY <1>3 DEF ReadField, Basics
  <2>4. ReadNumber(span, kind) = Read(rest, span.fields, <<Value(b)>>)
    BY <1>3, <2>2, NumberRead
  <2>5. ReadNumber(span, kind) = Read(rest, span.fields, v)
    BY <2>1, <2>2, <2>4
  <2> QED
    BY <2>2, <2>3, <2>5
<1> QED
  BY <1>1, <1>2, <1>3 DEF Kinds

-----------------------------------------------------------------------------
(* The fields of a packet, one after the other *)

\* f takes values of S at the numbers up to n, from the value a by steps.
IsRecursiveTo(f, n, S, a, step) ==
  /\ f \in [0..n -> S] /\ f[0] = a
  /\ \A i \in 1..n : f[i] = step[<<i, f[i - 1]>>]

\* There is such a sequence of so many values.
LEMMA RecursionTo ==
  ASSUME NEW n \in Nat, NEW S, NEW a \in S, NEW step, step \in [(1..n) \X S -> S]
  PROVE  \E f : IsRecursiveTo(f, n, S, a, step)
<1> DEFINE all == [p \in Nat \X S |-> IF p[1] < n THEN step[<<p[1] + 1, p[2]>>] ELSE a]
<1>1. /\ all \in [Nat \X S -> S]
      /\ \A i \in Nat, s \in S : i < n => all[<<i, s>>] = step[<<i + 1, s>>]
  <2>1. ASSUME NEW i \in Nat, NEW s \in S
        PROVE  (IF i < n THEN step[<<i + 1, s>>] ELSE a) \in S
    <3>1. CASE i < n
      <4>1. <<i + 1, s>> \in (1..n) \X S
        BY <3>1
      <4> QED
        BY <3>1, <4>1
    <3>2. CASE ~(i < n)
      BY <3>2
    <3> QED
      BY <3>1, <3>2
  <2> QED
    BY <2>1
<1> HIDE DEF all
<1>2. PICK g : IsRecursive(g, S, a, all)
  BY <1>1, Recursion
<1>3. /\ g \in [Nat -> S] /\ g[0] = a
      /\ \A i \in Nat : i < n => g[i + 1] = step[<<i + 1, g[i]>>]
  BY <1>1, <1>2 DEF IsRecursive
<1> DEFINE f == [i \in 0..n |-> g[i]]
<1>4. f \in [0..n -> S] /\ f[0] = a
  BY <1>3
<1>5. ASSUME NEW i \in 1..n PROVE f[i] = step[<<i, f[i - 1]>>]
  <2>1. i - 1 \in Nat /\ i - 1 < n /\ (i - 1) + 1 = i /\ i - 1 \in 0..n /\ i \in 0..n
    OBVIOUS
  <2>2. g[(i - 1) + 1] = step[<<(i - 1) + 1, g[i - 1]>>]
    BY <1>3, <2>1
  <2> QED
    BY <2>1, <2>2
<1> QED
  BY <1>4, <1>5 DEF IsRecursiveTo

\* last holds the bytes of so many fields, up to the last of n.
AreLast(last, n, kinds, fields) ==
  /\ last \in [0..n -> Seq(Byte)] /\ last[0] = <<>>
  /\ \A i \in 1..n : last[i] = Field(kinds[(n - i) + 1], fields[(n - i) + 1]) \o last[i - 1]

\* The bytes of the fields are put together from the last one.
LEMMA FieldsWritten ==
  ASSUME NEW n \in Nat, NEW kinds, NEW fields, Len(fields) = n,
         \A i \in 1..n : Field(kinds[i], fields[i]) \in Seq(Byte)
  PROVE  AreLast(LastFields(kinds, fields), n, kinds, fields)
<1> DEFINE F(i) == Field(kinds[(n - i) + 1], fields[(n - i) + 1])
           step == [p \in (1..n) \X Seq(Byte) |-> F(p[1]) \o p[2]]
<1>1. \A i \in 1..n : F(i) \in Seq(Byte)
  <2>1. \A i \in 1..n : (n - i) + 1 \in 1..n
    OBVIOUS
  <2> QED
    BY <2>1
<1> HIDE DEF F
<1>2. /\ step \in [(1..n) \X Seq(Byte) -> Seq(Byte)]
      /\ \A i \in 1..n, b \in Seq(Byte) : step[<<i, b>>] = F(i) \o b /\ F(i) \o b \in Seq(Byte)
  <2>1. \A i \in 1..n, b \in Seq(Byte) : F(i) \o b \in Seq(Byte)
    BY <1>1, ConcatProperties
  <2> QED
    BY <2>1
<1> HIDE DEF step
<1>3. <<>> \in Seq(Byte)
  BY EmptySeq
<1>4. PICK f : IsRecursiveTo(f, n, Seq(Byte), <<>>, step)
  BY <1>2, <1>3, RecursionTo
<1>5. f \in [0..n -> Seq(Byte)] /\ f[0] = <<>> /\ \A i \in 1..n : f[i] = F(i) \o f[i - 1]
  <2>1. /\ f \in [0..n -> Seq(Byte)] /\ f[0] = <<>>
        /\ \A i \in 1..n : f[i] = step[<<i, f[i - 1]>>]
    BY <1>4 DEF IsRecursiveTo
  <2>2. \A i \in 1..n : i - 1 \in 0..n
    OBVIOUS
  <2>3. \A i \in 1..n : f[i - 1] \in Seq(Byte)
    BY <2>1, <2>2
  <2> QED
    BY <1>2, <2>1, <2>3
<1>6. f = [i \in 0..n |-> IF i = 0 THEN <<>> ELSE F(i) \o f[i - 1]]
  <2>1. ASSUME NEW i \in 0..n PROVE f[i] = IF i = 0 THEN <<>> ELSE F(i) \o f[i - 1]
    <3>1. CASE i = 0
      BY <1>5, <3>1
    <3>2. CASE i # 0
      <4>1. i \in 1..n
        BY <3>2
      <4> QED
        BY <1>5, <3>2, <4>1
    <3> QED
      BY <3>1, <3>2
  <2> QED
    BY <1>5, <2>1
<1> DEFINE last[i \in 0..Len(fields)] ==
             IF i = 0 THEN <<>>
             ELSE Field(kinds[Len(fields) - i + 1], fields[Len(fields) - i + 1]) \o last[i - 1]
<1>7. LastFields(kinds, fields) = last
  BY DEF LastFields
<1>8. last = [i \in 0..Len(fields) |->
                IF i = 0 THEN <<>>
                ELSE Field(kinds[Len(fields) - i + 1], fields[Len(fields) - i + 1]) \o last[i - 1]]
  BY <1>6 DEF F
<1> HIDE DEF last
<1>9. last = [i \in 0..n |-> IF i = 0 THEN <<>> ELSE F(i) \o last[i - 1]]
  BY <1>8 DEF F
<1>10. last[0] = <<>> /\ \A i \in 1..n : last[i] = F(i) \o last[i - 1]
  <2>1. \A i \in 0..n : last[i] = IF i = 0 THEN <<>> ELSE F(i) \o last[i - 1]
    BY <1>9
  <2>2. 0 \in 0..n /\ \A i \in 1..n : i \in 0..n /\ i # 0
    OBVIOUS
  <2> QED
    BY <2>1, <2>2
<1>11. \A i \in Nat : i <= n => last[i] \in Seq(Byte)
  <2> DEFINE Typed == {i \in Nat : i <= n => last[i] \in Seq(Byte)}
  <2>1. 0 \in Typed
    BY <1>3, <1>10
  <2>2. ASSUME NEW i \in Nat, i \in Typed PROVE i + 1 \in Typed
    <3> SUFFICES ASSUME i + 1 <= n PROVE last[i + 1] \in Seq(Byte)
      OBVIOUS
    <3>1. i + 1 \in 1..n /\ (i + 1) - 1 = i /\ last[i] \in Seq(Byte)
      BY <2>2
    <3>2. last[i + 1] = F(i + 1) \o last[i]
      BY <1>10, <3>1
    <3> QED
      BY <1>2, <3>1, <3>2
  <2> HIDE DEF Typed
  <2>3. \A i \in Nat : i \in Typed
    BY <2>1, <2>2, Induction
  <2> QED
    BY <2>3 DEF Typed
<1>12. last \in [0..n -> Seq(Byte)]
  <2>1. last = [i \in 0..n |-> last[i]]
    BY <1>9
  <2>2. \A i \in 0..n : last[i] \in Seq(Byte)
    BY <1>11
  <2> QED
    BY <2>1, <2>2
<1> QED
  BY <1>7, <1>10, <1>12 DEF AreLast, F

Spans == [left : Seq(Byte), fields : Seq(Seq(Nat)), short : BOOLEAN]

\* The number that bytes hold is a natural number.
LEMMA ValueType ==
  ASSUME NEW b \in Seq(Byte)
  PROVE  Value(b) \in Nat
<1>1. Byte \subseteq Nat /\ Len(b) \in Nat
  BY BaseAssumption, LenProperties DEF Byte
<1>2. b \in Seq(Nat)
  BY <1>1, SeqMonotonic
<1>3. PICK last \in [0..Len(b) -> Nat] : Value(b) = last[Len(b)]
  BY <1>1, <1>2, ValueAddsUp
<1> QED
  BY <1>1, <1>3

\* A part of a sequence is one of the same elements.
LEMMA PartType ==
  ASSUME NEW S, NEW s \in Seq(S), NEW m \in Nat \ {0}, NEW n \in Nat, n <= Len(s)
  PROVE  /\ SubSeq(s, m, n) \in Seq(S)
         /\ Len(SubSeq(s, m, n)) = IF m <= n THEN n - m + 1 ELSE 0
         /\ \A i \in 1..(n - m + 1) : SubSeq(s, m, n)[i] = s[m + i - 1]
<1>1. Len(s) \in Nat
  BY LenProperties
<1>2. \A i \in m..n : i \in 1..Len(s)
  BY <1>1
<1>3. \A i \in m..n : s[i] \in S
  BY <1>2, ElementOfSeq
<1>4. m \in Int /\ n \in Int
  OBVIOUS
<1> QED
  BY <1>3, <1>4, SubSeqProperties

\* A span from which a field was read, and one too short for it, are spans.
LEMMA SpanTypes ==
  ASSUME NEW span \in Spans
  PROVE  /\ Short(span) \in Spans
         /\ \A n \in Nat, v \in Seq(Nat) : After(span, n, v) \in Spans
<1>1. Short(span) \in Spans
  BY DEF Short, Spans
<1>2. ASSUME NEW n \in Nat, NEW v \in Seq(Nat) PROVE After(span, n, v) \in Spans
  <2>1. span.left \in Seq(Byte) /\ span.fields \in Seq(Seq(Nat))
    BY DEF Spans
  <2>2. SubSeq(span.left, n + 1, Len(span.left)) \in Seq(Byte)
    <3>1. Len(span.left) \in Nat /\ n + 1 \in Nat \ {0}
      BY <2>1, LenProperties
    <3> QED
      BY <2>1, <3>1, PartType
  <2>3. Append(span.fields, v) \in Seq(Seq(Nat))
    BY <2>1, AppendProperties
  <2> QED
    BY <2>2, <2>3 DEF After, Spans
<1> QED
  BY <1>1, <1>2

\* A field is read from a span, and a span is left.
LEMMA FieldType ==
  ASSUME NEW span \in Spans, NEW kind \in Kinds
  PROVE  ReadField(span, kind) \in Spans
<1> DEFINE s == span.left
<1>1. s \in Seq(Byte) /\ span.short \in BOOLEAN
  BY DEF Spans
<1>2. Len(s) \in Nat
  BY <1>1, LenProperties
<1>3. Byte \subseteq Nat
  BY BaseAssumption DEF Byte
<1> HIDE DEF s
<1>4. ASSUME NEW m \in Nat \ {0}, NEW n \in Nat, n <= Len(s)
      PROVE  SubSeq(s, m, n) \in Seq(Nat) /\ Value(SubSeq(s, m, n)) \in Nat
  <2>1. SubSeq(s, m, n) \in Seq(Byte)
    BY <1>1, <1>4, PartType
  <2>2. Value(SubSeq(s, m, n)) \in Nat
    BY <2>1, ValueType
  <2>3. SubSeq(s, m, n) \in Seq(Nat)
    BY <1>3, <2>1, SeqMonotonic
  <2> QED
    BY <2>2, <2>3
<1>5. CASE span.short
  BY <1>5 DEF ReadField
<1>6. CASE ~span.short /\ kind = "String"
  <2> DEFINE w == Width["Size"]
             n == Value(SubSeq(s, 1, w))
  <2>1. w \in Nat
    BY Widths
  <2>2. ReadField(span, kind) = IF Len(s) < w \/ Len(s) - w < n THEN Short(span)
                                ELSE After(span, w + n, SubSeq(s, w + 1, w + n))
    BY <1>1, <1>6 DEF ReadField, ReadString, s
  <2> HIDE DEF w, n
  <2>3. ASSUME ~(Len(s) < w), ~(Len(s) - w < n)
        PROVE  After(span, w + n, SubSeq(s, w + 1, w + n)) \in Spans
    <3>1. n \in Nat
      <4>1. w <= Len(s) /\ 1 \in Nat \ {0}
        BY <1>2, <2>1, <2>3
      <4> QED
        BY <1>4, <2>1, <4>1 DEF n
    <3>2. w + 1 \in Nat \ {0} /\ w + n \in Nat /\ w + n <= Len(s)
      BY <1>2, <2>1, <2>3, <3>1
    <3> QED
      BY <1>4, <3>2, SpanTypes
  <2> QED
    BY <2>2, <2>3, SpanTypes
<1>7. CASE ~span.short /\ kind = "Vector"
  <2> DEFINE w == Width["Float"]
             v == <<Value(SubSeq(s, 1, w)), Value(SubSeq(s, w + 1, 2 * w))>>
  <2>1. w \in Nat
    BY Widths
  <2>2. ReadField(span, kind) = IF Len(s) < 2 * w THEN Short(span) ELSE After(span, 2 * w, v)
    BY <1>1, <1>7 DEF ReadField, ReadVector, s
  <2> HIDE DEF w
  <2>3. ASSUME ~(Len(s) < 2 * w) PROVE v \in Seq(Nat)
    <3>1. /\ w <= Len(s) /\ 2 * w <= Len(s) /\ 2 * w \in Nat
          /\ 1 \in Nat \ {0} /\ w + 1 \in Nat \ {0}
      BY <1>2, <2>1, <2>3
    <3>2. Value(SubSeq(s, 1, w)) \in Nat
      BY <1>4, <2>1, <3>1
    <3>3. Value(SubSeq(s, w + 1, 2 * w)) \in Nat
      BY <1>4, <3>1
    <3> QED
      BY <3>2, <3>3
  <2>4. 2 * w \in Nat
    BY <2>1
  <2> HIDE DEF v
  <2> QED
    BY <2>2, <2>3, <2>4, SpanTypes
<1>8. CASE ~span.short /\ kind \in Basics
  <2> DEFINE w == Width[kind]
             v == <<Value(SubSeq(s, 1, w))>>
  <2>1. w \in Nat
    BY <1>8, Widths
  <2>2. ReadField(span, kind) = ReadNumber(span, kind)
    BY <1>1, <1>8 DEF ReadField, Basics
  <2>3. ReadNumber(span, kind) = IF Len(s) < w THEN Short(span) ELSE After(span, w, v)
    BY DEF ReadNumber, s
  <2> HIDE DEF w
  <2>4. ASSUME ~(Len(s) < w) PROVE v \in Seq(Nat)
    <3>1. w <= Len(s) /\ 1 \in Nat \ {0}
      BY <1>2, <2>1, <2>4
    <3>2. Value(SubSeq(s, 1, w)) \in Nat
      BY <1>4, <2>1, <3>1
    <3> QED
      BY <3>2
  <2> HIDE DEF v
  <2> QED
    BY <2>1, <2>2, <2>3, <2>4, SpanTypes
<1> QED
  BY <1>5, <1>6, <1>7, <1>8 DEF Kinds

\* The span is what each field leaves to the next.
LEMMA FieldsRead ==
  ASSUME NEW span \in Spans, NEW kinds \in Seq(Kinds)
  PROVE  /\ ReadFields(span, kinds) \in [0..Len(kinds) -> Spans]
         /\ ReadFields(span, kinds)[0] = span
         /\ \A i \in 1..Len(kinds) :
              ReadFields(span, kinds)[i] = ReadField(ReadFields(span, kinds)[i - 1], kinds[i])
<1> DEFINE n == Len(kinds)
           step == [p \in (1..n) \X Spans |-> ReadField(p[2], kinds[p[1]])]
<1>1. n \in Nat /\ \A i \in 1..n : kinds[i] \in Kinds
  BY LenProperties, ElementOfSeq
<1> HIDE DEF n
<1>2. /\ step \in [(1..n) \X Spans -> Spans]
      /\ \A i \in 1..n, s \in Spans : step[<<i, s>>] = ReadField(s, kinds[i])
  BY <1>1, FieldType
<1> HIDE DEF step
<1>3. PICK f : IsRecursiveTo(f, n, Spans, span, step)
  BY <1>1, <1>2, RecursionTo
<1>4. f \in [0..n -> Spans] /\ f[0] = span /\ \A i \in 1..n : f[i] = ReadField(f[i - 1], kinds[i])
  <2>1. /\ f \in [0..n -> Spans] /\ f[0] = span
        /\ \A i \in 1..n : f[i] = step[<<i, f[i - 1]>>]
    BY <1>3 DEF IsRecursiveTo
  <2>2. \A i \in 1..n : i - 1 \in 0..n
    BY <1>1
  <2>3. \A i \in 1..n : f[i - 1] \in Spans
    BY <2>1, <2>2
  <2> QED
    BY <1>2, <2>1, <2>3
<1>5. f = [i \in 0..n |-> IF i = 0 THEN span ELSE ReadField(f[i - 1], kinds[i])]
  <2>1. ASSUME NEW i \in 0..n PROVE f[i] = IF i = 0 THEN span ELSE ReadField(f[i - 1], kinds[i])
    <3>1. CASE i = 0
      BY <1>4, <3>1
    <3>2. CASE i # 0
      <4>1. i \in 1..n
        BY <1>1, <3>2
      <4> QED
        BY <1>4, <3>2, <4>1
    <3> QED
      BY <3>1, <3>2
  <2> QED
    BY <1>4, <2>1
<1> DEFINE read[i \in 0..Len(kinds)] == IF i = 0 THEN span ELSE ReadField(read[i - 1], kinds[i])
<1>6. ReadFields(span, kinds) = read
  BY DEF ReadFields
<1>7. read = [i \in 0..Len(kinds) |-> IF i = 0 THEN span ELSE ReadField(read[i - 1], kinds[i])]
  BY <1>5 DEF n
<1> HIDE DEF read
<1>8. read[0] = span /\ \A i \in 1..n : read[i] = ReadField(read[i - 1], kinds[i])
  <2>1. \A i \in 0..n : read[i] = IF i = 0 THEN span ELSE ReadField(read[i - 1], kinds[i])
    BY <1>7 DEF n
  <2>2. 0 \in 0..n /\ \A i \in 1..n : i \in 0..n /\ i # 0
    BY <1>1
  <2> QED
    BY <2>1, <2>2
<1>9. \A i \in Nat : i <= n => read[i] \in Spans
  <2> DEFINE Typed == {i \in Nat : i <= n => read[i] \in Spans}
  <2>1. 0 \in Typed
    BY <1>8
  <2>2. ASSUME NEW i \in Nat, i \in Typed PROVE i + 1 \in Typed
    <3> SUFFICES ASSUME i + 1 <= n PROVE read[i + 1] \in Spans
      OBVIOUS
    <3>1. i + 1 \in 1..n /\ (i + 1) - 1 = i /\ read[i] \in Spans
      BY <1>1, <2>2
    <3>2. read[i + 1] = ReadField(read[i], kinds[i + 1]) /\ kinds[i + 1] \in Kinds
      BY <1>1, <1>8, <3>1
    <3> QED
      BY <3>1, <3>2, FieldType
  <2> HIDE DEF Typed
  <2>3. \A i \in Nat : i \in Typed
    BY <2>1, <2>2, Induction
  <2> QED
    BY <2>3 DEF Typed
<1>10. read \in [0..n -> Spans]
  <2>1. read = [i \in 0..n |-> read[i]]
    BY <1>7 DEF n
  <2>2. \A i \in 0..n : read[i] \in Spans
    BY <1>1, <1>9
  <2> QED
    BY <2>1, <2>2
<1> QED
  BY <1>6, <1>8, <1>10 DEF n

\* The first n fields are of their kinds.
AreOfKinds(fields, n, kinds) == \A i \in 1..n : IsOfKind(fields[i], kinds[i])

\* The first i fields have been read from span, and the last n - i are left.
HasRead(span, i, n, last, fields) ==
  /\ span.left = last[n - i] /\ ~span.short
  /\ Len(span.fields) = i /\ \A j \in 1..i : span.fields[j] = fields[j]

\* Fields are read back from the bytes written for them.
LEMMA FieldsReadBack ==
  ASSUME NEW n \in Nat, NEW kinds \in Seq(Kinds), NEW fields \in Seq(Seq(Nat)),
         Len(kinds) = n, Len(fields) = n, AreOfKinds(fields, n, kinds),
         NEW last, AreLast(last, n, kinds, fields),
         NEW span \in Spans, span.left = last[n], span.fields = <<>>, ~span.short
  PROVE  LET end == ReadFields(span, kinds)[n] IN end.fields = fields /\ ~end.short
<1> DEFINE read == ReadFields(span, kinds)
<1>1. /\ read \in [0..n -> Spans] /\ read[0] = span
      /\ \A i \in 1..n : read[i] = ReadField(read[i - 1], kinds[i])
  <2>1. /\ read \in [0..Len(kinds) -> Spans] /\ read[0] = span
        /\ \A i \in 1..Len(kinds) : read[i] = ReadField(read[i - 1], kinds[i])
    BY FieldsRead
  <2> HIDE DEF read
  <2> QED
    BY <2>1
<1> HIDE DEF read
<1>2. \A i \in 1..n : kinds[i] \in Kinds /\ fields[i] \in Seq(Nat)
  BY ElementOfSeq
<1> DEFINE Done == {i \in Nat : i <= n => HasRead(read[i], i, n, last, fields)}
<1>3. 0 \in Done
  <2>1. n - 0 = n /\ Len(<<>>) = 0
    OBVIOUS
  <2>2. HasRead(span, 0, n, last, fields)
    BY <2>1 DEF HasRead
  <2> QED
    BY <1>1, <2>2
<1>4. ASSUME NEW i \in Nat, i \in Done PROVE i + 1 \in Done
  <2> SUFFICES ASSUME i + 1 <= n PROVE HasRead(read[i + 1], i + 1, n, last, fields)
    OBVIOUS
  <2> DEFINE before == read[i]
             k == kinds[i + 1]
             v == fields[i + 1]
             rest == last[(n - i) - 1]
  <2>1. /\ i + 1 \in 1..n /\ (i + 1) - 1 = i /\ i \in 0..n /\ i <= n
        /\ n - i \in 1..n /\ (n - (n - i)) + 1 = i + 1
        /\ (n - i) - 1 \in 0..n /\ (n - i) - 1 = n - (i + 1)
    OBVIOUS
  <2>2. before \in Spans /\ HasRead(before, i, n, last, fields)
    BY <1>1, <1>4, <2>1
  <2>3. rest \in Seq(Byte) /\ last[n - i] = Field(k, v) \o rest
    <3>1. last[n - i] = Field(kinds[(n - (n - i)) + 1], fields[(n - (n - i)) + 1]) \o last[(n - i) - 1]
      BY <2>1 DEF AreLast
    <3>2. last[(n - i) - 1] \in Seq(Byte)
      BY <2>1 DEF AreLast
    <3> QED
      BY <2>1, <3>1, <3>2
  <2>4. k \in Kinds /\ v \in Seq(Nat) /\ IsOfKind(v, k)
    BY <1>2, <2>1 DEF AreOfKinds
  <2>5. read[i + 1] = ReadField(before, k)
    BY <1>1, <2>1
  <2> HIDE DEF before, k, rest
  <2>6. before.left = Field(k, v) \o rest /\ before.short = FALSE
        /\ Len(before.fields) = i /\ (\A j \in 1..i : before.fields[j] = fields[j])
        /\ before.fields \in Seq(Seq(Nat))
    BY <2>2, <2>3 DEF HasRead, Spans
  <2> HIDE DEF v
  <2>7. read[i + 1] = Read(rest, before.fields, v)
    BY <2>3, <2>4, <2>5, <2>6, FieldRead
  <2> DEFINE f == Append(before.fields, v)
  <2>8. /\ Len(f) = i + 1 /\ f[i + 1] = v
        /\ \A j \in 1..i : f[j] = before.fields[j]
    BY <2>4, <2>6, AppendProperties
  <2> HIDE DEF f
  <2>9. \A j \in 1..(i + 1) : f[j] = fields[j]
    <3>1. \A j \in 1..(i + 1) : j \in 1..i \/ j = i + 1
      OBVIOUS
    <3> QED
      BY <2>6, <2>8, <3>1 DEF v
  <2>10. /\ read[i + 1].left = rest /\ read[i + 1].fields = f /\ read[i + 1].short = FALSE
    BY <2>7 DEF Read, f
  <2>11. rest = last[n - (i + 1)]
    BY <2>1 DEF rest
  <2> QED
    BY <2>8, <2>9, <2>10, <2>11 DEF HasRead
<1> HIDE DEF Done
<1>5. \A i \in Nat : i \in Done
  BY <1>3, <1>4, Induction
<1>6. HasRead(read[n], n, n, last, fields) /\ read[n] \in Spans
  BY <1>1, <1>5 DEF Done
<1> DEFINE f == read[n].fields
<1>7. f \in Seq(Seq(Nat)) /\ Len(f) = n /\ \A j \in 1..n : f[j] = fields[j]
  BY <1>6 DEF HasRead, Spans
<1> HIDE DEF f
<1>8. f = fields
  BY <1>7, SeqEqual
<1> QED
  BY <1>6, <1>8 DEF HasRead, f, read

\* What there is to write of a packet.
LEMMA PacketParts ==
  ASSUME NEW types \in Seq(Seq(Kinds)), NEW packet, IsPacket(types, packet)
  PROVE  LET id == packet.id
             fields == packet.fields
             kinds == types[id + 1]
             n == Len(fields)
         IN  /\ id \in Nat /\ id < Len(types) /\ packet = [id |-> id, fields |-> fields]
             /\ kinds \in Seq(Kinds) /\ fields \in Seq(Seq(Nat))
             /\ n \in Nat /\ Len(kinds) = n
             /\ AreOfKinds(fields, n, kinds)
             /\ AreLast(LastFields(kinds, fields), n, kinds, fields)
<1> DEFINE id == packet.id
           fields == packet.fields
           kinds == types[id + 1]
           n == Len(fields)
<1>1. /\ packet \in [id : 0..(Len(types) - 1), fields : Seq(Seq(Nat))]
      /\ Len(fields) = Len(kinds)
      /\ \A i \in DOMAIN fields : IsOfKind(fields[i], kinds[i])
  BY DEF IsPacket
<1>2. Len(types) \in Nat
  BY LenProperties
<1>3. /\ id \in Nat /\ id < Len(types) /\ id + 1 \in 1..Len(types)
      /\ packet = [id |-> id, fields |-> fields] /\ fields \in Seq(Seq(Nat))
  BY <1>1, <1>2
<1>4. kinds \in Seq(Kinds)
  BY <1>3, ElementOfSeq
<1>5. n \in Nat /\ DOMAIN fields = 1..n
  BY <1>3, LenProperties
<1> HIDE DEF kinds, fields, n
<1>6. \A i \in 1..n : Field(kinds[i], fields[i]) \in Seq(Byte)
  <2> SUFFICES ASSUME NEW i \in 1..n PROVE Field(kinds[i], fields[i]) \in Seq(Byte)
    OBVIOUS
  <2> DEFINE b == Field(kinds[i], fields[i])
             span == [left |-> b \o <<>>, fields |-> <<>>, short |-> FALSE]
  <2>1. kinds[i] \in Kinds /\ fields[i] \in Seq(Nat) /\ IsOfKind(fields[i], kinds[i])
    BY <1>1, <1>3, <1>4, <1>5, ElementOfSeq DEF n
  <2>2. <<>> \in Seq(Byte) /\ span.left = b \o <<>> /\ span.short = FALSE
    BY EmptySeq
  <2> HIDE DEF span
  <2> QED
    BY <2>1, <2>2, FieldRead
<1>7. AreLast(LastFields(kinds, fields), n, kinds, fields)
  BY <1>5, <1>6, FieldsWritten DEF n
<1> QED
  BY <1>1, <1>3, <1>4, <1>5, <1>7 DEF kinds, fields, n, AreOfKinds

(***************************************************************************)
(* A packet is read back from the bytes it is written as: unserialize()    *)
(* undoes serialize(), for any list of types, any packet that the widths   *)
(* can hold, and any values.                                               *)
(***************************************************************************)
THEOREM RoundTrip ==
  ASSUME NEW types \in Seq(Seq(Kinds)), NEW packet, IsPacket(types, packet),
         packet.id < Power[Width["Size"]]
  PROVE  /\ Serialize(types, packet) \in Seq(Byte)
         /\ Len(Serialize(types, packet)) >= Width["Size"]
         /\ Unserialize(types, Serialize(types, packet)) = packet
<1> DEFINE id == packet.id
           fields == packet.fields
           kinds == types[id + 1]
           n == Len(fields)
           last == LastFields(kinds, fields)
           b == Bytes("Size", id)
           rest == last[n]
           s == Serialize(types, packet)
<1>1. /\ id \in Nat /\ id < Len(types) /\ packet = [id |-> id, fields |-> fields]
      /\ kinds \in Seq(Kinds) /\ fields \in Seq(Seq(Nat))
      /\ n \in Nat /\ Len(kinds) = n /\ Len(fields) = n
      /\ AreOfKinds(fields, n, kinds)
      /\ AreLast(last, n, kinds, fields)
  BY PacketParts
<1>2. s = b \o rest
  BY DEF Serialize
<1>3. b \in Seq(Byte) /\ Len(b) = Width["Size"] /\ Value(b) = id
  BY <1>1, Widths, NumberBytes
<1>4. rest \in Seq(Byte) /\ Len(types) \in Nat
  <2>1. Len(types) \in Nat
    BY LenProperties
  <2> HIDE DEF last, n
  <2>2. last \in [0..n -> Seq(Byte)] /\ n \in 0..n
    BY <1>1 DEF AreLast
  <2> QED
    BY <2>1, <2>2
<1> HIDE DEF s, b, rest, last, n, kinds, fields, id
<1>5. s \in Seq(Byte) /\ Len(s) >= Width["Size"]
  <2>1. s \in Seq(Byte) /\ Follows(s, b, rest)
    BY <1>2, <1>3, <1>4, CutInTwo
  <2> QED
    BY <1>3, <2>1, Widths DEF Follows
<1> DEFINE start == ReadNumber(Span(s), "Size")
           blank == [start EXCEPT !.fields = <<>>]
<1>6. start = Read(rest, <<>>, <<id>>)
  <2> DEFINE span == Span(s)
  <2>1. span.left = b \o rest /\ span.fields = <<>>
    BY <1>2 DEF Span
  <2> HIDE DEF span
  <2>2. "Size" \in Basics
    BY Widths
  <2>3. ReadNumber(span, "Size") = Read(rest, span.fields, <<Value(b)>>)
    BY <1>3, <1>4, <2>1, <2>2, NumberRead
  <2> QED
    BY <1>3, <2>1, <2>3 DEF span
<1>7. /\ start.left = rest /\ start.short = FALSE /\ start.fields = <<<<id>>>>
      /\ start = [left |-> rest, fields |-> <<<<id>>>>, short |-> FALSE]
  BY <1>6 DEF Read
<1> HIDE DEF start
<1>8. start.fields[1][1] = id
  BY <1>7
<1>9. blank = [left |-> rest, fields |-> <<>>, short |-> FALSE]
  <2>1. blank = [[left |-> rest, fields |-> <<<<id>>>>, short |-> FALSE] EXCEPT !.fields = <<>>]
    BY <1>7
  <2> HIDE DEF blank
  <2> QED
    BY <2>1
<1>10. <<>> \in Seq(Seq(Nat))
  BY EmptySeq
<1> HIDE DEF blank
<1>11. blank \in Spans /\ blank.left = last[n] /\ blank.fields = <<>> /\ ~blank.short
  BY <1>4, <1>9, <1>10 DEF Spans, rest
<1> DEFINE end == ReadFields(blank, kinds)[n]
<1>12. end.fields = fields /\ ~end.short
  BY <1>1, <1>11, FieldsReadBack
<1> HIDE DEF end
<1>13. Unserialize(types, s) = [id |-> id, fields |-> end.fields]
  <2>1. ~start.short /\ ~(id >= Len(types)) /\ id < Len(types) /\ ~end.short
    BY <1>1, <1>4, <1>7, <1>12
  <2>2. Unserialize(types, s) =
          CASE start.short                     -> NotEnoughData
            [] ~start.short /\ id >= Len(types) -> Unknown
            [] ~start.short /\ id < Len(types)  ->
                 IF end.short THEN NotEnoughData ELSE [id |-> id, fields |-> end.fields]
    BY <1>1, <1>8 DEF Unserialize, start, blank, end, kinds
  <2> QED
    BY <2>1, <2>2
<1>14. Unserialize(types, s) = packet
  BY <1>1, <1>12, <1>13
<1> QED
  BY <1>5, <1>14 DEF s

-----------------------------------------------------------------------------
(* A packet whose last bytes have not come *)

\* Bytes of which none is greater make no greater number.
LEMMA ValueGrows ==
  ASSUME NEW a \in Seq(Byte), NEW b \in Seq(Byte), Len(a) = Len(b),
         \A i \in 1..Len(b) : a[i] <= b[i]
  PROVE  Value(a) <= Value(b)
<1> DEFINE n == Len(b)
<1>1. n \in Nat /\ Base \in Nat /\ Byte \subseteq Nat
  BY BaseAssumption, LenProperties DEF Byte
<1>2. a \in Seq(Nat) /\ b \in Seq(Nat)
  BY <1>1, SeqMonotonic
<1> HIDE DEF n
<1>3. PICK x \in [0..n -> Nat] :
        /\ x[0] = 0
        /\ \A i \in 1..n : x[i] = a[(n - i) + 1] + Base * x[i - 1]
        /\ Value(a) = x[n]
  BY <1>1, <1>2, ValueAddsUp DEF n
<1>4. PICK y \in [0..n -> Nat] :
        /\ y[0] = 0
        /\ \A i \in 1..n : y[i] = b[(n - i) + 1] + Base * y[i - 1]
        /\ Value(b) = y[n]
  BY <1>1, <1>2, ValueAddsUp DEF n
<1> DEFINE Grown == {i \in Nat : i <= n => x[i] <= y[i]}
<1>5. 0 \in Grown
  BY <1>3, <1>4
<1>6. ASSUME NEW i \in Nat, i \in Grown PROVE i + 1 \in Grown
  <2> SUFFICES ASSUME i + 1 <= n PROVE x[i + 1] <= y[i + 1]
    OBVIOUS
  <2> DEFINE j == (n - (i + 1)) + 1
  <2>1. i + 1 \in 1..n /\ (i + 1) - 1 = i /\ i \in 0..n /\ j \in 1..n
    BY <1>1
  <2>2. x[i + 1] = a[j] + Base * x[i] /\ y[i + 1] = b[j] + Base * y[i]
    BY <1>3, <1>4, <2>1
  <2>3. x[i] \in Nat /\ y[i] \in Nat /\ x[i] <= y[i]
    BY <1>1, <1>3, <1>4, <1>6, <2>1
  <2>4. a[j] \in Nat /\ b[j] \in Nat /\ a[j] <= b[j]
    <3>1. a[j] \in Nat /\ b[j] \in Nat
      BY <1>2, <2>1, ElementOfSeq DEF n
    <3> QED
      BY <2>1, <3>1 DEF n
  <2> HIDE DEF j
  <2> DEFINE p == x[i]
             q == y[i]
  <2>5. Base * p <= Base * q
    <3>1. p \in Nat /\ q \in Nat /\ p <= q
      BY <2>3
    <3> HIDE DEF p, q
    <3>2. q - p \in Nat
      BY <3>1
    <3>3. Base * (q - p) >= 0
      BY <1>1, <3>2
    <3>4. Base * (q - p) = Base * q - Base * p
      BY <1>1, <3>1
    <3>5. Base * q \in Int /\ Base * p \in Int
      BY <1>1, <3>1
    <3> QED
      BY <3>3, <3>4, <3>5
  <2>6. Base * p \in Nat /\ Base * q \in Nat
    BY <1>1, <2>3
  <2> DEFINE P == Base * p
             Q == Base * q
  <2>7. x[i + 1] = a[j] + P /\ y[i + 1] = b[j] + Q /\ P <= Q /\ P \in Nat /\ Q \in Nat
    BY <2>2, <2>5, <2>6
  <2> HIDE DEF P, Q
  <2> QED
    BY <2>4, <2>7
<1> HIDE DEF Grown
<1>7. \A i \in Nat : i \in Grown
  BY <1>5, <1>6, Induction
<1> QED
  BY <1>1, <1>3, <1>4, <1>7 DEF Grown

\* A number is not less than its first byte.
LEMMA FirstByteCounts ==
  ASSUME NEW b \in Seq(Byte), Len(b) >= 1
  PROVE  b[1] \in Nat /\ b[1] <= Value(b)
<1> DEFINE n == Len(b)
<1>1. n \in Nat \ {0} /\ Base \in Nat /\ Byte \subseteq Nat
  BY BaseAssumption, LenProperties DEF Byte
<1>2. b \in Seq(Nat)
  BY <1>1, SeqMonotonic
<1> HIDE DEF n
<1>3. PICK x \in [0..n -> Nat] :
        /\ x[0] = 0
        /\ \A i \in 1..n : x[i] = b[(n - i) + 1] + Base * x[i - 1]
        /\ Value(b) = x[n]
  BY <1>1, <1>2, ValueAddsUp DEF n
<1>4. n \in 1..n /\ (n - n) + 1 = 1 /\ n - 1 \in 0..n /\ 1 \in 1..n
  BY <1>1
<1>5. Value(b) = b[1] + Base * x[n - 1] /\ x[n - 1] \in Nat
  BY <1>3, <1>4
<1>6. b[1] \in Nat
  BY <1>2, <1>4, ElementOfSeq DEF n
<1> DEFINE p == x[n - 1]
           P == Base * p
<1>7. P \in Nat /\ Value(b) = b[1] + P
  BY <1>1, <1>5
<1> HIDE DEF P
<1> QED
  BY <1>6, <1>7

\* A small number is its first byte.
LEMMA SmallNumber ==
  ASSUME NEW k \in Basics, NEW n \in Nat, n < Base
  PROVE  Bytes(k, n)[1] = n
<1>1. PICK left : IsCutOff(left, k, n)
  BY BytesCutOff
<1>2. 1 \in 1..Width[k] /\ 1 - 1 = 0
  BY Widths
<1>3. Bytes(k, n)[1] = n % Base
  BY <1>1, <1>2 DEF IsCutOff
<1>4. n % Base = n
  BY BaseAssumption
<1> QED
  BY <1>3, <1>4

(***************************************************************************)
(* l has come short of r: from the first byte on that is not that of r, it *)
(* holds zeros.                                                            *)
(***************************************************************************)
Lags(l, r) ==
  /\ Len(r) <= Len(l)
  /\ \A i \in 1..Len(r) : l[i] = r[i] \/ \A j \in i..Len(l) : l[j] = 0

\* The bytes of a field are in both, and what is left of one lags still.
LEMMA LagsBehind ==
  ASSUME NEW f \in Seq(Byte), NEW rest \in Seq(Byte), NEW l \in Seq(Byte), Lags(l, f \o rest)
  PROVE  /\ Len(f) <= Len(l) /\ Len(f) \in Nat /\ Len(l) \in Nat
         /\ Len(f) + Len(rest) <= Len(l)
         /\ SubSeq(l, Len(f) + 1, Len(l)) \in Seq(Byte)
         /\ Lags(SubSeq(l, Len(f) + 1, Len(l)), rest)
         /\ \A i \in 1..Len(f) : l[i] = f[i] \/ \A j \in i..Len(l) : l[j] = 0
<1> DEFINE w == Len(f)
           n == Len(l)
           m == Len(rest)
           r == f \o rest
           t == SubSeq(l, w + 1, n)
<1>1. w \in Nat /\ n \in Nat /\ m \in Nat /\ w = Len(f) /\ n = Len(l) /\ m = Len(rest)
  BY LenProperties
<1>2. /\ Len(r) = w + m
      /\ \A i \in 1..w : r[i] = f[i]
      /\ \A i \in 1..m : r[w + i] = rest[i]
  <2>1. Follows(r, f, rest)
    BY CutInTwo
  <2> QED
    BY <2>1 DEF Follows
<1> HIDE DEF w, n, m, r
<1>3. /\ w + m <= n
      /\ \A i \in 1..(w + m) : l[i] = r[i] \/ \A j \in i..n : l[j] = 0
  BY <1>1, <1>2 DEF Lags, r
<1>4. t \in Seq(Byte) /\ Len(t) = n - w /\ \A i \in 1..(n - w) : t[i] = l[w + i]
  <2>1. w + 1 \in Nat \ {0} /\ n <= Len(l)
    BY <1>1
  <2>2. /\ t \in Seq(Byte) /\ Len(t) = IF w + 1 <= n THEN n - (w + 1) + 1 ELSE 0
        /\ \A i \in 1..(n - (w + 1) + 1) : t[i] = l[(w + 1) + i - 1]
    BY <1>1, <2>1, PartType
  <2> HIDE DEF t
  <2>3. n - (w + 1) + 1 = n - w /\ \A i \in 1..(n - w) : (w + 1) + i - 1 = w + i
    BY <1>1
  <2>4. Len(t) = n - w
    BY <1>1, <1>3, <2>2
  <2> QED
    BY <2>2, <2>3, <2>4
<1> HIDE DEF t
<1>5. Lags(t, rest)
  <2>1. m <= Len(t)
    BY <1>1, <1>3, <1>4
  <2>2. ASSUME NEW i \in 1..m, t[i] # rest[i], NEW j \in i..(n - w)
        PROVE  t[j] = 0
    <3>1. /\ w + i \in 1..(w + m) /\ w + j \in (w + i)..n
          /\ i \in 1..(n - w) /\ j \in 1..(n - w)
      BY <1>1, <1>3
    <3>2. t[i] = l[w + i] /\ t[j] = l[w + j] /\ r[w + i] = rest[i]
      BY <1>2, <1>4, <3>1
    <3> QED
      BY <1>3, <2>2, <3>1, <3>2
  <2> QED
    BY <1>1, <1>4, <2>1, <2>2 DEF Lags
<1>6. \A i \in 1..w : l[i] = f[i] \/ \A j \in i..n : l[j] = 0
  <2>1. \A i \in 1..w : i \in 1..(w + m)
    BY <1>1
  <2> QED
    BY <1>2, <1>3, <2>1
<1> QED
  BY <1>1, <1>3, <1>4, <1>5, <1>6 DEF t, w, n, m

\* The bytes of a field are as many as its kind has, those of a string apart.
LEMMA FieldLength ==
  ASSUME NEW kind \in Kinds, NEW v \in Seq(Nat), IsOfKind(v, kind)
  PROVE  /\ Field(kind, v) \in Seq(Byte)
         /\ kind = "Vector" => Len(Field(kind, v)) = 2 * Width["Float"]
         /\ kind \in Basics => Len(Field(kind, v)) = Width[kind]
<1> DEFINE f == Field(kind, v)
<1>1. f \in Seq(Byte)
  <2> DEFINE span == [left |-> f \o <<>>, fields |-> <<>>, short |-> FALSE]
  <2>1. <<>> \in Seq(Byte) /\ span.left = f \o <<>> /\ span.short = FALSE
    BY EmptySeq
  <2> HIDE DEF span
  <2> QED
    BY <2>1, FieldRead
<1>2. ASSUME kind = "Vector" PROVE Len(f) = 2 * Width["Float"]
  <2>1. /\ Len(v) = 2 /\ \A i \in 1..2 : v[i] < Power[Width["Float"]]
    BY <1>2 DEF IsOfKind
  <2>2. v[1] \in Nat /\ v[2] \in Nat
    BY <2>1, FewNumbers
  <2>3. 1 \in 1..2 /\ 2 \in 1..2
    OBVIOUS
  <2> DEFINE a == Bytes("Float", v[1])
             b == Bytes("Float", v[2])
  <2>4. a \in Seq(Byte) /\ b \in Seq(Byte) /\ Len(a) = Width["Float"] /\ Len(b) = Width["Float"]
    BY <2>1, <2>2, <2>3, Widths, NumberBytes
  <2>5. f = a \o b
    BY <1>2 DEF Field
  <2> HIDE DEF a, b, f
  <2>6. Len(a \o b) = Len(a) + Len(b)
    BY <2>4, ConcatProperties
  <2>7. Width["Float"] \in Nat
    BY Widths
  <2> QED
    BY <2>4, <2>5, <2>6, <2>7
<1>3. ASSUME kind \in Basics PROVE Len(f) = Width[kind]
  <2>1. Len(v) = 1 /\ v[1] < Power[Width[kind]]
    BY <1>3 DEF IsOfKind, Basics
  <2>2. v[1] \in Nat
    BY <2>1, FewNumbers
  <2>3. CASE kind = "Enum"
    <3>1. f = Bytes("Int", v[1])
      BY <2>3 DEF Field
    <3> QED
      BY <2>1, <2>2, <2>3, <3>1, Widths, NumberBytes
  <2>4. CASE kind # "Enum"
    <3>1. f = Bytes(kind, v[1])
      BY <1>3, <2>4 DEF Field, Basics
    <3> QED
      BY <1>3, <2>1, <2>2, <3>1, NumberBytes
  <2> QED
    BY <2>3, <2>4
<1> QED
  BY <1>1, <1>2, <1>3

\* A string whose bytes are short is read as one that is not longer.
LEMMA StringLags ==
  ASSUME NEW v \in Seq(Byte), Len(v) < Power[Width["Size"]],
         NEW rest \in Seq(Byte), NEW span \in Spans,
         Lags(span.left, (Bytes("Size", Len(v)) \o v) \o rest)
  PROVE  ~ReadString(span).short /\ Lags(ReadString(span).left, rest)
<1> DEFINE l == span.left
           w == Width["Size"]
           n == Len(v)
           h == Bytes("Size", n)
           f == h \o v
           N == Len(l)
           m == Len(rest)
<1>1. n \in Nat /\ w \in Nat /\ l \in Seq(Byte) /\ m \in Nat
  BY LenProperties, Widths DEF Spans
<1>2. h \in Seq(Byte) /\ Len(h) = w /\ Value(h) = n
  BY <1>1, Widths, NumberBytes
<1> HIDE DEF h, n, w, l, m
<1>3. f \in Seq(Byte) /\ Len(f) = w + n /\ \A i \in 1..w : f[i] = h[i]
  <2>1. f \in Seq(Byte) /\ Follows(f, h, v)
    BY <1>2, CutInTwo
  <2> HIDE DEF f
  <2> QED
    BY <1>2, <2>1 DEF Follows, n
<1>4. Lags(l, f \o rest)
  BY DEF l, h, n
<1> HIDE DEF f
<1>5. /\ Len(f) <= Len(l) /\ N \in Nat /\ Len(f) + Len(rest) <= Len(l)
      /\ Lags(SubSeq(l, Len(f) + 1, Len(l)), rest)
      /\ \A i \in 1..Len(f) : l[i] = f[i] \/ \A j \in i..Len(l) : l[j] = 0
  BY <1>1, <1>3, <1>4, LagsBehind
<1> HIDE DEF N
<1>6. /\ N \in Nat /\ (w + n) + m <= N
      /\ Lags(SubSeq(l, (w + n) + 1, N), rest)
      /\ \A i \in 1..(w + n) : l[i] = f[i] \/ \A j \in i..N : l[j] = 0
  BY <1>3, <1>5 DEF N, m
<1>7. \A i \in 1..w : l[i] = h[i] \/ \A j \in i..N : l[j] = 0
  <2>1. \A i \in 1..w : i \in 1..(w + n)
    BY <1>1
  <2> QED
    BY <1>3, <1>6, <2>1
<1> DEFINE a == SubSeq(l, 1, w)
           len == Value(a)
<1>8. a \in Seq(Byte) /\ Len(a) = w /\ \A i \in 1..w : a[i] = l[i]
  <2>1. 1 \in Nat \ {0} /\ w <= Len(l)
    BY <1>1, <1>6 DEF N
  <2>2. /\ a \in Seq(Byte) /\ Len(a) = IF 1 <= w THEN w - 1 + 1 ELSE 0
        /\ \A i \in 1..(w - 1 + 1) : a[i] = l[1 + i - 1]
    BY <1>1, <2>1, PartType
  <2> HIDE DEF a
  <2>3. w - 1 + 1 = w /\ \A i \in 1..w : 1 + i - 1 = i
    BY <1>1
  <2>4. Len(a) = w
    BY <1>1, <2>2, <2>3
  <2> QED
    BY <2>2, <2>3, <2>4
<1>9. len \in Nat
  BY <1>8, ValueType
<1> HIDE DEF a
<1>10. len <= n
  <2>1. ASSUME NEW i \in 1..w PROVE a[i] <= h[i]
    <3>1. h[i] \in Nat
      <4>1. h[i] \in Byte
        BY <1>2, <2>1, ElementOfSeq
      <4> QED
        BY <4>1, BaseAssumption DEF Byte
    <3>2. i \in i..N
      BY <1>1, <1>6, <2>1
    <3>3. l[i] = h[i] \/ l[i] = 0
      BY <1>7, <2>1, <3>2
    <3> QED
      BY <1>8, <2>1, <3>1, <3>3
  <2>2. Value(a) <= Value(h)
    BY <1>2, <1>8, <2>1, ValueGrows
  <2> QED
    BY <1>2, <2>2
<1> HIDE DEF len
<1> DEFINE t == SubSeq(l, (w + len) + 1, N)
<1>11. ReadString(span) = After(span, w + len, SubSeq(l, w + 1, w + len))
  <2>1. ReadString(span) = IF N < w \/ N - w < len THEN Short(span)
                           ELSE After(span, w + len, SubSeq(l, w + 1, w + len))
    BY DEF ReadString, a, len, w, l, N
  <2>2. ~(N < w) /\ ~(N - w < len)
    BY <1>1, <1>6, <1>9, <1>10
  <2> QED
    BY <2>1, <2>2
<1>12. ~ReadString(span).short /\ ReadString(span).left = t
  <2> DEFINE x == Append(span.fields, SubSeq(l, w + 1, w + len))
  <2>1. ReadString(span) = [left |-> t, fields |-> x, short |-> FALSE]
    BY <1>11 DEF After, l, N
  <2> HIDE DEF t, x
  <2> QED
    BY <2>1
<1>13. Lags(t, rest)
  <2>1. CASE len = n
    BY <1>6, <2>1
  <2>2. CASE len # n
    <3>1. PICK i \in 1..w : a[i] # h[i]
      <4>1. a # h
        BY <1>2, <2>2 DEF len
      <4> QED
        BY <1>1, <1>2, <1>8, <4>1, SeqEqual
    <3>2. \A j \in i..N : l[j] = 0
      BY <1>7, <1>8, <3>1
    <3>3. /\ Len(t) = N - (w + len)
          /\ \A j \in 1..(N - (w + len)) : t[j] = l[(w + len) + j]
      <4>1. (w + len) + 1 \in Nat \ {0} /\ N <= Len(l) /\ w + len <= N
        BY <1>1, <1>6, <1>9, <1>10 DEF N
      <4>2. /\ Len(t) = IF (w + len) + 1 <= N THEN N - ((w + len) + 1) + 1 ELSE 0
            /\ \A j \in 1..(N - ((w + len) + 1) + 1) : t[j] = l[((w + len) + 1) + j - 1]
        BY <1>1, <1>6, <4>1, PartType
      <4> HIDE DEF t
      <4>3. /\ N - ((w + len) + 1) + 1 = N - (w + len)
            /\ \A j \in 1..(N - (w + len)) : ((w + len) + 1) + j - 1 = (w + len) + j
        BY <1>1, <1>6, <1>9
      <4>4. Len(t) = N - (w + len)
        BY <1>1, <1>6, <1>9, <4>1, <4>2
      <4> QED
        BY <4>2, <4>3, <4>4
    <3> HIDE DEF t
    <3>4. \A j \in 1..(N - (w + len)) : (w + len) + j \in i..N
      BY <1>1, <1>6, <1>9, <3>1
    <3>5. \A j \in 1..Len(t) : t[j] = 0
      BY <3>2, <3>3, <3>4
    <3>6. m <= Len(t)
      BY <1>1, <1>6, <1>9, <1>10, <3>3
    <3>7. \A j \in 1..m : \A k \in j..Len(t) : k \in 1..Len(t)
      BY <1>1, <1>6, <1>9, <1>10, <3>3
    <3> QED
      BY <3>5, <3>6, <3>7 DEF Lags, m
  <2> QED
    BY <2>1, <2>2
<1> QED
  BY <1>12, <1>13

\* A field is read from bytes that lag, and what is left of them lags still.
LEMMA FieldLags ==
  ASSUME NEW kind \in Kinds, NEW v \in Seq(Nat), IsOfKind(v, kind),
         NEW rest \in Seq(Byte), NEW span \in Spans, ~span.short,
         Lags(span.left, Field(kind, v) \o rest)
  PROVE  ~ReadField(span, kind).short /\ Lags(ReadField(span, kind).left, rest)
<1> DEFINE l == span.left
           f == Field(kind, v)
           N == Len(l)
           w == Len(f)
<1>1. l \in Seq(Byte) /\ f \in Seq(Byte)
  BY FieldLength DEF Spans
<1>2. /\ w <= N /\ w \in Nat /\ N \in Nat
      /\ Lags(SubSeq(l, w + 1, N), rest)
  BY <1>1, LagsBehind
<1>3. ASSUME NEW x, ReadField(span, kind) = After(span, w, x)
      PROVE  ~ReadField(span, kind).short /\ Lags(ReadField(span, kind).left, rest)
  BY <1>2, <1>3 DEF After
<1>4. CASE kind = "String"
  <2>1. v \in Seq(Byte) /\ Len(v) < Power[Width["Size"]]
    BY <1>4 DEF IsOfKind
  <2>2. Field(kind, v) = Bytes("Size", Len(v)) \o v
    BY <1>4 DEF Field
  <2>3. ReadField(span, kind) = ReadString(span)
    BY <1>4 DEF ReadField
  <2>4. Lags(span.left, (Bytes("Size", Len(v)) \o v) \o rest)
    BY <2>2
  <2>5. ~ReadString(span).short /\ Lags(ReadString(span).left, rest)
    BY <2>1, <2>4, StringLags
  <2> QED
    BY <2>3, <2>5
<1>5. CASE kind = "Vector"
  <2> DEFINE u == Width["Float"]
             x == <<Value(SubSeq(l, 1, u)), Value(SubSeq(l, u + 1, 2 * u))>>
  <2>1. ReadField(span, kind) = IF N < 2 * u THEN Short(span) ELSE After(span, 2 * u, x)
    BY <1>5 DEF ReadField, ReadVector
  <2>2. w = 2 * u
    BY <1>5, FieldLength
  <2> HIDE DEF x, u, w, N
  <2>3. ~(N < 2 * u)
    BY <1>2, <2>2
  <2>4. ReadField(span, kind) = After(span, w, x)
    BY <2>1, <2>2, <2>3
  <2> QED
    BY <1>3, <2>4 DEF w
<1>6. CASE kind \in Basics
  <2> DEFINE u == Width[kind]
             x == <<Value(SubSeq(l, 1, u))>>
  <2>1. ReadField(span, kind) = ReadNumber(span, kind)
    BY <1>6 DEF ReadField, Basics
  <2>2. ReadNumber(span, kind) = IF N < u THEN Short(span) ELSE After(span, u, x)
    BY DEF ReadNumber
  <2>3. w = u
    BY <1>6, FieldLength
  <2> HIDE DEF x, u, w, N
  <2>4. ~(N < u)
    BY <1>2, <2>3
  <2>5. ReadField(span, kind) = After(span, w, x)
    BY <2>1, <2>2, <2>3, <2>4
  <2> QED
    BY <1>3, <2>5 DEF w
<1> QED
  BY <1>4, <1>5, <1>6 DEF Kinds

\* A packet's fields are read to the end from bytes that lag behind them.
LEMMA FieldsNeverShort ==
  ASSUME NEW n \in Nat, NEW kinds \in Seq(Kinds), NEW fields \in Seq(Seq(Nat)),
         Len(kinds) = n, Len(fields) = n, AreOfKinds(fields, n, kinds),
         NEW last, AreLast(last, n, kinds, fields),
         NEW span \in Spans, Lags(span.left, last[n]), ~span.short
  PROVE  ~ReadFields(span, kinds)[n].short
<1> DEFINE read == ReadFields(span, kinds)
<1>1. /\ read \in [0..n -> Spans] /\ read[0] = span
      /\ \A i \in 1..n : read[i] = ReadField(read[i - 1], kinds[i])
  <2>1. /\ read \in [0..Len(kinds) -> Spans] /\ read[0] = span
        /\ \A i \in 1..Len(kinds) : read[i] = ReadField(read[i - 1], kinds[i])
    BY FieldsRead
  <2> HIDE DEF read
  <2> QED
    BY <2>1
<1> HIDE DEF read
<1>2. \A i \in 1..n : kinds[i] \in Kinds /\ fields[i] \in Seq(Nat)
  BY ElementOfSeq
<1> DEFINE Done == {i \in Nat : i <= n => ~read[i].short /\ Lags(read[i].left, last[n - i])}
<1>3. 0 \in Done
  <2>1. n - 0 = n
    OBVIOUS
  <2> QED
    BY <1>1, <2>1
<1>4. ASSUME NEW i \in Nat, i \in Done PROVE i + 1 \in Done
  <2> SUFFICES ASSUME i + 1 <= n
               PROVE  ~read[i + 1].short /\ Lags(read[i + 1].left, last[n - (i + 1)])
    OBVIOUS
  <2> DEFINE before == read[i]
             k == kinds[i + 1]
             v == fields[i + 1]
             rest == last[n - (i + 1)]
  <2>1. /\ i + 1 \in 1..n /\ (i + 1) - 1 = i /\ i \in 0..n /\ i <= n
        /\ n - i \in 1..n /\ (n - (n - i)) + 1 = i + 1
        /\ (n - i) - 1 \in 0..n /\ (n - i) - 1 = n - (i + 1)
    OBVIOUS
  <2>2. before \in Spans /\ ~before.short /\ Lags(before.left, last[n - i])
    BY <1>1, <1>4, <2>1
  <2>3. rest \in Seq(Byte) /\ last[n - i] = Field(k, v) \o rest
    <3>1. last[n - i] = Field(kinds[(n - (n - i)) + 1], fields[(n - (n - i)) + 1]) \o last[(n - i) - 1]
      BY <2>1 DEF AreLast
    <3>2. last[(n - i) - 1] \in Seq(Byte)
      BY <2>1 DEF AreLast
    <3> QED
      BY <2>1, <3>1, <3>2
  <2>4. k \in Kinds /\ v \in Seq(Nat) /\ IsOfKind(v, k)
    BY <1>2, <2>1 DEF AreOfKinds
  <2>5. read[i + 1] = ReadField(before, k)
    BY <1>1, <2>1
  <2> HIDE DEF before, k, v, rest
  <2>6. Lags(before.left, Field(k, v) \o rest)
    BY <2>2, <2>3
  <2>7. ~ReadField(before, k).short /\ Lags(ReadField(before, k).left, rest)
    BY <2>2, <2>3, <2>4, <2>6, FieldLags
  <2> QED
    BY <2>5, <2>7 DEF rest
<1> HIDE DEF Done
<1>5. \A i \in Nat : i \in Done
  BY <1>3, <1>4, Induction
<1> QED
  BY <1>5 DEF Done, read

(***************************************************************************)
(* A packet of which at least one byte came, with zeros for those that did *)
(* not, is never too short to parse: its number is that of a type with few *)
(* predecessors, a string whose length is torn is not longer than it was,  *)
(* and all other fields have the length of their kind.                     *)
(***************************************************************************)
THEOREM TornNeverShort ==
  ASSUME NEW types \in Seq(Seq(Kinds)), NEW packet, IsPacket(types, packet),
         packet.id < Base, packet.id < Power[Width["Size"]],
         NEW bytes \in Seq(Byte), Lags(bytes, Serialize(types, packet)),
         bytes[1] = Serialize(types, packet)[1]
  PROVE  Unserialize(types, bytes) # NotEnoughData
<1> DEFINE id == packet.id
           fields == packet.fields
           kinds == types[id + 1]
           n == Len(fields)
           last == LastFields(kinds, fields)
           b == Bytes("Size", id)
           rest == last[n]
           s == Serialize(types, packet)
           w == Width["Size"]
           N == Len(bytes)
<1>1. /\ id \in Nat /\ id < Len(types) /\ packet = [id |-> id, fields |-> fields]
      /\ kinds \in Seq(Kinds) /\ fields \in Seq(Seq(Nat))
      /\ n \in Nat /\ Len(kinds) = n /\ Len(fields) = n
      /\ AreOfKinds(fields, n, kinds)
      /\ AreLast(last, n, kinds, fields)
  BY PacketParts
<1>2. s = b \o rest /\ bytes[1] = s[1]
  BY DEF Serialize
<1>3. /\ b \in Seq(Byte) /\ Len(b) = w /\ Value(b) = id /\ b[1] = id
      /\ w \in Nat \ {0}
  BY <1>1, Widths, NumberBytes, SmallNumber
<1>4. rest \in Seq(Byte) /\ Len(types) \in Nat
  <2>1. Len(types) \in Nat
    BY LenProperties
  <2> HIDE DEF last, n
  <2>2. last \in [0..n -> Seq(Byte)] /\ n \in 0..n
    BY <1>1 DEF AreLast
  <2> QED
    BY <2>1, <2>2
<1>0. Lags(bytes, s)
  OBVIOUS
<1> HIDE DEF s, b, rest, last, n, kinds, fields, id, w, N
<1>5. /\ w <= N /\ N \in Nat /\ N = Len(bytes)
      /\ SubSeq(bytes, w + 1, N) \in Seq(Byte)
      /\ Lags(SubSeq(bytes, w + 1, N), rest)
      /\ \A i \in 1..w : bytes[i] = b[i] \/ \A j \in i..N : bytes[j] = 0
  <2>1. Lags(bytes, b \o rest)
    BY <1>0, <1>2
  <2>2. /\ Len(b) <= Len(bytes) /\ Len(bytes) \in Nat
        /\ SubSeq(bytes, Len(b) + 1, Len(bytes)) \in Seq(Byte)
        /\ Lags(SubSeq(bytes, Len(b) + 1, Len(bytes)), rest)
        /\ \A i \in 1..Len(b) : bytes[i] = b[i] \/ \A j \in i..Len(bytes) : bytes[j] = 0
    BY <1>3, <1>4, <2>1, LagsBehind
  <2> QED
    BY <1>3, <2>2 DEF N
<1>6. bytes[1] = id
  <2>1. Follows(s, b, rest)
    BY <1>2, <1>3, <1>4, CutInTwo
  <2>2. 1 \in 1..w
    BY <1>3
  <2>3. s[1] = b[1]
    BY <1>3, <2>1, <2>2 DEF Follows
  <2> QED
    BY <1>2, <1>3, <2>3
<1> DEFINE a == SubSeq(bytes, 1, w)
<1>7. a \in Seq(Byte) /\ Len(a) = w /\ \A i \in 1..w : a[i] = bytes[i]
  <2>1. 1 \in Nat \ {0} /\ w <= Len(bytes) /\ w \in Nat
    BY <1>3, <1>5
  <2>2. /\ a \in Seq(Byte) /\ Len(a) = IF 1 <= w THEN w - 1 + 1 ELSE 0
        /\ \A i \in 1..(w - 1 + 1) : a[i] = bytes[1 + i - 1]
    BY <2>1, PartType
  <2> HIDE DEF a
  <2>3. w - 1 + 1 = w /\ \A i \in 1..w : 1 + i - 1 = i
    BY <1>3
  <2>4. Len(a) = w
    BY <1>3, <2>2, <2>3
  <2> QED
    BY <2>2, <2>3, <2>4
<1> HIDE DEF a
<1>8. Value(a) = id
  <2>1. ASSUME NEW i \in 1..w PROVE a[i] <= b[i]
    <3>1. b[i] \in Nat
      <4>1. b[i] \in Byte
        BY <1>3, <2>1, ElementOfSeq
      <4> QED
        BY <4>1, BaseAssumption DEF Byte
    <3>2. i \in i..N
      BY <1>3, <1>5, <2>1
    <3>3. bytes[i] = b[i] \/ bytes[i] = 0
      BY <1>5, <2>1, <3>2
    <3> QED
      BY <1>7, <2>1, <3>1, <3>3
  <2>2. Value(a) <= id
    <3>1. Value(a) <= Value(b)
      BY <1>3, <1>7, <2>1, ValueGrows
    <3> QED
      BY <1>3, <3>1
  <2>3. a[1] <= Value(a)
    <3>1. Len(a) >= 1
      BY <1>3, <1>7
    <3> QED
      BY <1>7, <3>1, FirstByteCounts
  <2>4. a[1] = id
    BY <1>3, <1>6, <1>7
  <2>5. Value(a) \in Nat
    BY <1>7, ValueType
  <2> QED
    BY <1>1, <2>2, <2>3, <2>4, <2>5
<1> DEFINE start == ReadNumber(Span(bytes), "Size")
           blank == [start EXCEPT !.fields = <<>>]
           left == SubSeq(bytes, w + 1, N)
<1>9. start = [left |-> left, fields |-> <<<<id>>>>, short |-> FALSE]
  <2>1. start = IF N < w THEN Short(Span(bytes)) ELSE After(Span(bytes), w, <<Value(a)>>)
    BY DEF ReadNumber, Span, w, N, a
  <2>2. start = After(Span(bytes), w, <<Value(a)>>)
    BY <1>3, <1>5, <2>1
  <2>3. Append(<<>>, <<id>>) = <<<<id>>>>
    OBVIOUS
  <2> HIDE DEF start
  <2>4. start = [left |-> left, fields |-> Append(<<>>, <<id>>), short |-> FALSE]
    BY <1>8, <2>2 DEF After, Span, N
  <2> QED
    BY <2>3, <2>4
<1> HIDE DEF start, left
<1>10. start.short = FALSE /\ start.fields[1][1] = id
  BY <1>9
<1>11. blank = [left |-> left, fields |-> <<>>, short |-> FALSE]
  <2>1. blank = [[left |-> left, fields |-> <<<<id>>>>, short |-> FALSE] EXCEPT !.fields = <<>>]
    BY <1>9
  <2> HIDE DEF blank
  <2> QED
    BY <2>1
<1> HIDE DEF blank
<1>12. <<>> \in Seq(Seq(Nat)) /\ left \in Seq(Byte)
  BY <1>5, EmptySeq DEF left
<1>13. blank \in Spans /\ Lags(blank.left, last[n]) /\ ~blank.short
  BY <1>5, <1>11, <1>12 DEF Spans, rest, left
<1> DEFINE end == ReadFields(blank, kinds)[n]
<1>14. ~end.short
  BY <1>1, <1>13, FieldsNeverShort
<1> HIDE DEF end
<1>15. Unserialize(types, bytes) = [id |-> id, fields |-> end.fields]
  <2>1. ~start.short /\ ~(id >= Len(types)) /\ id < Len(types) /\ ~end.short
    BY <1>1, <1>4, <1>10, <1>14
  <2>2. Unserialize(types, bytes) =
          CASE start.short                     -> NotEnoughData
            [] ~start.short /\ id >= Len(types) -> Unknown
            [] ~start.short /\ id < Len(types)  ->
                 IF end.short THEN NotEnoughData ELSE [id |-> id, fields |-> end.fields]
    BY <1>1, <1>10 DEF Unserialize, start, blank, end, kinds
  <2> QED
    BY <2>1, <2>2
<1> DEFINE x == [id |-> id, fields |-> end.fields]
<1>16. x # NotEnoughData
  <2>1. DOMAIN x = {"id", "fields"} /\ DOMAIN NotEnoughData = {"error"}
    BY DEF NotEnoughData
  <2> HIDE DEF x
  <2> QED
    BY <2>1
<1> QED
  BY <1>15, <1>16
=============================================================================
