---------------------------- MODULE SemverProofs ----------------------------
(***************************************************************************)
(* Theorems about Semver: on well-formed names the comparison of lengths   *)
(* and text is the order of numbers.                                       *)
(***************************************************************************)
EXTENDS Semver, TLAPS

\* The digits of a number are digits, and the first one of several is not 0.
LEMMA DigitsType ==
    ASSUME NEW n, IsNumber(n)
    PROVE  /\ Len(n) \in 1..4
           /\ \A i \in 1..Len(n) : n[i] \in 0..9
           /\ Len(n) > 1 => n[1] # 0
  BY DEF IsNumber

\* What decides the order of two numbers: the first digit of the same weight
\* that differs.
DigitsLess(n, m) ==
    \/ Digit(n, 3) < Digit(m, 3)
    \/ Digit(n, 3) = Digit(m, 3) /\ Digit(n, 2) < Digit(m, 2)
    \/ /\ Digit(n, 3) = Digit(m, 3) /\ Digit(n, 2) = Digit(m, 2)
       /\ Digit(n, 1) < Digit(m, 1)
    \/ /\ Digit(n, 3) = Digit(m, 3) /\ Digit(n, 2) = Digit(m, 2)
       /\ Digit(n, 1) = Digit(m, 1) /\ Digit(n, 0) < Digit(m, 0)

LEMMA FirstDigitDecides ==
    ASSUME NEW n, NEW m, IsNumber(n), IsNumber(m)
    PROVE  /\ Value(n) \in Nat /\ Value(m) \in Nat
           /\ Value(n) < Value(m) <=> DigitsLess(n, m)
  <1>1. /\ Digit(n, 0) \in 0..9 /\ Digit(n, 1) \in 0..9
        /\ Digit(n, 2) \in 0..9 /\ Digit(n, 3) \in 0..9
    BY DigitsType DEF Digit
  <1>2. /\ Digit(m, 0) \in 0..9 /\ Digit(m, 1) \in 0..9
        /\ Digit(m, 2) \in 0..9 /\ Digit(m, 3) \in 0..9
    BY DigitsType DEF Digit
  <1> DEFINE n0 == Digit(n, 0)
             n1 == Digit(n, 1)
             n2 == Digit(n, 2)
             n3 == Digit(n, 3)
             m0 == Digit(m, 0)
             m1 == Digit(m, 1)
             m2 == Digit(m, 2)
             m3 == Digit(m, 3)
             v == n0 + 10 * n1 + 100 * n2 + 1000 * n3
             w == m0 + 10 * m1 + 100 * m2 + 1000 * m3
  <1>3. /\ n0 \in 0..9 /\ n1 \in 0..9 /\ n2 \in 0..9 /\ n3 \in 0..9
        /\ m0 \in 0..9 /\ m1 \in 0..9 /\ m2 \in 0..9 /\ m3 \in 0..9
    BY <1>1, <1>2
  <1>4. DigitsLess(n, m) <=> \/ n3 < m3
                             \/ n3 = m3 /\ n2 < m2
                             \/ n3 = m3 /\ n2 = m2 /\ n1 < m1
                             \/ n3 = m3 /\ n2 = m2 /\ n1 = m1 /\ n0 < m0
    BY DEF DigitsLess
  <1>5. Value(n) = v /\ Value(m) = w
    BY DEF Value
  <1> HIDE DEF n0, n1, n2, n3, m0, m1, m2, m3
  <1>6. v \in Nat /\ w \in Nat /\ (v < w <=> DigitsLess(n, m))
    BY <1>3, <1>4
  <1> QED
    BY <1>5, <1>6

\* Of two numbers as long as each other the lower one comes first as text, and
\* different ones have different values.
LEMMA TextIsValue ==
    ASSUME NEW n, NEW m, IsNumber(n), IsNumber(m), Len(n) = Len(m)
    PROVE  /\ TextLess(n, m) <=> Value(n) < Value(m)
           /\ n # m => Value(n) < Value(m) \/ Value(m) < Value(n)
  <1>0. /\ Len(n) \in 1..4 /\ Len(m) \in 1..4
        /\ \A i \in 1..Len(n) : n[i] \in 0..9 /\ m[i] \in 0..9
    BY DigitsType
  <1>1. TextLess(n, m) <=> \E i \in 1..Len(n) :
                              n[i] < m[i] /\ \A j \in 1..i - 1 : n[j] = m[j]
    BY DigitsType DEF TextLess
  <1>2. n # m => \E i \in 1..Len(n) : n[i] # m[i]
    BY DEF IsNumber
  <1>3. /\ Value(n) < Value(m) <=> DigitsLess(n, m)
        /\ Value(m) < Value(n) <=> DigitsLess(m, n)
    BY FirstDigitDecides
  <1>4. CASE Len(n) = 1
    <2>1. /\ Digit(n, 0) = n[1] /\ Digit(n, 1) = 0
          /\ Digit(n, 2) = 0 /\ Digit(n, 3) = 0
          /\ Digit(m, 0) = m[1] /\ Digit(m, 1) = 0
          /\ Digit(m, 2) = 0 /\ Digit(m, 3) = 0
      BY <1>4 DEF Digit
    <2>2. TextLess(n, m) <=>
            \/ n[1] < m[1]
      BY <1>1, <1>4
    <2>3. n # m => n[1] # m[1]
      BY <1>2, <1>4
    <2>4. /\ n[1] \in 0..9
          /\ m[1] \in 0..9
      BY <1>0, <1>4
    <2> QED
      BY <1>3, <2>1, <2>2, <2>3, <2>4 DEF DigitsLess
  <1>5. CASE Len(n) = 2
    <2>1. /\ Digit(n, 0) = n[2] /\ Digit(n, 1) = n[1]
          /\ Digit(n, 2) = 0 /\ Digit(n, 3) = 0
          /\ Digit(m, 0) = m[2] /\ Digit(m, 1) = m[1]
          /\ Digit(m, 2) = 0 /\ Digit(m, 3) = 0
      BY <1>5 DEF Digit
    <2>2. TextLess(n, m) <=>
            \/ n[1] < m[1]
            \/ n[1] = m[1] /\ n[2] < m[2]
      BY <1>1, <1>5
    <2>3. n # m => n[1] # m[1] \/ n[2] # m[2]
      BY <1>2, <1>5
    <2>4. /\ n[1] \in 0..9 /\ n[2] \in 0..9
          /\ m[1] \in 0..9 /\ m[2] \in 0..9
      BY <1>0, <1>5
    <2> QED
      BY <1>3, <2>1, <2>2, <2>3, <2>4 DEF DigitsLess
  <1>6. CASE Len(n) = 3
    <2>1. /\ Digit(n, 0) = n[3] /\ Digit(n, 1) = n[2]
          /\ Digit(n, 2) = n[1] /\ Digit(n, 3) = 0
          /\ Digit(m, 0) = m[3] /\ Digit(m, 1) = m[2]
          /\ Digit(m, 2) = m[1] /\ Digit(m, 3) = 0
      BY <1>6 DEF Digit
    <2>2. TextLess(n, m) <=>
            \/ n[1] < m[1]
            \/ n[1] = m[1] /\ n[2] < m[2]
            \/ n[1] = m[1] /\ n[2] = m[2] /\ n[3] < m[3]
      BY <1>1, <1>6
    <2>3. n # m => n[1] # m[1] \/ n[2] # m[2] \/ n[3] # m[3]
      BY <1>2, <1>6
    <2>4. /\ n[1] \in 0..9 /\ n[2] \in 0..9 /\ n[3] \in 0..9
          /\ m[1] \in 0..9 /\ m[2] \in 0..9 /\ m[3] \in 0..9
      BY <1>0, <1>6
    <2> QED
      BY <1>3, <2>1, <2>2, <2>3, <2>4 DEF DigitsLess
  <1>7. CASE Len(n) = 4
    <2>1. /\ Digit(n, 0) = n[4] /\ Digit(n, 1) = n[3]
          /\ Digit(n, 2) = n[2] /\ Digit(n, 3) = n[1]
          /\ Digit(m, 0) = m[4] /\ Digit(m, 1) = m[3]
          /\ Digit(m, 2) = m[2] /\ Digit(m, 3) = m[1]
      BY <1>7 DEF Digit
    <2>2. TextLess(n, m) <=>
            \/ n[1] < m[1]
            \/ n[1] = m[1] /\ n[2] < m[2]
            \/ n[1] = m[1] /\ n[2] = m[2] /\ n[3] < m[3]
            \/ n[1] = m[1] /\ n[2] = m[2] /\ n[3] = m[3] /\ n[4] < m[4]
      BY <1>1, <1>7
    <2>3. n # m => n[1] # m[1] \/ n[2] # m[2] \/ n[3] # m[3] \/ n[4] # m[4]
      BY <1>2, <1>7
    <2>4. /\ n[1] \in 0..9 /\ n[2] \in 0..9 /\ n[3] \in 0..9 /\ n[4] \in 0..9
          /\ m[1] \in 0..9 /\ m[2] \in 0..9 /\ m[3] \in 0..9 /\ m[4] \in 0..9
      BY <1>0, <1>7
    <2> QED
      BY <1>3, <2>1, <2>2, <2>3, <2>4 DEF DigitsLess
  <1> QED
    BY <1>0, <1>4, <1>5, <1>6, <1>7

\* A number with more digits is greater.
LEMMA LongerIsGreater ==
    ASSUME NEW n, NEW m, IsNumber(n), IsNumber(m), Len(n) < Len(m)
    PROVE  Value(n) < Value(m)
  <1>0. /\ Len(n) \in 1..4 /\ Len(m) \in 2..4
        /\ m[1] \in 0..9 /\ m[1] # 0
    <2>1. Len(n) \in 1..4 /\ Len(m) \in 1..4
      BY DigitsType
    <2>2. 1 \in 1..Len(m) /\ Len(m) > 1
      BY <2>1
    <2> QED
      BY <2>1, <2>2, DigitsType
  <1>1. CASE Len(m) = 2
    <2>1. Digit(m, 1) = m[1] /\ m[1] \in 0..9 /\ m[1] # 0
      BY <1>0, <1>1 DEF Digit
    <2>2. /\ Digit(n, 3) = 0 /\ Digit(m, 3) = 0
          /\ Digit(n, 2) = 0 /\ Digit(m, 2) = 0
          /\ Digit(n, 1) = 0
      BY <1>0, <1>1 DEF Digit
    <2> QED
      BY <2>1, <2>2, FirstDigitDecides DEF DigitsLess
  <1>2. CASE Len(m) = 3
    <2>1. Digit(m, 2) = m[1] /\ m[1] \in 0..9 /\ m[1] # 0
      BY <1>0, <1>2 DEF Digit
    <2>2. /\ Digit(n, 3) = 0 /\ Digit(m, 3) = 0
          /\ Digit(n, 2) = 0
      BY <1>0, <1>2 DEF Digit
    <2> QED
      BY <2>1, <2>2, FirstDigitDecides DEF DigitsLess
  <1>3. CASE Len(m) = 4
    <2>1. Digit(m, 3) = m[1] /\ m[1] \in 0..9 /\ m[1] # 0
      BY <1>0, <1>3 DEF Digit
    <2>2. /\ Digit(n, 3) = 0
      BY <1>0, <1>3 DEF Digit
    <2> QED
      BY <2>1, <2>2, FirstDigitDecides DEF DigitsLess
  <1> QED
    BY <1>0, <1>1, <1>2, <1>3

\* lessNumeric is < on numbers of up to four digits without leading zeros.
THEOREM lessNumericIsLess ==
    ASSUME NEW n, NEW m, IsNumber(n), IsNumber(m)
    PROVE  lessNumeric(n, m) <=> Value(n) < Value(m)
  <1>1. /\ Len(n) \in 1..4 /\ Len(m) \in 1..4
        /\ Value(n) \in Nat /\ Value(m) \in Nat
    BY DigitsType, FirstDigitDecides
  <1>2. CASE Len(n) = Len(m)
    BY <1>2, TextIsValue DEF lessNumeric
  <1>3. CASE Len(n) < Len(m)
    BY <1>1, <1>3, LongerIsGreater DEF lessNumeric
  <1>4. CASE Len(m) < Len(n)
    BY <1>1, <1>4, LongerIsGreater DEF lessNumeric
  <1> QED
    BY <1>1, <1>2, <1>3, <1>4

\* Different numbers have different values.
LEMMA ValueIsOneToOne ==
    ASSUME NEW n, NEW m, IsNumber(n), IsNumber(m), n # m
    PROVE  Value(n) # Value(m)
  <1>1. Len(n) \in 1..4 /\ Len(m) \in 1..4 /\ Value(n) \in Nat /\ Value(m) \in Nat
    BY DigitsType, FirstDigitDecides
  <1> QED
    BY <1>1, TextIsValue, LongerIsGreater

\* The first component that differs decides.
LEMMA FirstComponentDecides ==
    ASSUME NEW a, NEW b, NEW i \in 1..3, i <= Len(a), i <= Len(b),
           Len(a) \in Nat, Len(b) \in Nat, a[i] # b[i],
           \A j \in 1..i - 1 : a[j] = b[j]
    PROVE  semverCompare(a, b) = IF lessNumeric(a[i], b[i]) THEN -1 ELSE 1
  <1> DEFINE Differ == {d \in 1..3 : d <= Len(a) /\ d <= Len(b) /\ a[d] # b[d]}
  <1>1. i \in Differ /\ \A d \in Differ : i <= d
    OBVIOUS
  <1>2. (CHOOSE d \in Differ : \A e \in Differ : d <= e) = i
    <2>1. \A d \in Differ : (\A e \in Differ : d <= e) => d = i
      BY <1>1
    <2> QED
      BY <1>1, <2>1
  <1>3. Differ # {}
    BY <1>1
  <1> QED
    BY <1>2, <1>3 DEF semverCompare

\* On the names of releases semverCompare is their order: it says -1 of the
\* earlier one and the later, 1 of the later one and the earlier, and 0 of one
\* and the same name.
THEOREM semverCompareIsOrder ==
    ASSUME NEW a, NEW b, IsRelease(a), IsRelease(b)
    PROVE  /\ semverCompare(a, b) = -1 <=> Earlier(a, b)
           /\ semverCompare(a, b) = 1 <=> Earlier(b, a)
           /\ semverCompare(a, b) = 0 <=> \A i \in 1..3 : a[i] = b[i]
  <1>1. /\ Len(a) = 3 /\ Len(b) = 3
        /\ \A i \in 1..3 : IsNumber(a[i]) /\ IsNumber(b[i])
    BY DEF IsRelease
  <1>2. \A i \in 1..3 : Value(a[i]) \in Nat /\ Value(b[i]) \in Nat
    BY <1>1, FirstDigitDecides
  <1>3. ASSUME NEW i \in 1..3, a[i] # b[i], \A j \in 1..i - 1 : a[j] = b[j]
        PROVE  /\ semverCompare(a, b) = IF Value(a[i]) < Value(b[i]) THEN -1 ELSE 1
               /\ Value(a[i]) # Value(b[i])
               /\ Earlier(a, b) <=> Value(a[i]) < Value(b[i])
               /\ Earlier(b, a) <=> Value(b[i]) < Value(a[i])
    <2>1. semverCompare(a, b) = IF lessNumeric(a[i], b[i]) THEN -1 ELSE 1
      <3>1. i <= Len(a) /\ i <= Len(b) /\ Len(a) \in Nat /\ Len(b) \in Nat
        BY <1>1
      <3> QED
        BY <1>3, <3>1, FirstComponentDecides
    <2>2. lessNumeric(a[i], b[i]) <=> Value(a[i]) < Value(b[i])
      BY <1>1, lessNumericIsLess
    <2>3. Value(a[i]) # Value(b[i])
      BY <1>1, <1>3, ValueIsOneToOne
    <2>4. ASSUME NEW k \in 1..3, \A j \in 1..k - 1 : a[j] = b[j],
                 Value(a[k]) # Value(b[k])
          PROVE  k = i
      BY <1>3, <2>4
    <2>5. Earlier(a, b) <=> Value(a[i]) < Value(b[i])
      <3>1. Value(a[i]) < Value(b[i]) => Earlier(a, b)
        BY <1>3 DEF Earlier
      <3>2. ASSUME Earlier(a, b) PROVE Value(a[i]) < Value(b[i])
        <4>1. PICK k \in 1..3 : /\ Value(a[k]) < Value(b[k])
                                /\ \A j \in 1..k - 1 : a[j] = b[j]
          BY <3>2 DEF Earlier
        <4>2. k = i
          BY <1>2, <2>4, <4>1
        <4> QED
          BY <4>1, <4>2
      <3> QED
        BY <3>1, <3>2
    <2>6. Earlier(b, a) <=> Value(b[i]) < Value(a[i])
      <3>1. Value(b[i]) < Value(a[i]) => Earlier(b, a)
        BY <1>3 DEF Earlier
      <3>2. ASSUME Earlier(b, a) PROVE Value(b[i]) < Value(a[i])
        <4>1. PICK k \in 1..3 : /\ Value(b[k]) < Value(a[k])
                                /\ \A j \in 1..k - 1 : b[j] = a[j]
          BY <3>2 DEF Earlier
        <4>2. k = i
          BY <1>2, <2>4, <4>1
        <4> QED
          BY <4>1, <4>2
      <3> QED
        BY <3>1, <3>2
    <2> QED
      BY <2>1, <2>2, <2>3, <2>5, <2>6
  <1>4. CASE \A i \in 1..3 : a[i] = b[i]
    <2>1. semverCompare(a, b) = 0
      BY <1>4 DEF semverCompare
    <2>2. ~Earlier(a, b) /\ ~Earlier(b, a)
      BY <1>2, <1>4 DEF Earlier
    <2> QED
      BY <1>4, <2>1, <2>2
  <1>5. CASE \E i \in 1..3 : a[i] # b[i]
    <2>1. PICK i \in 1..3 : a[i] # b[i] /\ \A j \in 1..i - 1 : a[j] = b[j]
      <3>1. CASE a[1] # b[1]
        BY <3>1
      <3>2. CASE a[1] = b[1] /\ a[2] # b[2]
        BY <3>2
      <3>3. CASE a[1] = b[1] /\ a[2] = b[2]
        BY <1>5, <3>3
      <3> QED
        BY <3>1, <3>2, <3>3
    <2> QED
      BY <1>2, <1>3, <2>1
  <1> QED
    BY <1>4, <1>5

=============================================================================
