------------------------------- MODULE Semver -------------------------------
(***************************************************************************)
(* The order in which the updater puts versions (updater/github.go,        *)
(* semverCompare and lessNumeric).  A version, without its "v", is the     *)
(* sequence of its dot-separated components, and a component the sequence  *)
(* of its characters: a digit stands for itself, "-" for -1, the letters   *)
(* for 10 and on, which is their order as bytes.                           *)
(***************************************************************************)
EXTENDS Integers, Sequences

\* Go's < on strings.
TextLess(a, b) ==
    \E i \in 1..Len(b) :
        /\ i <= Len(a) + 1
        /\ \A j \in 1..i - 1 : a[j] = b[j]
        /\ i <= Len(a) => a[i] < b[i]

\* Mutated form of lessNumeric: components are compared as text.
lessText(a, b) == TextLess(a, b)

\* Right for numbers without leading zeros.
lessNumeric(a, b) ==
    IF Len(a) # Len(b) THEN Len(a) < Len(b) ELSE TextLess(a, b)

\* The first of the three components that differs decides; components one of
\* the two does not have are not looked at.
semverCompare(a, b) ==
    LET Differ == {i \in 1..3 : i <= Len(a) /\ i <= Len(b) /\ a[i] # b[i]}
        i == CHOOSE d \in Differ : \A e \in Differ : d <= e
    IN  IF Differ = {} THEN 0 ELSE IF lessNumeric(a[i], b[i]) THEN -1 ELSE 1

-----------------------------------------------------------------------------
(***************************************************************************)
(* What it is to compare to: well-formed names, and the order of numbers.  *)
(***************************************************************************)
\* A number in digits, without leading zeros.  Bounds its length.
IsNumber(n) ==
    /\ n \in Seq(0..9) /\ Len(n) \in 1..4
    /\ Len(n) > 1 => n[1] # 0

\* The digit that stands for d times 10^k, of a number that has it or not.
Digit(n, k) == IF k < Len(n) THEN n[Len(n) - k] ELSE 0

Value(n) == Digit(n, 0) + 10 * Digit(n, 1) + 100 * Digit(n, 2) + 1000 * Digit(n, 3)

\* v1.2.3
IsRelease(a) == Len(a) = 3 /\ \A i \in 1..3 : IsNumber(a[i])

\* The order of releases.
Earlier(a, b) ==
    \E i \in 1..3 :
        /\ Value(a[i]) < Value(b[i])
        /\ \A j \in 1..i - 1 : a[j] = b[j]

=============================================================================
