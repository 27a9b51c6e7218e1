--------------------------- MODULE RecoveryShares ---------------------------
(***************************************************************************)
(* generate_recovery_shares and recover_key_from_shares of src/crypto.rs.   *)
(* A key is a sequence of symbols; each symbol is the constant term of a    *)
(* polynomial of its own, and share number x has all their values at x.     *)
(* The sharks crate is external: it works in a field of 256, here of Prime. *)
(***************************************************************************)
EXTENDS Integers, FiniteSets, Functions, Sequences

CONSTANTS
    SHAMIR_THRESHOLD,
    SHAMIR_TOTAL,
    KeyLen,  \* symbols of a key: 32
    Prime    \* size of the field

ASSUME ThresholdAssumption == SHAMIR_TOTAL \in Nat /\ SHAMIR_THRESHOLD \in 1 .. SHAMIR_TOTAL
ASSUME FieldAssumption ==
    /\ Prime \in Nat /\ SHAMIR_TOTAL < Prime
    /\ \A a, b \in 1 .. Prime - 1 : (a * b) % Prime # 0

ASSUME KeyLenAssumption == KeyLen \in Nat \ {0}

Field == 0 .. Prime - 1

\* What the dealer of sharks 0.5 draws for a symbol: no coefficient is zero.
Draw == [1 .. SHAMIR_THRESHOLD - 1 -> Field \ {0}]

\* The polynomial with coefficients c, constant term first, at x.
Poly(c, x) ==
    LET value[d \in 1 .. SHAMIR_THRESHOLD + 1] ==
            IF d > SHAMIR_THRESHOLD THEN 0 ELSE (c[d] + x * value[d + 1]) % Prime
    IN  value[1]

\* Share x of symbol v under the dealer's random coefficients c.
ShareAt(v, c, x) == Poly(<<v>> \o c, x)

\* The shares S are part of a deal of value v for symbol j.
Fits(S, j, v) == \E c \in Draw : \A s \in S : ShareAt(v, c, s[1]) = s[j + 1]

\* Mutant of Deal: the shares are numbered from zero, which is the key's place.
DealFromZero(key, coeffs) ==
    [x \in 1 .. SHAMIR_TOTAL |->
        <<x - 1>> \o [j \in 1 .. KeyLen |-> ShareAt(key[j], coeffs[j], x - 1)]]

Deal(key, coeffs) ==
    [x \in 1 .. SHAMIR_TOTAL |-> <<x>> \o [j \in 1 .. KeyLen |-> ShareAt(key[j], coeffs[j], x)]]

Over(a, b) == CHOOSE q \in Field : b # 0 => (q * b) % Prime = a

\* What share t contributes to the weight of share s, and that weight among S.
Ratio(t, s) == Over(t[1], (t[1] - s[1] + Prime) % Prime)
Weight(S, s) ==
    FoldFunction(LAMBDA q, w : (q * w) % Prime, 1, [t \in S \ {s} |-> Ratio(t, s)])

\* Symbol j at zero of the polynomial through the shares S.
Interpolated(S, j) == SumFunction([s \in S |-> s[j + 1] * Weight(S, s)]) % Prime

\* Mutant of Recovered: the number of a share is taken for its first symbol.
RecoveredWithNumber(S) ==
    IF /\ Cardinality(S) >= SHAMIR_THRESHOLD
       /\ \A s \in S : Len(s) = KeyLen + 1
    THEN [j \in 1 .. KeyLen |-> Interpolated(S, j - 1)]
    ELSE <<>>

(* recover_key_from_shares: <<>> is an error.  Too few shares, one that is  *)
(* no share, too few different numbers, different lengths and a result of   *)
(* the wrong length are errors; shares of different deals are not.          *)
Recovered(S) ==
    LET numbers == {s[1] : s \in S} IN
    IF /\ Cardinality(S) >= SHAMIR_THRESHOLD
       /\ \A s \in S : Len(s) = KeyLen + 1
       /\ Cardinality(numbers) >= SHAMIR_THRESHOLD
       /\ Cardinality(numbers) = Cardinality(S)
    THEN [j \in 1 .. KeyLen |-> Interpolated(S, j)]
    ELSE <<>>
=============================================================================
