------------------------------ MODULE PlonkField ------------------------------
(***************************************************************************)
(* What both copies of the PLONK verifier build on and neither contains: a *)
(* small prime field in place of the scalar field of BLS12-381, its groups *)
(* as discrete logarithms, and how numbers and points lie in bytes.  A     *)
(* scalar is two decimal digits, its 32 bytes; little-endian in a proof or *)
(* a key, big-endian in a public input or a challenge.                     *)
(***************************************************************************)
EXTENDS Naturals, Sequences

CONSTANTS
    P,            \* the modulus
    RootOfUnity,  \* a root of unity of order 2^Adicity
    Adicity       \* two-adicity of the modulus

Field == 0 .. P - 1

Pow2(n) == 2^n

Powers ==
    [a \in Field |-> LET power[n \in 0 .. P - 1] == IF n = 0 THEN 1 ELSE (a * power[n - 1]) % P
                     IN  power]

ASSUME FieldAssumption ==
    /\ P \in Nat \ {0, 1} /\ P < 50
    /\ RootOfUnity \in Field /\ Adicity \in Nat \ {0}
    /\ Powers[RootOfUnity][Pow2(Adicity)] = 1 /\ Powers[RootOfUnity][Pow2(Adicity - 1)] = P - 1

Add(a, b)   == (a + b) % P
Sub(a, b)   == (a + P - b) % P
Mul(a, b)   == (a * b) % P
Neg(a)      == (P - a) % P
Power(a, n) == Powers[a][n]

\* Zero has none: the arithmetic of neither copy asks for it.
Inv == [a \in Field |-> IF a = 0 THEN 0 ELSE CHOOSE b \in Field : (a * b) % P = 1]

SumOf(s) ==
    LET count == Len(s)
        upTo[n \in 0..count] == IF n = 0 THEN 0 ELSE Add(upTo[n - 1], s[n])
    IN  upTo[count]

ProductOf(s) ==
    LET count == Len(s)
        upTo[n \in 0..count] == IF n = 0 THEN 1 ELSE Mul(upTo[n - 1], s[n])
    IN  upTo[count]

-------------------------------------------------------------------------------
(* Bytes. *)

Digits(n) == <<n % 10, n \div 10>>      \* little-endian

Swap(bytes) == <<bytes[2], bytes[1]>>

FromLe(bytes) == (bytes[1] + 10 * bytes[2])

Canonical(le) == FromLe(le) < P

\* The three high bits of an encoded point are flags; only "infinity" occurs,
\* with coordinates of zero.  A decoder refuses any other combination.
Point(log) == [infinity |-> log = 0, xy |-> log]

OnCurve(bytes) == bytes.infinity <=> bytes.xy = 0

\* What a serialised proof or key consists of, with the lengths in bytes.
Word(n)     == [len |-> 8, value |-> n]
Option(n)   == [len |-> 1, value |-> n]
G1Bytes(p)  == [len |-> 96, value |-> p]
G2Bytes(p)  == [len |-> 192, value |-> p]
FrBytes(le) == [len |-> 32, value |-> le]

SumOfLengths(lens) ==
    LET upTo[n \in 0 .. Len(lens)] == IF n = 0 THEN 0 ELSE upTo[n - 1] + lens[n] IN upTo[Len(lens)]

\* A blob is its pieces one after the other, each with its place.
Blob(pieces) ==
    [n \in DOMAIN pieces |->
        [len |-> pieces[n].len, value |-> pieces[n].value,
         at  |-> SumOfLengths([m \in 1 .. n - 1 |-> pieces[m].len])]]

BlobLen(blob) == blob[Len(blob)].at + blob[Len(blob)].len

\* What a slice of a blob holds, if one of its pieces lies exactly there.
Slice(blob, from, len) ==
    LET whole == {n \in DOMAIN blob : blob[n].at = from /\ blob[n].len = len}
    IN  IF whole = {} THEN "torn" ELSE blob[CHOOSE n \in whole : TRUE].value

Slices(blob, from, len, count) == [n \in 1..count |-> Slice(blob, from + (n - 1) * len, len)]

===============================================================================
