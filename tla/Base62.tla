------------------------------- MODULE Base62 -------------------------------
(***************************************************************************)
(* backend/internal/idgen/base62.go: an ID as a short code and back.  A    *)
(* character is its index in the alphabet, a code a sequence of indexes.   *)
(***************************************************************************)
EXTENDS Integers, Sequences, SequencesExt, Functions

CONSTANT Base    \* 62

ASSUME BaseAssumption == Base \in Nat \ {0, 1}

\* The bytes in the order in which the loop writes them.
Remainders[n \in Nat] == IF n = 0 THEN <<>> ELSE <<n % Base>> \o Remainders[n \div Base]

\* Mutant: the bytes are not reversed.
EncodeUnreversed(number) == IF number = 0 THEN <<0>> ELSE Remainders[number]

Encode(number) == IF number = 0 THEN <<0>> ELSE Reverse(Remainders[number])

\* Of a code over the alphabet; another character is an error.
Decode(code) == FoldLeft(LAMBDA number, pos : number * Base + pos, 0, code)
=============================================================================
