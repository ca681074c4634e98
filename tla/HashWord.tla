------------------------------ MODULE HashWord ------------------------------
(***************************************************************************)
(* The words the program searches, the way one word is cut into the three  *)
(* indices that enumerate it (launch, work item, combination), and its     *)
(* hash.  Characters are their ASCII codes.  A `long` is a residue modulo  *)
(* LONG_RANGE (2^64 in the program): hashes are only compared for equality.*)
(***************************************************************************)
EXTENDS Integers, Sequences

CONSTANTS
  LETTER_COUNT,            \* letters in a word, 9 in the program
  BASE,                    \* letters in the alphabet, 16 in the program
  letters_from_global_id,  \* letters enumerated by the work item's id, 4
  letters_to_iter_over,    \* letters enumerated inside a work item, 2
  LONG_RANGE               \* number of values of a long

\* An index is cut into letters by shifts and a mask: BASE is a power of two.
ASSUME BaseAssumption == BASE \in {2, 4, 8, 16} /\ LONG_RANGE \in Nat \ {0}

\* Every one of the three groups of letters is non-empty.
ASSUME SplitAssumption ==
  /\ LETTER_COUNT \in Nat
  /\ letters_from_global_id \in Nat \ {0}
  /\ letters_to_iter_over \in Nat \ {0}
  /\ letters_from_global_id + letters_to_iter_over < LETTER_COUNT

letters_from_cpu == LETTER_COUNT - letters_to_iter_over - letters_from_global_id
base_idx         == letters_from_cpu + letters_from_global_id

Position == 0 .. LETTER_COUNT - 1

\* 1 << (n * bits per letter): how many values n letters take.
Pow[n \in Nat] == IF n = 0 THEN 1 ELSE BASE * Pow[n - 1]

\* The three sizes are computed by shifting a 32-bit int.
SHIFT_LIMIT == 1073741824
ASSUME ShiftAssumption ==
  \A n \in {letters_from_cpu, letters_from_global_id, letters_to_iter_over} :
    Pow[n] <= SHIFT_LIMIT

\* The sizes of the three enumerations, and the enumerations.
repeatCnt        == Pow[letters_from_cpu]
global_work_size == Pow[letters_from_global_id]
combinations     == Pow[letters_to_iter_over]

Launch      == 0 .. repeatCnt - 1
Item        == 0 .. global_work_size - 1
Combination == 0 .. combinations - 1

\* The two tables of the kernel: letter - 'a' to index, index to letter.
lookup  == << 0, 0, 1, 2, 3, 0, 4, 0, 5, 0, 0, 6, 7,
              8, 9, 10, 0, 11, 12, 13, 14, 0, 15, 0, 0, 0 >>
letters == << 97, 99, 100, 101, 103, 105, 108, 109,
              110, 111, 112, 114, 115, 116, 117, 119 >>

hash_step(previous_val, letter) ==
  (previous_val * 37 + lookup[(letter - 97) + 1]) % LONG_RANGE

\* letters[(n >> (k * bits)) & mask]
LetterAt(n, k) == letters[((n \div Pow[k]) % BASE) + 1]

\* A slip in that formula: the item's letters are not taken from the item's
\* first letter on, but from the position in the word.
dataUnshifted(c, g, k) ==
  [p \in Position |->
     IF p < letters_from_cpu THEN LetterAt(c, p)
     ELSE IF p < base_idx    THEN LetterAt(g, p)
                             ELSE LetterAt(k, p - base_idx)]

\* The private buffer of work item g of launch c once combination k filled it.
data(c, g, k) ==
  [p \in Position |->
     IF p < letters_from_cpu THEN LetterAt(c, p)
     ELSE IF p < base_idx    THEN LetterAt(g, p - letters_from_cpu)
                             ELSE LetterAt(k, p - base_idx)]

\* The first m letters of a word, fed one by one through hash_step.
hash_steps(start, word, m) ==
  LET h[n \in 0 .. m] == IF n = 0 THEN start ELSE hash_step(h[n - 1], word[n - 1])
  IN  h[m]

\* The hash of the first base_idx letters, computed once per work item.
base_hash(c, g) == hash_steps(7, data(c, g, 0), base_idx)

\* The hash of one combination, continued from base_hash.
hash_value(c, g, k) ==
  hash_steps(base_hash(c, g),
             [n \in 0 .. letters_to_iter_over - 1 |-> LetterAt(k, n)],
             letters_to_iter_over)

-----------------------------------------------------------------------------
(***************************************************************************)
(* Reference definitions, independent of the split and of the lookup       *)
(* table: the words over the alphabet, and the hash as Horner's rule in    *)
(* base 37 over the positions of the letters in the alphabet.              *)
(***************************************************************************)
Alphabet == {letters[n] : n \in 1 .. BASE}
Words    == [Position -> Alphabet]

AlphabetIndex(letter) == (CHOOSE n \in 1 .. Len(letters) : letters[n] = letter) - 1

Hash(w) ==
  LET h[n \in 0 .. LETTER_COUNT] ==
        IF n = 0 THEN 7
                 ELSE (h[n - 1] * 37 + AlphabetIndex(w[n - 1])) % LONG_RANGE
  IN  h[LETTER_COUNT]

=============================================================================
