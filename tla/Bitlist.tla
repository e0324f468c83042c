------------------------------ MODULE Bitlist ------------------------------
(***************************************************************************)
(* bitlist_object.c: the bits of a range of numbers in an array of ints    *)
(* that is longer than the range needs, and how many of them are set.  An  *)
(* int is the set of its positions whose bit is 1.                         *)
(***************************************************************************)
EXTENDS Integers, FiniteSets, FiniteSetsExt

CONSTANTS
    BITS_PER_INT,
    BitRanges,          \* the <<lowest, highest>> that init is asked for
    NoBits

ASSUME BitlistAssumption ==
    /\ BITS_PER_INT \in Nat \ {0}
    /\ BitRanges \subseteq {r \in Int \X Int : r[1] <= r[2] + 1}

VARIABLES
    lowest_valid_bit, highest_valid_bit,
    the_bits,
    bits_set_count,
    ones                \* history: the numbers whose bit the calls have left set

bitVars == <<lowest_valid_bit, highest_valid_bit, the_bits, bits_set_count, ones>>

ALL_ONES == 0 .. BITS_PER_INT - 1
Valid == lowest_valid_bit .. highest_valid_bit
ENODATA == {}    \* a bit number that is found is the set of it

BitInit == /\ lowest_valid_bit = 0 /\ highest_valid_bit = -1
           /\ the_bits = NoBits
           /\ bits_set_count = 0
           /\ ones = {}

-----------------------------------------------------------------------------
bitlist_init(lowest, highest, all_ones) ==
    /\ the_bits = NoBits
    /\ the_bits' = [i \in 0 .. (highest - lowest + 1) \div BITS_PER_INT + 1 |->
                      IF all_ones THEN ALL_ONES ELSE {}]
    /\ lowest_valid_bit' = lowest
    /\ highest_valid_bit' = highest
    /\ bits_set_count' = IF all_ones THEN highest - lowest + 1 ELSE 0
    /\ ones' = IF all_ones THEN lowest .. highest ELSE {}

\* BIT_GET, BIT_SET and BIT_CLEAR, for a bit number less the lowest one
BIT_GET(bit) == bit % BITS_PER_INT \in the_bits[bit \div BITS_PER_INT]
BIT_SET(bit) == [the_bits EXCEPT ![bit \div BITS_PER_INT] = @ \cup {bit % BITS_PER_INT}]
BIT_CLEAR(bit) == [the_bits EXCEPT ![bit \div BITS_PER_INT] = @ \ {bit % BITS_PER_INT}]

\* EINVAL outside of the range; nothing to do if the bit is set.
bitlist_set(number) ==
    /\ number \in Valid
    /\ ~BIT_GET(number - lowest_valid_bit)
    /\ the_bits' = BIT_SET(number - lowest_valid_bit)
    /\ bits_set_count' = bits_set_count + 1
    /\ ones' = ones \cup {number}
    /\ UNCHANGED <<lowest_valid_bit, highest_valid_bit>>

bitlist_clear(number) ==
    /\ number \in Valid
    /\ BIT_GET(number - lowest_valid_bit)
    /\ the_bits' = BIT_CLEAR(number - lowest_valid_bit)
    /\ bits_set_count' = bits_set_count - 1
    /\ ones' = ones \ {number}
    /\ UNCHANGED <<lowest_valid_bit, highest_valid_bit>>

bitlist_destroy ==
    /\ the_bits # NoBits
    /\ the_bits' = NoBits
    /\ lowest_valid_bit' = 0 /\ highest_valid_bit' = -1
    /\ bits_set_count' = 0
    /\ ones' = {}

-----------------------------------------------------------------------------
\* Mutant: the bits above the range are numbered as well.
NumberedUnchecked(position, i) == {position + i * BITS_PER_INT + lowest_valid_bit}

\* The number of a position in the i-th int, which may be above the range.
Numbered(position, i) ==
    LET first == position + i * BITS_PER_INT + lowest_valid_bit
    IN  IF first > highest_valid_bit THEN ENODATA ELSE {first}

bitlist_first_set_bit ==
    LET some == {i \in DOMAIN the_bits : the_bits[i] # {}}
    IN  IF some = {} THEN ENODATA ELSE Numbered(Min(the_bits[Min(some)]), Min(some))

bitlist_first_clear_bit ==
    LET some == {i \in DOMAIN the_bits : the_bits[i] # ALL_ONES}
    IN  IF some = {} THEN ENODATA
                     ELSE Numbered(Min(ALL_ONES \ the_bits[Min(some)]), Min(some))

bitlist_count_ones == bits_set_count
bitlist_count_zeros == highest_valid_bit - lowest_valid_bit + 1 - bits_set_count

BitNext == \/ \E range \in BitRanges, all_ones \in BOOLEAN :
                bitlist_init(range[1], range[2], all_ones)
           \/ \E number \in Valid : bitlist_set(number) \/ bitlist_clear(number)
           \/ bitlist_destroy

-----------------------------------------------------------------------------
BitTypeOK == /\ lowest_valid_bit \in Int /\ highest_valid_bit \in Int
             /\ the_bits # NoBits => \A i \in DOMAIN the_bits : the_bits[i] \subseteq ALL_ONES
             /\ bits_set_count \in Int
             /\ ones \subseteq Valid

MinOf(numbers) == IF numbers = {} THEN ENODATA ELSE {Min(numbers)}

\* What is read back is what was last written to each number, the counts are
\* those of the bits, and the first set and the first clear number are found,
\* or none: the bits that the last ints have above the range, which a list
\* of ones has set, are never counted or given out.
BitsRight ==
    /\ BitTypeOK
    /\ the_bits # NoBits =>
         /\ ones = {number \in Valid : BIT_GET(number - lowest_valid_bit)}
         /\ bitlist_count_ones = Cardinality(ones)
         /\ bitlist_count_zeros = Cardinality(Valid \ ones)
         /\ bitlist_first_set_bit = MinOf(ones)
         /\ bitlist_first_clear_bit = MinOf(Valid \ ones)
=============================================================================
