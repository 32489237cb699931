----------------------------- MODULE HyperLogLog -----------------------------
(***************************************************************************)
(* One HyperLogLog sketch (src/hyperloglog.cpp): 2^Precision registers,    *)
(* each the greatest rank among the hashes that its index selects.         *)
(***************************************************************************)
EXTENDS Integers, FiniteSetsExt

CONSTANTS
    Bits,       \* the width of a hash, 64 in the code
    Precision,  \* HyperLogLog::precision_
    Hash        \* the hashes of the values that are added

\* What the low bits of a hash are worth at most.
MaxRank == Bits - Precision + 1

Index == 0..2^Precision - 1
Registers == [Index -> 0..MaxRank]
Zero == [i \in Index |-> 0]

VARIABLE registers

-----------------------------------------------------------------------------
\* __builtin_clzll of a number that is not 0
LeadingZeros(x) ==
    CHOOSE n \in 0..Bits - 1 : 2^(Bits - 1 - n) <= x /\ x < 2^(Bits - n)

\* rho of the bits below the index, moved up by Precision
Rho(x) == IF x = 0 THEN MaxRank ELSE Min({LeadingZeros(x) + 1, MaxRank})

IndexOf(h) == h \div 2^(Bits - Precision)

\* Mutant: the bits of the index are not shifted out.
Remaining_Unshifted(h) == h

Remaining(h) == (h * 2^Precision) % 2^Bits

\* HyperLogLog::add
Updated(regs, h) ==
    [regs EXCEPT ![IndexOf(h)] = Max({@, Rho(Remaining(h))})]

-----------------------------------------------------------------------------
Init == registers = Zero

Add(h) == registers' = Updated(registers, h)

Next == \E h \in Hash : Add(h)

Spec == Init /\ [][Next]_registers
=============================================================================
