---------------------------- MODULE RegisterBlocks ----------------------------
(***************************************************************************)
(* How one reading of a Modbus sensor is cut into transactions and put     *)
(* together again: read_registers() and _read_raw_block() of               *)
(* backend/app/drivers/modbus.py.                                          *)
(*                                                                         *)
(* A sensor has a list of registers [type, address, count].  The value of  *)
(* a word is left out: a word is represented by the address it was read    *)
(* from, and the value of a register by the sequence of the words it is    *)
(* made of.                                                                *)
(***************************************************************************)
EXTENDS Integers, SequencesExt

CONSTANTS
    MaxGap,        \* _MAX_GAP
    RegisterMaps   \* the lists of registers to try

ASSUME MaxGapAssumption == MaxGap \in Nat

Types == {"holding", "input", "coil", "discrete"}

Register == [type : Types, address : Nat, count : 1..4]

ASSUME RegisterMapsAssumption == RegisterMaps \subseteq Seq(Register)

-----------------------------------------------------------------------------
(* The blocks.                                                             *)

(* The first address after a register.                                     *)
End(r) == r.address + r.count

(* The places in the list of the registers of one type.                    *)
OfType(regs, type) == {i \in DOMAIN regs : regs[i].type = type}

(* Mutant: the registers are taken in the order of the list.               *)
BeforeUnsorted(regs, i, j) == i < j

(* sorted() by address keeps the order of registers that share one.        *)
Before(regs, i, j) ==
    \/ regs[i].address < regs[j].address
    \/ regs[i].address = regs[j].address /\ i < j

(* The place of register i among those of its type once they are sorted.   *)
Rank(regs, i) ==
    Cardinality({j \in OfType(regs, regs[i].type) : Before(regs, j, i)}) + 1

ByAddress(regs, type) ==
    LET S == OfType(regs, type)
    IN  [k \in 1..Cardinality(S) |-> regs[CHOOSE i \in S : Rank(regs, i) = k]]

(* Mutant: the gap is measured from the start of the last register.        *)
StartsBlockEarly(sorted, k) ==
    k = 1 \/ sorted[k].address - sorted[k - 1].address > MaxGap

(* A register starts a block of its own if it is too far from the end of   *)
(* the register before it, which need not be the end of the block so far.  *)
StartsBlock(sorted, k) ==
    k = 1 \/ sorted[k].address - End(sorted[k - 1]) > MaxGap

(* A block goes on until the next register that starts one.                *)
BlockFrom(sorted, a) ==
    LET b == Max({k \in a..Len(sorted) : \A i \in a + 1..k : ~StartsBlock(sorted, i)})
    IN  SubSeq(sorted, a, b)

Grouped(sorted) == {BlockFrom(sorted, a) : a \in {k \in DOMAIN sorted : StartsBlock(sorted, k)}}

(* The blocks of a reading, each one transaction.                          *)
BlocksOf(regs) == UNION {Grouped(ByAddress(regs, type)) : type \in Types}

Transactions(regs) == Cardinality(BlocksOf(regs))

-----------------------------------------------------------------------------
(* The answers.                                                            *)

(* The words to ask for: up to the end of the last register.               *)
TotalCount(block) == End(Last(block)) - Head(block).address

Padding == -1

(* The words of the answer.  Coils and discrete inputs come in whole bytes. *)
RawBlock(block) ==
    LET n == TotalCount(block)
        length == IF Head(block).type \in {"coil", "discrete"} THEN 8 * ((n + 7) \div 8)
                                                               ELSE n
    IN  [k \in 1..length |-> IF k <= n THEN Head(block).address + k - 1 ELSE Padding]

(* A Python list takes a negative index from its end.                      *)
InRange(words, k) == k \in -Len(words)..Len(words) - 1
At(words, k) == IF k < 0 THEN words[Len(words) + k + 1] ELSE words[k + 1]

(* The places in the answer a register is decoded from.  Three or four     *)
(* words are cut down to the first.                                        *)
Places(block, r) ==
    LET offset == r.address - Head(block).address
    IN  IF r.count = 2 THEN <<offset, offset + 1>> ELSE <<offset>>

(* An IndexError ends the whole reading, whichever register it is about.   *)
ReadingFails(regs) ==
    \E block \in BlocksOf(regs) : \E r \in ToSet(block) :
        \E k \in ToSet(Places(block, r)) : ~InRange(RawBlock(block), k)

(* What a reading returns, in which blocks and for which registers.        *)
Results(regs) ==
    UNION {{[register |-> r,
             words |-> [i \in DOMAIN Places(block, r) |->
                           At(RawBlock(block), Places(block, r)[i])]] :
                r \in ToSet(block)} : block \in BlocksOf(regs)}

-----------------------------------------------------------------------------
(* Properties.                                                             *)

(* A two-word register that shares its address with a one-word register    *)
(* further down the list.                                                  *)
Shadowed(regs) ==
    \E i, j \in DOMAIN regs :
        /\ i < j
        /\ regs[i].type = regs[j].type /\ regs[i].address = regs[j].address
        /\ regs[i].count = 2 /\ regs[j].count = 1

(* The words of a register by its definition alone.                        *)
OwnWords(r) == IF r.count = 2 THEN <<r.address, r.address + 1>> ELSE <<r.address>>

(* The registers are all there, each with its own words.                   *)
Decoded(regs) ==
    /\ ~ReadingFails(regs)
    /\ Results(regs) = {[register |-> r, words |-> OwnWords(r)] : r \in ToSet(regs)}

(* Every register of a sensor is decoded, and from its own words, whatever *)
(* the order of the list, the gaps and the overlaps: one poll "must be     *)
(* split back into per-register readings with the correct offset"          *)
(* (test_modbus_multi_register.py:3).  The exception is Shadowed: the      *)
(* answer then may end one word early (modbus.py:234).                     *)
EveryListDecoded == \A regs \in RegisterMaps : Shadowed(regs) \/ Decoded(regs)

Apart(r, q) == r.type # q.type \/ End(r) <= q.address \/ End(q) <= r.address

(* r is near enough to q, which is below it, to be read with it.           *)
Near(r, q) == r.type = q.type /\ q.address < r.address /\ r.address <= End(q) + MaxGap

(* A block begins at the registers that are near to none, nowhere else.    *)
Minimal(regs) ==
    {Head(block) : block \in BlocksOf(regs)} =
        {r \in ToSet(regs) : \A q \in ToSet(regs) : ~Near(r, q)}

(* A reading takes no more transactions than the gaps demand ("to minimize *)
(* Modbus transactions", modbus.py:195), if no two registers overlap.      *)
EveryListMinimal ==
    \A regs \in RegisterMaps :
        (\A i, j \in DOMAIN regs : i # j => Apart(regs[i], regs[j])) => Minimal(regs)
=============================================================================
