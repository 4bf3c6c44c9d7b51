--------------------------- MODULE ModbusBusProofs ---------------------------
(***************************************************************************)
(* Proofs about the readings of a Modbus sensor, for any list of           *)
(* registers and any gap, and about ModbusBus for any set of sensors and   *)
(* of writers, any number of blocks, retries, faults, outages and starts.  *)
(*                                                                         *)
(* The readings: sorting a type keeps its registers and puts them in       *)
(* order; a block runs from a start to before the next one; every          *)
(* register is in a block, at places the answer has.                       *)
(*                                                                         *)
(* The bus: LockInv says what ahead means: only tasks of the queue are     *)
(* waited for, of two tasks in the queue one waits for the other, and a    *)
(* task that awaits an answer waits for nobody.  One transaction at a time *)
(* follows.  OffInv says that a driver runs exactly when its task is not   *)
(* off or stopping, and what one that is off has let go of; with the       *)
(* places in the queue given back by LockInv, StoppedIsQuiet follows.      *)
(***************************************************************************)
EXTENDS ModbusReadings, FiniteSetTheorems, SequenceTheorems, TLAPS

-----------------------------------------------------------------------------
(* The registers of one type in the order of their addresses.              *)


(* What an entry of a list is.                                             *)
LEMMA RegisterFacts ==
    ASSUME NEW regs \in Seq(Register)
    PROVE  /\ Len(regs) \in Nat /\ DOMAIN regs = 1..Len(regs)
           /\ \A i \in DOMAIN regs :
                /\ regs[i] \in Register /\ i \in Nat
                /\ regs[i].address \in Nat /\ regs[i].count \in 1..4 /\ regs[i].type \in Types
                /\ End(regs[i]) = regs[i].address + regs[i].count
                /\ End(regs[i]) \in Nat
<1>1. Len(regs) \in Nat /\ DOMAIN regs = 1..Len(regs)
  OBVIOUS
<1>2. ASSUME NEW i \in DOMAIN regs PROVE regs[i] \in Register /\ i \in Nat
  BY <1>1
<1> QED BY <1>1, <1>2 DEF Register, End

(* Before orders the places of a type.                                     *)
LEMMA TotalOrder ==
    ASSUME NEW regs \in Seq(Register), NEW type
    PROVE  \A i, j, k \in OfType(regs, type) :
              /\ ~Before(regs, i, i)
              /\ i # j => Before(regs, i, j) \/ Before(regs, j, i)
              /\ Before(regs, i, j) /\ Before(regs, j, k) => Before(regs, i, k)
<1>1. \A i \in OfType(regs, type) : i \in Nat /\ regs[i].address \in Nat
  BY RegisterFacts DEF OfType
<1> QED BY <1>1 DEF Before

(* A list has finitely many registers of a type.                           *)
LEMMA OfTypeFinite ==
    ASSUME NEW regs \in Seq(Register), NEW type
    PROVE  IsFiniteSet(OfType(regs, type)) /\ Cardinality(OfType(regs, type)) \in Nat
<1>1. OfType(regs, type) \subseteq 1..Len(regs)
  BY RegisterFacts DEF OfType
<1>2. IsFiniteSet(1..Len(regs))
  BY RegisterFacts, FS_Interval
<1> QED BY <1>1, <1>2, FS_Subset, FS_CardinalityType

(* A register is ranked after those before it.                             *)
LEMMA Ranks ==
    ASSUME NEW regs \in Seq(Register), NEW type
    PROVE  /\ \A i \in OfType(regs, type) : Rank(regs, i) \in 1..Cardinality(OfType(regs, type))
           /\ \A i, j \in OfType(regs, type) : Before(regs, i, j) => Rank(regs, i) < Rank(regs, j)
<1> DEFINE S == OfType(regs, type)
           Lower(i) == {j \in S : Before(regs, j, i)}
<1>1. IsFiniteSet(S) /\ Cardinality(S) \in Nat
  BY OfTypeFinite
<1>2. ASSUME NEW i \in S
      PROVE  /\ IsFiniteSet(Lower(i)) /\ Cardinality(Lower(i)) \in Nat
             /\ Rank(regs, i) = Cardinality(Lower(i)) + 1
  <2>1. regs[i].type = type
    BY DEF OfType
  <2>2. Lower(i) \subseteq S
    OBVIOUS
  <2>3. IsFiniteSet(Lower(i)) /\ Cardinality(Lower(i)) \in Nat
    BY <1>1, <2>2, FS_Subset, FS_CardinalityType
  <2> QED BY <2>1, <2>3 DEF Rank
<1>3. ASSUME NEW i \in S, NEW T, IsFiniteSet(T), T \subseteq S, Lower(i) \subseteq T, i \in T
      PROVE  Cardinality(Lower(i)) + 1 <= Cardinality(T)
  <2>1. i \notin Lower(i)
    BY TotalOrder
  <2>2. Cardinality(Lower(i) \cup {i}) = Cardinality(Lower(i)) + 1
    BY <1>2, <2>1, FS_AddElement
  <2>3. Lower(i) \cup {i} \subseteq T
    BY <1>3
  <2>4. Cardinality(Lower(i) \cup {i}) <= Cardinality(T)
    BY <1>3, <2>3, FS_Subset
  <2> QED BY <2>2, <2>4
<1>4. ASSUME NEW i \in S PROVE Rank(regs, i) \in 1..Cardinality(S)
  <2>1. Lower(i) \subseteq S
    OBVIOUS
  <2>2. Cardinality(Lower(i)) + 1 <= Cardinality(S)
    BY <1>1, <1>3, <2>1
  <2>3. Cardinality(Lower(i)) \in Nat /\ Rank(regs, i) = Cardinality(Lower(i)) + 1
    BY <1>2
  <2> HIDE DEF Lower, S
  <2> QED BY <1>1, <2>2, <2>3
<1>5. ASSUME NEW i \in S, NEW j \in S, Before(regs, i, j) PROVE Rank(regs, i) < Rank(regs, j)
  <2>1. Lower(i) \subseteq Lower(j)
    BY <1>5, TotalOrder
  <2>2. i \in Lower(j) /\ Lower(j) \subseteq S
    BY <1>5
  <2>3. Cardinality(Lower(i)) + 1 <= Cardinality(Lower(j))
    BY <1>2, <1>3, <2>1, <2>2
  <2>4. Cardinality(Lower(i)) \in Nat /\ Rank(regs, i) = Cardinality(Lower(i)) + 1
    BY <1>2
  <2>5. Cardinality(Lower(j)) \in Nat /\ Rank(regs, j) = Cardinality(Lower(j)) + 1
    BY <1>2
  <2> HIDE DEF Lower, S
  <2> QED BY <2>3, <2>4, <2>5
<1> QED BY <1>4, <1>5

(* Every rank is taken, by one register.                                   *)
LEMMA EveryRank ==
    ASSUME NEW regs \in Seq(Register), NEW type
    PROVE  /\ \A k \in 1..Cardinality(OfType(regs, type)) :
                 \E i \in OfType(regs, type) : Rank(regs, i) = k
           /\ \A i, j \in OfType(regs, type) : Rank(regs, i) = Rank(regs, j) => i = j
<1> DEFINE S == OfType(regs, type)
           C == Cardinality(S)
           f == [i \in S |-> Rank(regs, i)]
<1>1. IsFiniteSet(S) /\ C \in Nat /\ IsFiniteSet(1..C) /\ Cardinality(1..C) = C
  BY OfTypeFinite, FS_Interval
<1>2. \A i \in S : Rank(regs, i) \in 1..C
  BY Ranks
<1>3. \A i, j \in S : Rank(regs, i) = Rank(regs, j) => i = j
  <2>1. \A i, j \in S : i # j => Rank(regs, i) < Rank(regs, j) \/ Rank(regs, j) < Rank(regs, i)
    BY TotalOrder, Ranks
  <2>2. \A i \in S : Rank(regs, i) \in Nat
    BY <1>1, <1>2
  <2> QED BY <2>1, <2>2
<1>4. f \in Injection(S, 1..C)
  BY <1>2, <1>3 DEF Injection, IsInjective
<1>5. f \in Surjection(S, 1..C)
  BY <1>1, <1>4, FS_Injection
<1> QED BY <1>3, <1>5 DEF Surjection

(* The place in the list of the k-th register of a type.                   *)
Place(regs, type, k) == CHOOSE i \in OfType(regs, type) : Rank(regs, i) = k

(* What sorting leaves: the same registers, from the lower to the higher.  *)
LEMMA SortedIs ==
    ASSUME NEW regs \in Seq(Register), NEW type
    PROVE  LET s == ByAddress(regs, type) IN
           /\ s \in Seq(Register)
           /\ \A k \in DOMAIN s : Place(regs, type, k) \in OfType(regs, type)
                                  /\ s[k] = regs[Place(regs, type, k)]
           /\ \A i \in OfType(regs, type) : \E k \in DOMAIN s : s[k] = regs[i]
           /\ \A j, k \in DOMAIN s : j < k =>
                 Before(regs, Place(regs, type, j), Place(regs, type, k))
<1> DEFINE S == OfType(regs, type)
           C == Cardinality(S)
           s == ByAddress(regs, type)
<1>1. C \in Nat
  BY OfTypeFinite
<1>2. s = [k \in 1..C |-> regs[Place(regs, type, k)]]
  BY DEF ByAddress, Place
<1>3. ASSUME NEW k \in 1..C PROVE Place(regs, type, k) \in S /\ Rank(regs, Place(regs, type, k)) = k
  BY EveryRank DEF Place
<1>4. ASSUME NEW k \in 1..C PROVE regs[Place(regs, type, k)] \in Register
  BY <1>3, RegisterFacts DEF OfType
<1>5. s \in Seq(Register) /\ DOMAIN s = 1..C
  BY <1>1, <1>2, <1>4
<1>6. ASSUME NEW i \in S PROVE \E k \in DOMAIN s : s[k] = regs[i]
  <2>1. Rank(regs, i) \in 1..C
    BY Ranks
  <2>2. Place(regs, type, Rank(regs, i)) = i
    BY <1>3, <2>1, EveryRank
  <2> QED BY <1>2, <1>5, <2>1, <2>2
<1>7. ASSUME NEW j \in 1..C, NEW k \in 1..C, j < k
      PROVE  Before(regs, Place(regs, type, j), Place(regs, type, k))
  <2> DEFINE a == Place(regs, type, j)
             b == Place(regs, type, k)
  <2>1. a \in S /\ b \in S /\ Rank(regs, a) = j /\ Rank(regs, b) = k
    BY <1>3
  <2>2. a # b /\ ~Before(regs, b, a)
    BY <1>1, <1>7, <2>1, Ranks
  <2> QED BY <2>1, <2>2, TotalOrder
<1> QED BY <1>2, <1>3, <1>5, <1>6, <1>7

-----------------------------------------------------------------------------
(* Blocks of a sorted list.                                                *)

(* A set of numbers has a least, and a bounded one a greatest.             *)
LEMMA Least ==
    ASSUME NEW T \in SUBSET Nat, T # {}
    PROVE  \E x \in T : \A y \in T : x <= y
<1>1. \E x \in T : \A y \in T : ~(<<y, x>> \in OpToRel(<, Nat))
  BY NatLessThanWellFounded, WFMin
<1>2. \A x, y \in T : y < x => <<y, x>> \in OpToRel(<, Nat)
  BY DEF OpToRel
<1>3. \E x \in T : \A y \in T : ~(y < x)
  BY <1>1, <1>2
<1> QED BY <1>3

LEMMA Greatest ==
    ASSUME NEW T \in SUBSET Nat, T # {}, NEW n \in Nat, \A x \in T : x <= n
    PROVE  Max(T) \in T /\ \A x \in T : x <= Max(T)
<1> DEFINE U == {n - x : x \in T}
<1>1. U \in SUBSET Nat /\ U # {}
  <2>1. ASSUME NEW x \in T PROVE n - x \in Nat
    OBVIOUS
  <2> QED BY <2>1
<1>2. PICK u \in U : \A v \in U : u <= v
  BY <1>1, Least
<1>3. PICK x \in T : u = n - x
  OBVIOUS
<1>4. ASSUME NEW y \in T PROVE x >= y
  <2>1. n - x <= n - y
    BY <1>2, <1>3
  <2> QED BY <2>1
<1>5. \E z \in T : \A y \in T : z >= y
  BY <1>4
<1>6. Max(T) \in T /\ \A y \in T : Max(T) >= y
  BY <1>5 DEF Max
<1>7. \A y \in T : Max(T) \in Nat /\ y \in Nat
  BY <1>6
<1> QED BY <1>6, <1>7

Ascending(s) ==
    /\ s \in Seq(Register)
    /\ \A j, k \in DOMAIN s : s[j].type = s[k].type /\ (j < k => s[j].address <= s[k].address)

(* A block begins where it is asked for, has no start inside, and ends     *)
(* with the list or before the next start.                                 *)
LEMMA BlockIs ==
    ASSUME NEW s \in Seq(Register), NEW a \in DOMAIN s
    PROVE  \E b \in a..Len(s) :
              /\ BlockFrom(s, a) \in Seq(Register)
              /\ Len(BlockFrom(s, a)) = b - a + 1
              /\ \A i \in 1..b - a + 1 : BlockFrom(s, a)[i] = s[a + i - 1]
              /\ \A i \in a + 1..b : ~StartsBlock(s, i)
              /\ \A c \in a..Len(s) : (\A i \in a + 1..c : ~StartsBlock(s, i)) => c <= b
<1> DEFINE T == {k \in a..Len(s) : \A i \in a + 1..k : ~StartsBlock(s, i)}
           b == Max(T)
<1>1. Len(s) \in Nat /\ a \in 1..Len(s)
  BY RegisterFacts
<1>2. a \in T
  BY <1>1
<1>3. T \in SUBSET Nat /\ \A x \in T : x <= Len(s)
  BY <1>1
<1>4. b \in T /\ \A x \in T : x <= b
  BY <1>1, <1>2, <1>3, Greatest
<1>5. BlockFrom(s, a) = SubSeq(s, a, b)
  BY DEF BlockFrom
<1>6. b \in a..Len(s) /\ a \in Int /\ b \in Int /\ a <= b
  BY <1>1, <1>4
<1>7. \A i \in a..b : s[i] \in Register
  BY <1>1, <1>6
<1>8. \A i \in a + 1..b : ~StartsBlock(s, i)
  BY <1>4
<1>9. ASSUME NEW c \in a..Len(s), \A i \in a + 1..c : ~StartsBlock(s, i) PROVE c <= b
  BY <1>4, <1>9
<1> HIDE DEF b, T
<1>10. /\ SubSeq(s, a, b) \in Seq(Register)
       /\ Len(SubSeq(s, a, b)) = IF a <= b THEN b - a + 1 ELSE 0
       /\ \A i \in 1..b - a + 1 : SubSeq(s, a, b)[i] = s[a + i - 1]
  BY <1>6, <1>7, SubSeqProperties
<1> QED BY <1>5, <1>6, <1>8, <1>9, <1>10

(* The registers of a block, by their places in the sorted list.           *)
LEMMA BlockElements ==
    ASSUME NEW s \in Seq(Register), NEW a \in DOMAIN s
    PROVE  \E b \in a..Len(s) :
              /\ BlockFrom(s, a) \in Seq(Register)
              /\ Head(BlockFrom(s, a)) = s[a]
              /\ Last(BlockFrom(s, a)) = s[b]
              /\ ToSet(BlockFrom(s, a)) = {s[k] : k \in a..b}
              /\ \A c \in a..Len(s) : (\A i \in a + 1..c : ~StartsBlock(s, i)) => c <= b
<1>1. Len(s) \in Nat /\ a \in 1..Len(s)
  BY RegisterFacts
<1> DEFINE B == BlockFrom(s, a)
<1>2. PICK b \in a..Len(s) :
         /\ B \in Seq(Register)
         /\ Len(B) = b - a + 1
         /\ \A i \in 1..b - a + 1 : B[i] = s[a + i - 1]
         /\ \A c \in a..Len(s) : (\A i \in a + 1..c : ~StartsBlock(s, i)) => c <= b
  BY BlockIs
<1>3. b \in Nat /\ a \in Nat /\ a <= b
  BY <1>1
<1> HIDE DEF B
<1>4. DOMAIN B = 1..b - a + 1 /\ B # <<>>
  BY <1>2, <1>3
<1>5. Head(B) = s[a]
  <2>1. Head(B) = B[1]
    BY <1>2, <1>4
  <2>2. B[1] = s[a + 1 - 1] /\ a + 1 - 1 = a
    BY <1>2, <1>3
  <2> QED BY <2>1, <2>2
<1>6. Last(B) = s[b]
  <2>1. B[b - a + 1] = s[a + (b - a + 1) - 1] /\ a + (b - a + 1) - 1 = b
    BY <1>2, <1>3
  <2> QED BY <1>2, <2>1 DEF Last
<1>7. ToSet(B) \subseteq {s[k] : k \in a..b}
  <2>1. ASSUME NEW i \in DOMAIN B PROVE B[i] = s[a + i - 1] /\ a + i - 1 \in a..b
    BY <1>2, <1>3, <1>4
  <2> QED BY <2>1 DEF ToSet
<1>8. {s[k] : k \in a..b} \subseteq ToSet(B)
  <2>1. ASSUME NEW k \in a..b PROVE k - a + 1 \in DOMAIN B /\ B[k - a + 1] = s[k]
    <3>1. k - a + 1 \in 1..b - a + 1 /\ a + (k - a + 1) - 1 = k
      BY <1>3
    <3> QED BY <1>2, <1>4, <3>1
  <2> QED BY <2>1 DEF ToSet
<1> QED BY <1>2, <1>5, <1>6, <1>7, <1>8 DEF B

Starts(s) == {k \in DOMAIN s : StartsBlock(s, k)}

(* Every register of the list is in a block.                               *)
LEMMA InABlock ==
    ASSUME NEW s \in Seq(Register), NEW k \in DOMAIN s
    PROVE  \E a \in Starts(s) : s[k] \in ToSet(BlockFrom(s, a))
<1>1. Len(s) \in Nat /\ k \in 1..Len(s) /\ DOMAIN s = 1..Len(s)
  BY RegisterFacts
<1> DEFINE T == {a \in 1..k : StartsBlock(s, a)}
           a == Max(T)
<1>2. T \in SUBSET Nat /\ 1 \in T /\ k \in Nat /\ \A x \in T : x <= k
  BY <1>1 DEF StartsBlock
<1>3. a \in T /\ \A x \in T : x <= a
  BY <1>2, Greatest
<1>4. a \in Starts(s) /\ a \in 1..k
  BY <1>1, <1>3 DEF Starts
<1>5. \A i \in a + 1..k : ~StartsBlock(s, i)
  BY <1>1, <1>3, <1>4
<1> HIDE DEF a, T
<1>6. PICK b \in a..Len(s) :
         /\ ToSet(BlockFrom(s, a)) = {s[j] : j \in a..b}
         /\ \A c \in a..Len(s) : (\A i \in a + 1..c : ~StartsBlock(s, i)) => c <= b
  BY <1>4, BlockElements DEF Starts
<1>7. k \in a..Len(s)
  BY <1>1, <1>4
<1>8. k <= b
  BY <1>5, <1>6, <1>7
<1>9. k \in a..b
  BY <1>1, <1>4, <1>7, <1>8
<1> QED BY <1>4, <1>6, <1>9

(* The sorted list has no two-word register before a one-word register at  *)
(* the same address.                                                       *)
Unshadowed(s) ==
    \A j, k \in DOMAIN s :
        j < k /\ s[j].address = s[k].address /\ s[j].count = 2 => s[k].count # 1

(* The same without the places in the list they came from.                 *)
LEMMA ListSorted ==
    ASSUME NEW regs \in Seq(Register), NEW type
    PROVE  LET s == ByAddress(regs, type) IN
           /\ Ascending(s)
           /\ ToSet(s) = {regs[i] : i \in OfType(regs, type)}
           /\ ~Shadowed(regs) => Unshadowed(s)
<1> DEFINE s == ByAddress(regs, type)
           S == OfType(regs, type)
           at(k) == Place(regs, type, k)
<1>1. /\ s \in Seq(Register)
      /\ \A k \in DOMAIN s : at(k) \in S /\ s[k] = regs[at(k)]
      /\ \A i \in S : \E k \in DOMAIN s : s[k] = regs[i]
      /\ \A j, k \in DOMAIN s : j < k => Before(regs, at(j), at(k))
  BY SortedIs
<1>2. \A i \in S : i \in DOMAIN regs /\ i \in Nat /\ regs[i].type = type /\ regs[i].address \in Nat
  BY RegisterFacts DEF OfType
<1> HIDE DEF s, S, at
<1>3. Ascending(s)
  <2>1. \A j, k \in DOMAIN s : s[j].type = s[k].type
    BY <1>1, <1>2
  <2>2. ASSUME NEW j \in DOMAIN s, NEW k \in DOMAIN s, j < k PROVE s[j].address <= s[k].address
    <3>1. Before(regs, at(j), at(k)) /\ at(j) \in S /\ at(k) \in S
      BY <1>1, <2>2
    <3>2. regs[at(j)].address <= regs[at(k)].address
      BY <1>2, <3>1 DEF Before
    <3> QED BY <1>1, <3>2
  <2> QED BY <1>1, <2>1, <2>2 DEF Ascending
<1>4. ToSet(s) = {regs[i] : i \in S}
  BY <1>1 DEF ToSet
<1>5. ASSUME ~Shadowed(regs) PROVE Unshadowed(s)
  <2> SUFFICES ASSUME NEW j \in DOMAIN s, NEW k \in DOMAIN s, j < k,
                      s[j].address = s[k].address, s[j].count = 2, s[k].count = 1
               PROVE  FALSE
    BY DEF Unshadowed
  <2>1. Before(regs, at(j), at(k)) /\ at(j) \in S /\ at(k) \in S
    BY <1>1
  <2>2. s[j] = regs[at(j)] /\ s[k] = regs[at(k)]
    BY <1>1
  <2>3. at(j) < at(k)
    BY <1>2, <2>1, <2>2 DEF Before
  <2>4. Shadowed(regs)
    BY <1>2, <2>1, <2>2, <2>3 DEF Shadowed
  <2> QED BY <1>5, <2>4
<1> QED BY <1>3, <1>4, <1>5 DEF s, S

(* Of an answer of n words from x on, up to the end of a register at z, a  *)
(* register at y takes its places.                                         *)
LEMMA WithinAsked ==
    ASSUME NEW x \in Nat, NEW y \in Nat, NEW z \in Nat, NEW n \in 1..4, x <= y, y <= z
    PROVE  /\ z + n - x \in Nat /\ y - x \in Nat /\ y - x < z + n - x
           /\ y < z \/ n # 1 => y - x + 1 < z + n - x
OBVIOUS

(* The places of a register in the answer lie within the words asked for.  *)
LEMMA PlacesAsked ==
    ASSUME NEW s, Ascending(s), Unshadowed(s), NEW a \in DOMAIN s, NEW r \in ToSet(BlockFrom(s, a))
    PROVE  LET B == BlockFrom(s, a) IN
           /\ r \in ToSet(s)
           /\ TotalCount(B) \in Nat
           /\ Head(B) = s[a] /\ s[a].address \in Nat
           /\ r.address - s[a].address \in Nat
           /\ r.address - s[a].address < TotalCount(B)
           /\ r.count = 2 => r.address - s[a].address + 1 < TotalCount(B)
<1> DEFINE B == BlockFrom(s, a)
<1>1. s \in Seq(Register)
  BY DEF Ascending
<1>2. /\ Len(s) \in Nat /\ DOMAIN s = 1..Len(s)
      /\ \A k \in DOMAIN s : s[k].address \in Nat /\ s[k].count \in 1..4
                             /\ End(s[k]) = s[k].address + s[k].count
  BY <1>1, RegisterFacts
<1>3. PICK b \in a..Len(s) : Head(B) = s[a] /\ Last(B) = s[b] /\ ToSet(B) = {s[k] : k \in a..b}
  BY <1>1, BlockElements
<1>4. PICK k \in a..b : r = s[k]
  BY <1>3
<1>5. a \in DOMAIN s /\ b \in DOMAIN s /\ k \in DOMAIN s /\ a <= k /\ k <= b /\ k \in Nat /\ b \in Nat /\ a \in Nat
  BY <1>2, <1>3, <1>4
<1>6. TotalCount(B) = s[b].address + s[b].count - s[a].address
  BY <1>2, <1>3, <1>5 DEF TotalCount
<1>7. s[a].address <= s[k].address /\ s[k].address <= s[b].address
  BY <1>2, <1>5 DEF Ascending
<1>8. /\ s[a].address \in Nat /\ s[k].address \in Nat /\ s[b].address \in Nat
      /\ s[b].count \in 1..4 /\ r.address = s[k].address /\ r.count = s[k].count
  BY <1>2, <1>4, <1>5
<1>9. r.count = 2 => s[k].address < s[b].address \/ s[b].count # 1
  <2>1. k = b \/ k < b
    BY <1>5
  <2>2. ASSUME r.count = 2, k < b, s[k].address = s[b].address PROVE s[b].count # 1
    BY <1>4, <1>5, <2>2 DEF Unshadowed
  <2>3. ASSUME r.count = 2, k = b PROVE s[b].count # 1
    BY <1>4, <2>3
  <2>4. s[k].address < s[b].address \/ s[k].address = s[b].address
    BY <1>7, <1>8
  <2> QED BY <2>1, <2>2, <2>3, <2>4
<1>10. r \in ToSet(s) /\ Head(B) = s[a]
  BY <1>3, <1>4, <1>5 DEF ToSet
<1> HIDE DEF B
<1>11. /\ TotalCount(B) \in Nat
       /\ r.address - s[a].address \in Nat
       /\ r.address - s[a].address < TotalCount(B)
       /\ r.count = 2 => r.address - s[a].address + 1 < TotalCount(B)
  <2> DEFINE n == s[b].address + s[b].count - s[a].address
  <2>1. /\ n \in Nat /\ s[k].address - s[a].address \in Nat
        /\ s[k].address - s[a].address < n
        /\ s[k].address < s[b].address \/ s[b].count # 1 => s[k].address - s[a].address + 1 < n
    BY <1>7, <1>8, WithinAsked
  <2> HIDE DEF n
  <2>2. TotalCount(B) = n
    BY <1>6 DEF n
  <2> QED BY <1>8, <1>9, <2>1, <2>2
<1> QED BY <1>8, <1>10, <1>11 DEF B

(* A register of a block is decoded from its own words.                    *)
LEMMA OwnDecoded ==
    ASSUME NEW s, Ascending(s), Unshadowed(s), NEW a \in DOMAIN s, NEW r \in ToSet(BlockFrom(s, a))
    PROVE  LET B == BlockFrom(s, a) IN
           /\ \A k \in ToSet(Places(B, r)) : InRange(RawBlock(B), k)
           /\ [i \in DOMAIN Places(B, r) |-> At(RawBlock(B), Places(B, r)[i])] = OwnWords(r)
<1> DEFINE B == BlockFrom(s, a)
           n == TotalCount(B)
           start == s[a].address
           offset == r.address - start
           raw == RawBlock(B)
<1>1. /\ n \in Nat /\ Head(B) = s[a] /\ start \in Nat /\ offset \in Nat
      /\ offset < n /\ (r.count = 2 => offset + 1 < n)
  BY PlacesAsked
<1>2. r.address \in Nat
  <2>1. r \in ToSet(s) /\ s \in Seq(Register)
    BY PlacesAsked DEF Ascending
  <2> QED BY <2>1, RegisterFacts DEF ToSet
<1>3. Places(B, r) = IF r.count = 2 THEN <<offset, offset + 1>> ELSE <<offset>>
  BY <1>1 DEF Places
<1> HIDE DEF B
<1>4. PICK m \in Nat : n <= m /\ raw = [k \in 1..m |-> IF k <= n THEN start + k - 1 ELSE Padding]
  <2> DEFINE m == IF s[a].type \in {"coil", "discrete"} THEN 8 * ((n + 7) \div 8) ELSE n
  <2>1. 8 * ((n + 7) \div 8) \in Nat /\ n <= 8 * ((n + 7) \div 8)
    BY <1>1
  <2>2. m \in Nat /\ n <= m
    BY <1>1, <2>1
  <2>3. raw = [k \in 1..m |-> IF k <= n THEN start + k - 1 ELSE Padding]
    BY <1>1 DEF RawBlock
  <2> HIDE DEF m
  <2> QED BY <2>2, <2>3
<1> HIDE DEF n, raw
<1>5. Len(raw) = m
  BY <1>4
<1>6. ASSUME NEW k \in Nat, k < n PROVE InRange(raw, k) /\ At(raw, k) = start + k
  <2>1. k \in -m..m - 1 /\ k + 1 \in 1..m /\ k + 1 <= n
    BY <1>1, <1>4, <1>6
  <2>2. raw[k + 1] = start + (k + 1) - 1
    BY <1>4, <2>1
  <2> QED BY <1>1, <1>5, <2>1, <2>2 DEF InRange, At
<1> HIDE DEF offset
<1>7. start + offset = r.address /\ start + (offset + 1) = r.address + 1
  BY <1>1, <1>2 DEF offset
<1> HIDE DEF start
<1>8. CASE r.count = 2
  <2>1. Places(B, r) = <<offset, offset + 1>>
    BY <1>3, <1>8
  <2>2. InRange(raw, offset) /\ InRange(raw, offset + 1)
        /\ At(raw, offset) = r.address /\ At(raw, offset + 1) = r.address + 1
    BY <1>1, <1>6, <1>7, <1>8
  <2>3. OwnWords(r) = <<r.address, r.address + 1>>
    BY <1>8 DEF OwnWords
  <2>4. [i \in DOMAIN Places(B, r) |-> At(raw, Places(B, r)[i])] = <<r.address, r.address + 1>>
    BY <2>1, <2>2
  <2>5. ToSet(Places(B, r)) = {offset, offset + 1}
    BY <2>1 DEF ToSet
  <2> QED BY <2>2, <2>3, <2>4, <2>5 DEF B, raw
<1>9. CASE r.count # 2
  <2>1. Places(B, r) = <<offset>>
    BY <1>3, <1>9
  <2>2. InRange(raw, offset) /\ At(raw, offset) = r.address
    BY <1>1, <1>6, <1>7
  <2>3. OwnWords(r) = <<r.address>>
    BY <1>9 DEF OwnWords
  <2>4. [i \in DOMAIN Places(B, r) |-> At(raw, Places(B, r)[i])] = <<r.address>>
    BY <2>1, <2>2
  <2>5. ToSet(Places(B, r)) = {offset}
    BY <2>1 DEF ToSet
  <2> QED BY <2>2, <2>3, <2>4, <2>5 DEF B, raw
<1> QED BY <1>8, <1>9

(* The blocks of a list are those of its types, and each of its registers  *)
(* is in one.                                                              *)
LEMMA BlocksAre ==
    ASSUME NEW regs \in Seq(Register)
    PROVE  /\ \A block \in BlocksOf(regs) : \E type \in Types :
                 \E a \in Starts(ByAddress(regs, type)) :
                    block = BlockFrom(ByAddress(regs, type), a)
           /\ \A type \in Types : \A a \in Starts(ByAddress(regs, type)) :
                 BlockFrom(ByAddress(regs, type), a) \in BlocksOf(regs)
           /\ \A r \in ToSet(regs) : \E block \in BlocksOf(regs) : r \in ToSet(block)
<1>1. ASSUME NEW block \in BlocksOf(regs)
      PROVE  \E type \in Types : \E a \in Starts(ByAddress(regs, type)) :
                block = BlockFrom(ByAddress(regs, type), a)
  <2>1. PICK type \in Types : block \in Grouped(ByAddress(regs, type))
    BY DEF BlocksOf
  <2> QED BY <2>1 DEF Grouped, Starts
<1>2. ASSUME NEW type \in Types, NEW a \in Starts(ByAddress(regs, type))
      PROVE  BlockFrom(ByAddress(regs, type), a) \in BlocksOf(regs)
  <2>1. BlockFrom(ByAddress(regs, type), a) \in Grouped(ByAddress(regs, type))
    BY DEF Grouped, Starts
  <2> QED BY <2>1 DEF BlocksOf
<1>3. ASSUME NEW r \in ToSet(regs) PROVE \E block \in BlocksOf(regs) : r \in ToSet(block)
  <2>1. PICK i \in DOMAIN regs : r = regs[i]
    BY DEF ToSet
  <2> DEFINE s == ByAddress(regs, regs[i].type)
  <2>2. regs[i].type \in Types /\ i \in OfType(regs, regs[i].type)
    BY RegisterFacts DEF OfType
  <2>3. s \in Seq(Register) /\ r \in ToSet(s)
    BY <2>1, <2>2, ListSorted DEF Ascending
  <2>4. PICK k \in DOMAIN s : r = s[k]
    BY <2>3 DEF ToSet
  <2>5. PICK a \in Starts(s) : r \in ToSet(BlockFrom(s, a))
    BY <2>3, <2>4, InABlock
  <2> QED BY <1>2, <2>2, <2>5
<1> QED BY <1>1, <1>2, <1>3

(* Every register of a list without shadows is decoded from its own words. *)
LEMMA DecodedAll ==
    ASSUME NEW regs \in Seq(Register), ~Shadowed(regs)
    PROVE  Decoded(regs)
<1> DEFINE Words(block, r) ==
              [i \in DOMAIN Places(block, r) |-> At(RawBlock(block), Places(block, r)[i])]
           Reading(block) == {[register |-> r, words |-> Words(block, r)] : r \in ToSet(block)}
           Own == {[register |-> r, words |-> OwnWords(r)] : r \in ToSet(regs)}
<1>1. ASSUME NEW block \in BlocksOf(regs), NEW r \in ToSet(block)
      PROVE  /\ r \in ToSet(regs)
             /\ \A k \in ToSet(Places(block, r)) : InRange(RawBlock(block), k)
             /\ Words(block, r) = OwnWords(r)
  <2>1. PICK type \in Types : \E a \in Starts(ByAddress(regs, type)) :
           block = BlockFrom(ByAddress(regs, type), a)
    BY BlocksAre
  <2> DEFINE s == ByAddress(regs, type)
  <2>2. PICK a \in DOMAIN s : block = BlockFrom(s, a)
    BY <2>1 DEF Starts
  <2>3. Ascending(s) /\ Unshadowed(s) /\ ToSet(s) = {regs[i] : i \in OfType(regs, type)}
    BY ListSorted
  <2> HIDE DEF s
  <2>4. r \in ToSet(s)
    BY <2>2, <2>3, PlacesAsked
  <2>5. r \in ToSet(regs)
    BY <2>3, <2>4 DEF OfType, ToSet
  <2> QED BY <2>2, <2>3, <2>5, OwnDecoded
<1>2. ~ReadingFails(regs)
  BY <1>1 DEF ReadingFails
<1>3. Results(regs) = UNION {Reading(block) : block \in BlocksOf(regs)}
  BY DEF Results
<1> HIDE DEF Words
<1>4. ASSUME NEW block \in BlocksOf(regs) PROVE Reading(block) \subseteq Own
  BY <1>1
<1>5. ASSUME NEW r \in ToSet(regs)
      PROVE  \E block \in BlocksOf(regs) : [register |-> r, words |-> OwnWords(r)] \in Reading(block)
  <2>1. PICK block \in BlocksOf(regs) : r \in ToSet(block)
    BY BlocksAre
  <2>2. [register |-> r, words |-> Words(block, r)] \in Reading(block)
    BY <2>1
  <2> QED BY <1>1, <2>1, <2>2
<1>6. Own \subseteq UNION {Reading(block) : block \in BlocksOf(regs)}
  <2> HIDE DEF Reading
  <2> QED BY <1>5
<1>7. UNION {Reading(block) : block \in BlocksOf(regs)} \subseteq Own
  <2> HIDE DEF Reading, Own
  <2> QED BY <1>4
<1>8. Results(regs) = Own
  <2> HIDE DEF Reading, Own
  <2> QED BY <1>3, <1>6, <1>7
<1> QED BY <1>2, <1>8 DEF Decoded

-----------------------------------------------------------------------------
(* No more blocks than the gaps demand.                                    *)

AllApart(regs) == \A i, j \in DOMAIN regs : i # j => Apart(regs[i], regs[j])

(* Registers that do not overlap end in the order in which they begin.     *)
LEMMA EndsInOrder ==
    ASSUME NEW regs \in Seq(Register), NEW type, AllApart(regs)
    PROVE  LET s == ByAddress(regs, type) IN
           \A j, k \in DOMAIN s : j < k =>
              s[j].address < s[k].address /\ End(s[j]) <= s[k].address
<1> DEFINE s == ByAddress(regs, type)
<1> SUFFICES ASSUME NEW j \in DOMAIN s, NEW k \in DOMAIN s, j < k
             PROVE  s[j].address < s[k].address /\ End(s[j]) <= s[k].address
  OBVIOUS
<1> DEFINE i == Place(regs, type, j)
           l == Place(regs, type, k)
<1>1. /\ i \in OfType(regs, type) /\ s[j] = regs[i]
      /\ l \in OfType(regs, type) /\ s[k] = regs[l]
      /\ Before(regs, i, l)
  BY SortedIs
<1> HIDE DEF s, i, l
<1>2. /\ i \in DOMAIN regs /\ l \in DOMAIN regs /\ i # l
      /\ regs[i].type = regs[l].type
  BY <1>1, TotalOrder DEF OfType
<1>3. Apart(regs[i], regs[l])
  BY <1>2 DEF AllApart
<1> DEFINE x == regs[i].address
           y == regs[l].address
           m == regs[i].count
           n == regs[l].count
<1>4. x \in Nat /\ y \in Nat /\ m \in 1..4 /\ n \in 1..4
      /\ End(regs[i]) = x + m /\ End(regs[l]) = y + n
  BY <1>2, RegisterFacts
<1>5. x <= y
  BY <1>1, <1>4 DEF Before
<1>6. x + m <= y \/ y + n <= x
  BY <1>2, <1>3, <1>4 DEF Apart
<1>7. s[j].address = x /\ s[k].address = y /\ End(s[j]) = x + m
  BY <1>1, <1>4
<1> HIDE DEF x, y, m, n
<1>8. x + m <= y /\ x < y
  BY <1>4, <1>5, <1>6
<1> QED BY <1>7, <1>8

(* A block starts exactly where the register is near to none.              *)
LEMMA StartsApart ==
    ASSUME NEW regs \in Seq(Register), NEW type, AllApart(regs),
           NEW k \in DOMAIN ByAddress(regs, type)
    PROVE  LET s == ByAddress(regs, type) IN
           StartsBlock(s, k) <=> \A j \in DOMAIN s : ~Near(s[k], s[j])
<1> DEFINE s == ByAddress(regs, type)
<1>1. s \in Seq(Register) /\ \A i, j \in DOMAIN s : s[i].type = s[j].type
  BY ListSorted DEF Ascending
<1>2. \A i, j \in DOMAIN s : i < j =>
         s[i].address < s[j].address /\ End(s[i]) <= s[j].address
  BY EndsInOrder
<1>3. k \in DOMAIN s
  OBVIOUS
<1> HIDE DEF s
<1>4. /\ Len(s) \in Nat /\ DOMAIN s = 1..Len(s)
      /\ \A i \in DOMAIN s : s[i].address \in Nat /\ End(s[i]) \in Nat
                             /\ s[i].address <= End(s[i])
  <2>1. ASSUME NEW i \in DOMAIN s PROVE s[i].address <= End(s[i])
    <3>1. s[i].address \in Nat /\ s[i].count \in 1..4 /\ End(s[i]) = s[i].address + s[i].count
      BY <1>1, RegisterFacts
    <3> QED BY <3>1
  <2> QED BY <1>1, <2>1, RegisterFacts
<1>5. ASSUME StartsBlock(s, k), NEW j \in DOMAIN s, Near(s[k], s[j]) PROVE FALSE
  <2>1. s[j].address < s[k].address /\ s[k].address <= End(s[j]) + MaxGap
    BY <1>5 DEF Near
  <2>2. j < k
    <3>1. ~(k < j) /\ k # j
      BY <1>3, <1>2, <1>4, <2>1
    <3> QED BY <1>3, <1>4, <3>1
  <2>3. k - 1 \in DOMAIN s /\ k # 1 /\ (j = k - 1 \/ j < k - 1)
    BY <1>3, <1>4, <2>2
  <2>4. End(s[j]) <= End(s[k - 1])
    <3>1. CASE j = k - 1
      BY <1>4, <2>3, <3>1
    <3>2. CASE j < k - 1
      <4>1. End(s[j]) <= s[k - 1].address
        BY <1>2, <2>3, <3>2
      <4> QED BY <1>4, <2>3, <4>1
    <3> QED BY <2>3, <3>1, <3>2
  <2>5. s[k].address - End(s[k - 1]) > MaxGap
    BY <1>5, <2>3 DEF StartsBlock
  <2> QED BY <1>3, <1>4, <2>1, <2>3, <2>4, <2>5, MaxGapAssumption
<1>6. ASSUME ~StartsBlock(s, k) PROVE \E j \in DOMAIN s : Near(s[k], s[j])
  <2>1. k # 1 /\ ~(s[k].address - End(s[k - 1]) > MaxGap)
    BY <1>6 DEF StartsBlock
  <2>2. k - 1 \in DOMAIN s /\ k - 1 < k
    BY <1>3, <1>4, <2>1
  <2>3. s[k - 1].address < s[k].address
    BY <1>3, <1>2, <2>2
  <2>4. s[k].address <= End(s[k - 1]) + MaxGap
    BY <1>3, <1>4, <2>1, <2>2, MaxGapAssumption
  <2> QED BY <1>3, <1>1, <2>2, <2>3, <2>4 DEF Near
<1>7. StartsBlock(s, k) <=> \A j \in DOMAIN s : ~Near(s[k], s[j])
  BY <1>5, <1>6
<1> QED BY <1>7 DEF s

(* The blocks of a list without overlaps begin at the registers near to    *)
(* none.                                                                   *)
LEMMA MinimalAll ==
    ASSUME NEW regs \in Seq(Register), AllApart(regs)
    PROVE  Minimal(regs)
<1> DEFINE Alone == {r \in ToSet(regs) : \A q \in ToSet(regs) : ~Near(r, q)}
           Heads == {Head(block) : block \in BlocksOf(regs)}
<1>1. ASSUME NEW type, NEW k \in DOMAIN ByAddress(regs, type)
      PROVE  /\ ByAddress(regs, type)[k] \in ToSet(regs)
             /\ (\A j \in DOMAIN ByAddress(regs, type) :
                    ~Near(ByAddress(regs, type)[k], ByAddress(regs, type)[j])) <=>
                \A q \in ToSet(regs) : ~Near(ByAddress(regs, type)[k], q)
  <2> DEFINE s == ByAddress(regs, type)
  <2>1. ToSet(s) = {regs[i] : i \in OfType(regs, type)}
    BY ListSorted
  <2>2. \A i \in OfType(regs, type) : i \in DOMAIN regs /\ regs[i].type = type
    BY DEF OfType
  <2>3. \A j \in DOMAIN s : s[j] \in ToSet(regs) /\ s[j].type = type
    BY <2>1, <2>2 DEF ToSet
  <2>4. ASSUME NEW q \in ToSet(regs), Near(s[k], q) PROVE \E j \in DOMAIN s : q = s[j]
    <3>1. q.type = type
      BY <2>3, <2>4 DEF Near
    <3>2. q \in ToSet(s)
      BY <2>1, <3>1 DEF ToSet, OfType
    <3> QED BY <3>2 DEF ToSet
  <2> QED BY <2>3, <2>4
<1>2. ASSUME NEW block \in BlocksOf(regs) PROVE Head(block) \in Alone
  <2>1. PICK type \in Types : \E a \in Starts(ByAddress(regs, type)) :
           block = BlockFrom(ByAddress(regs, type), a)
    BY BlocksAre
  <2> DEFINE s == ByAddress(regs, type)
  <2>2. PICK a \in DOMAIN s : StartsBlock(s, a) /\ block = BlockFrom(s, a)
    BY <2>1 DEF Starts
  <2>3. s \in Seq(Register)
    BY ListSorted DEF Ascending
  <2>4. Head(block) = s[a]
    BY <2>2, <2>3, BlockElements
  <2>5. \A j \in DOMAIN s : ~Near(s[a], s[j])
    BY <2>2, StartsApart
  <2> QED BY <1>1, <2>4, <2>5
<1>3. ASSUME NEW r \in Alone PROVE r \in Heads
  <2>1. PICK i \in DOMAIN regs : r = regs[i]
    BY DEF ToSet
  <2> DEFINE type == regs[i].type
             s == ByAddress(regs, type)
  <2>2. type \in Types /\ i \in OfType(regs, type)
    BY RegisterFacts DEF OfType
  <2>3. s \in Seq(Register)
    BY ListSorted DEF Ascending
  <2>4. PICK k \in DOMAIN s : s[k] = regs[i]
    BY <2>2, SortedIs
  <2>5. \A j \in DOMAIN s : ~Near(s[k], s[j])
    BY <1>1, <2>1, <2>4
  <2>6. StartsBlock(s, k)
    BY <2>5, StartsApart
  <2>7. BlockFrom(s, k) \in BlocksOf(regs)
    BY <2>2, <2>6, BlocksAre DEF Starts
  <2>8. Head(BlockFrom(s, k)) = r
    BY <2>1, <2>3, <2>4, BlockElements
  <2> QED BY <2>7, <2>8
<1>4. Heads = Alone
  BY <1>2, <1>3
<1> QED BY <1>4 DEF Minimal

(* Every register of every list is decoded, from its own words.            *)
THEOREM EveryRegisterDecoded == EveryListDecoded
BY DecodedAll, RegisterMapsAssumption DEF EveryListDecoded

(* No list of registers that do not overlap is read in more transactions   *)
(* than its gaps demand.                                                   *)
THEOREM EveryGapNeeded == EveryListMinimal
BY MinimalAll, RegisterMapsAssumption DEF EveryListMinimal, AllApart

-----------------------------------------------------------------------------
(* The bus.                                                                *)

USE TasksAssumption, NumbersAssumption

LockInv ==
    /\ \A t, u \in Tasks : u \in ahead[t] => u \in Queue
    /\ \A t, u \in Queue : t # u => u \in ahead[t] \/ t \in ahead[u]
    /\ \A t \in Tasks : t \notin ahead[t]
    /\ \A t, u, v \in Tasks : v \in ahead[u] /\ u \in ahead[t] => v \in ahead[t]
    /\ \A t \in Tasks : pc[t] \in {"open", "busy"} => ahead[t] = {}

OffInv ==
    /\ \A d \in Drivers : running[d] <=> pc[d] \notin {"off", "stopping"}
    /\ \A d \in Drivers : pc[d] = "off" =>
          client[d] = NoClient /\ ~connected[d] /\ status[d] # "ONLINE"
    /\ \A w \in Writers : pc[w] # "off" => target[w] \in Drivers

IInv == TypeOK /\ LockInv /\ OffInv

-----------------------------------------------------------------------------
(* The five ways in which a task moves: it asks for the lock, gives it     *)
(* back, does both, goes on under it, or goes on without it.               *)

PlacesOK == /\ pc \in [Tasks -> {"off", "lock", "open", "read", "busy", "sleep", "stopping"}]
            /\ ahead \in [Tasks -> SUBSET Tasks]

Advance(t, label) ==
    /\ pc' = [pc EXCEPT ![t] = label]
    /\ UNCHANGED ahead

LEMMA EnterKeeps ==
    ASSUME PlacesOK, LockInv, NEW t \in Tasks, t \notin Queue,
           NEW label \in {"lock", "read"}, Enter(t, label)
    PROVE  PlacesOK' /\ LockInv'
<1>1. Queue' = Queue \cup {t}
    BY DEF PlacesOK, Queue, Enter
<1>2. PlacesOK'
    BY DEF PlacesOK, Queue, Enter
<1>3. \A u \in Tasks : u # t => ahead'[u] = ahead[u] /\ pc'[u] = pc[u]
    BY DEF PlacesOK, Enter
<1>4. ahead'[t] = Queue /\ pc'[t] = label
    BY DEF PlacesOK, Enter
<1>5. Queue \subseteq Tasks
    BY DEF Queue
<1> QED
    BY <1>1, <1>2, <1>3, <1>4, <1>5 DEF LockInv

LEMMA LeaveKeeps ==
    ASSUME PlacesOK, LockInv, NEW t \in Tasks,
           NEW label \in {"off", "sleep", "stopping"}, Leave(t, label)
    PROVE  PlacesOK' /\ LockInv'
<1>1. Queue' = Queue \ {t}
    BY DEF PlacesOK, Queue, Leave
<1>2. PlacesOK'
    BY DEF PlacesOK, Leave
<1>3. \A u \in Tasks : u # t => ahead'[u] = ahead[u] \ {t} /\ pc'[u] = pc[u]
    BY DEF PlacesOK, Leave
<1>4. ahead'[t] = {} /\ pc'[t] = label
    BY DEF PlacesOK, Leave
<1>5. Queue \subseteq Tasks
    BY DEF Queue
<1> QED
    BY <1>1, <1>2, <1>3, <1>4, <1>5 DEF LockInv

LEMMA RequeueKeeps ==
    ASSUME PlacesOK, LockInv, NEW t \in Tasks, NEW label \in {"lock", "read"}, Requeue(t, label)
    PROVE  PlacesOK' /\ LockInv'
<1>1. Queue' = Queue \cup {t}
    BY DEF PlacesOK, Queue, Requeue
<1>2. PlacesOK'
    BY DEF PlacesOK, Queue, Requeue
<1>3. \A u \in Tasks : u # t => ahead'[u] = ahead[u] \ {t} /\ pc'[u] = pc[u]
    BY DEF PlacesOK, Requeue
<1>4. ahead'[t] = Queue \ {t} /\ pc'[t] = label
    BY DEF PlacesOK, Requeue
<1>5. Queue \subseteq Tasks
    BY DEF Queue
<1> QED
    BY <1>1, <1>2, <1>3, <1>4, <1>5 DEF LockInv

LEMMA AdvanceKeeps ==
    ASSUME PlacesOK, LockInv, NEW t \in Tasks, HasLock(t),
           NEW label \in {"open", "busy"}, Advance(t, label)
    PROVE  PlacesOK' /\ LockInv'
<1>1. Queue' = Queue
    BY DEF PlacesOK, Queue, Advance, HasLock
<1>2. PlacesOK'
    BY DEF PlacesOK, Advance
<1> QED
    BY <1>1, <1>2 DEF LockInv, Advance, HasLock, Queue, PlacesOK

LEMMA OutsideKeeps ==
    ASSUME PlacesOK, LockInv, NEW t \in Tasks, t \notin Queue, Advance(t, "off")
    PROVE  PlacesOK' /\ LockInv'
<1>1. Queue' = Queue
    BY DEF PlacesOK, Queue, Advance
<1>2. PlacesOK'
    BY DEF PlacesOK, Advance
<1> QED
    BY <1>1, <1>2 DEF LockInv, Advance, PlacesOK

-----------------------------------------------------------------------------
(* The invariant.                                                          *)

LEMMA InitInv == Init => IInv
<1>1. Init => TypeOK
    BY DEF Init, TypeOK
<1>2. Init => LockInv /\ OffInv
    BY DEF Init, LockInv, OffInv, Queue, Tasks
<1> QED
    BY <1>1, <1>2 DEF IInv

(* A step changes the places of at most one task, in one of the five ways. *)
LEMMA PlacesStep == IInv /\ [Next]_vars => PlacesOK' /\ LockInv'
<1> SUFFICES ASSUME IInv, [Next]_vars PROVE PlacesOK' /\ LockInv'
    OBVIOUS
<1>0. PlacesOK /\ LockInv /\ Drivers \subseteq Tasks /\ Writers \subseteq Tasks
    BY DEF IInv, TypeOK, PlacesOK, Tasks
<1>1. ASSUME NEW t \in Tasks,
             \/ \E label \in {"lock", "read"} : t \notin Queue /\ Enter(t, label)
             \/ \E label \in {"off", "sleep", "stopping"} : Leave(t, label)
             \/ \E label \in {"lock", "read"} : Requeue(t, label)
             \/ \E label \in {"open", "busy"} : HasLock(t) /\ Advance(t, label)
             \/ t \notin Queue /\ Advance(t, "off")
      PROVE  PlacesOK' /\ LockInv'
    BY <1>0, <1>1, EnterKeeps, LeaveKeeps, RequeueKeeps, AdvanceKeeps, OutsideKeeps
<1>2. CASE UNCHANGED <<pc, ahead>>
    BY <1>0, <1>2 DEF PlacesOK, LockInv, Queue
<1>3. ASSUME NEW d \in Drivers, Start(d) PROVE PlacesOK' /\ LockInv'
    BY <1>0, <1>1, <1>3 DEF Start, Queue
<1>4. ASSUME NEW d \in Drivers, Stop(d) \/ Stopped(d) PROVE PlacesOK' /\ LockInv'
    <2>1. CASE Stop(d)
        BY <1>0, <1>1, <2>1 DEF Stop
    <2>2. CASE Stopped(d)
        <3>1. d \in Tasks /\ d \notin Queue
            BY <1>0, <2>2 DEF Stopped, Queue
        <3>2. Advance(d, "off")
            BY <2>2 DEF Stopped, Advance
        <3> QED
            BY <1>1, <3>1, <3>2
    <2> QED
        BY <1>4, <2>1, <2>2
<1>5. ASSUME NEW d \in Drivers, ConnectStep(d) PROVE PlacesOK' /\ LockInv'
    <2>1. CASE Reuse(d)
        BY <1>0, <1>1, <2>1 DEF Reuse, Succeeds
    <2>2. CASE Open(d)
        BY <1>0, <1>1, <2>2 DEF Open, Advance
    <2>3. CASE OpenOk(d)
        BY <1>0, <1>1, <2>3 DEF OpenOk, Succeeds
    <2>4. CASE OpenFail(d)
        BY <1>0, <1>1, <2>4 DEF OpenFail, Fails
    <2> QED
        BY <1>5, <2>1, <2>2, <2>3, <2>4 DEF ConnectStep
<1>6. ASSUME NEW d \in Drivers, Poll(d) PROVE PlacesOK' /\ LockInv'
    BY <1>0, <1>1, <1>6 DEF Poll, Queue
<1>7. ASSUME NEW d \in Drivers, ReadStep(d) PROVE PlacesOK' /\ LockInv'
    <2>1. CASE ReadBlock(d)
        BY <1>0, <1>1, <2>1 DEF ReadBlock, Advance
    <2>2. CASE BlockRead(d)
        BY <1>0, <1>1, <2>2 DEF BlockRead
    <2>3. CASE ReadFail(d)
        BY <1>0, <1>1, <2>3 DEF ReadFail
    <2> QED
        BY <1>7, <2>1, <2>2, <2>3 DEF ReadStep
<1>8. ASSUME NEW w \in Writers, NEW d \in Drivers, Write(w, d) PROVE PlacesOK' /\ LockInv'
    BY <1>0, <1>1, <1>8 DEF Write, Queue
<1>9. ASSUME NEW w \in Writers, WriteStep(w) PROVE PlacesOK' /\ LockInv'
    BY <1>0, <1>1, <1>9 DEF WriteStep, WriteBegin, WriteReturns, WriteEnds, Advance
<1>10. CASE GatewayDown \/ GatewayBack
    BY <1>2, <1>10 DEF GatewayDown, GatewayBack
<1>11. ASSUME NEW c \in Clients, Reconnects(c) PROVE PlacesOK' /\ LockInv'
    BY <1>2, <1>11 DEF Reconnects
<1>12. CASE UNCHANGED vars
    BY <1>2, <1>12 DEF vars
<1> QED
    BY <1>3, <1>4, <1>5, <1>6, <1>7, <1>8, <1>9, <1>10, <1>11, <1>12 DEF Next

(* What an action leaves to prove of TypeOK, the places being done.        *)
RestOK ==
    /\ running \in [Drivers -> BOOLEAN]
    /\ starting \in [Drivers -> BOOLEAN]
    /\ connected \in [Drivers -> BOOLEAN]
    /\ errors \in [Drivers -> 0..RetryCount]
    /\ status \in [Drivers -> {"UNKNOWN", "ONLINE", "OFFLINE", "ERROR"}]
    /\ left \in [Drivers -> Nat]
    /\ client \in [Drivers -> Clients \cup {NoClient}]
    /\ target \in [Writers -> Drivers \cup {NoDriver}]
    /\ wire \in [Tasks -> Clients \cup {NoClient}]
    /\ shared \in Clients \cup {NoClient}
    /\ live \in [Clients -> BOOLEAN]
    /\ up \in BOOLEAN
    /\ faults \in Nat /\ outages \in Nat /\ starts \in Nat

LEMMA RestStep == IInv /\ [Next]_vars => RestOK'
<1> SUFFICES ASSUME IInv, [Next]_vars PROVE RestOK'
    OBVIOUS
<1> USE DEF external, driverState
<1>0. RestOK /\ Drivers \subseteq Tasks /\ Writers \subseteq Tasks
    BY DEF IInv, TypeOK, RestOK, Tasks
<1>1. ASSUME NEW d \in Drivers, Start(d) PROVE RestOK'
    BY <1>0, <1>1 DEF RestOK, Start
<1>2. ASSUME NEW d \in Drivers, Stop(d) \/ Stopped(d) PROVE RestOK'
    <2>1. CASE Stop(d)
        BY <1>0, <2>1 DEF RestOK, Stop
    <2>2. CASE Stopped(d)
        BY <1>0, <2>2 DEF RestOK, Stopped
    <2> QED
        BY <1>2, <2>1, <2>2
<1>3. ASSUME NEW d \in Drivers, ConnectStep(d) PROVE RestOK'
    <2>1. ASSUME Succeeds(d)
          PROVE  /\ connected' \in [Drivers -> BOOLEAN] /\ starting' \in [Drivers -> BOOLEAN]
                 /\ status' \in [Drivers -> {"UNKNOWN", "ONLINE", "OFFLINE", "ERROR"}]
                 /\ left' \in [Drivers -> Nat]
        BY <1>0, <2>1 DEF RestOK, Succeeds
    <2>2. CASE Reuse(d)
        BY <1>0, <2>1, <2>2 DEF RestOK, Reuse
    <2>3. CASE Open(d)
        <3>1. NewClient \in Clients
            BY <2>3 DEF Open, NewClient
        <3> QED
            BY <1>0, <2>3, <3>1 DEF RestOK, Open
    <2>4. CASE OpenOk(d)
        BY <1>0, <2>1, <2>4 DEF RestOK, OpenOk
    <2>5. CASE OpenFail(d)
        BY <1>0, <2>5 DEF RestOK, OpenFail, Fails, Fault
    <2> QED
        BY <1>3, <2>2, <2>3, <2>4, <2>5 DEF ConnectStep
<1>4. ASSUME NEW d \in Drivers, Poll(d) PROVE RestOK'
    BY <1>0, <1>4 DEF RestOK, Poll
<1>5. ASSUME NEW d \in Drivers, ReadStep(d) PROVE RestOK'
    <2>1. CASE ReadBlock(d)
        BY <1>0, <2>1 DEF RestOK, ReadBlock
    <2>2. CASE BlockRead(d)
        BY <1>0, <2>2 DEF RestOK, BlockRead
    <2>3. CASE ReadFail(d)
        <3>1. faults' \in Nat
            BY <1>0, <2>3 DEF RestOK, ReadFail, Fault
        <3>2. /\ errors' \in [Drivers -> 0..RetryCount]
              /\ connected' \in [Drivers -> BOOLEAN]
              /\ status' \in [Drivers -> {"UNKNOWN", "ONLINE", "OFFLINE", "ERROR"}]
            <4>1. errors[d] \in 0..RetryCount
                BY <1>0 DEF RestOK
            <4>2. errors' \in [Drivers -> 0..RetryCount]
                BY <1>0, <2>3, <4>1 DEF RestOK, ReadFail, HandleError
            <4>3. CASE errors'[d] = RetryCount
                BY <1>0, <2>3, <4>2, <4>3 DEF RestOK, ReadFail, HandleError
            <4>4. CASE errors'[d] # RetryCount
                BY <1>0, <2>3, <4>2, <4>4 DEF RestOK, ReadFail, HandleError
            <4> QED
                BY <4>3, <4>4
        <3> QED
            BY <1>0, <2>3, <3>1, <3>2 DEF RestOK, ReadFail
    <2> QED
        BY <1>5, <2>1, <2>2, <2>3 DEF ReadStep
<1>6. ASSUME NEW w \in Writers, NEW d \in Drivers, Write(w, d) PROVE RestOK'
    BY <1>0, <1>6 DEF RestOK, Write
<1>7. ASSUME NEW w \in Writers, WriteStep(w) PROVE RestOK'
    <2>1. CASE WriteBegin(w)
        <3>1. target[w] \in Drivers
            BY <2>1, <1>0 DEF WriteBegin, IInv, OffInv
        <3> QED
            BY <1>0, <2>1, <3>1 DEF RestOK, WriteBegin, WriteEnds
    <2>2. CASE WriteReturns(w)
        BY <1>0, <2>2 DEF RestOK, WriteReturns, WriteEnds
    <2> QED
        BY <1>7, <2>1, <2>2 DEF WriteStep
<1>8. CASE GatewayDown \/ GatewayBack
    <2>1. live' \in [Clients -> BOOLEAN]
        <3>1. PICK broken \in SUBSET Clients :
                  live' = [c \in Clients |-> live[c] /\ c \notin broken /\ ~Unreferenced(c)]
            BY <1>8 DEF GatewayDown, GatewayBack, Breaks
        <3>2. \A c \in Clients : (live[c] /\ c \notin broken /\ ~Unreferenced(c)) \in BOOLEAN
            OBVIOUS
        <3> QED
            BY <3>1, <3>2, Zenon
    <2>2. up' = TRUE \/ up' = FALSE
        BY <1>8 DEF GatewayDown, GatewayBack
    <2>3. outages' \in Nat
        BY <1>0, <1>8 DEF RestOK, GatewayDown, GatewayBack
    <2> QED
        BY <1>0, <1>8, <2>1, <2>2, <2>3 DEF RestOK, GatewayDown, GatewayBack
<1>9. ASSUME NEW c \in Clients, Reconnects(c) PROVE RestOK'
    BY <1>0, <1>9 DEF RestOK, Reconnects
<1>10. CASE UNCHANGED vars
    BY <1>0, <1>10 DEF RestOK, vars
<1> QED
    BY <1>1, <1>2, <1>3, <1>4, <1>5, <1>6, <1>7, <1>8, <1>9, <1>10 DEF Next

LEMMA OffStep == IInv /\ [Next]_vars => OffInv'
<1> SUFFICES ASSUME IInv, [Next]_vars PROVE OffInv'
    OBVIOUS
<1> USE DEF external, driverState, OffInv
<1>0. TypeOK /\ OffInv /\ Drivers \subseteq Tasks /\ Writers \subseteq Tasks
    BY DEF IInv, Tasks
<1>1. ASSUME NEW d \in Drivers, Start(d) PROVE OffInv'
    BY <1>0, <1>1 DEF TypeOK, Start, Enter
<1>2. ASSUME NEW d \in Drivers, Stop(d) \/ Stopped(d) PROVE OffInv'
    <2>1. CASE Stop(d)
        BY <1>0, <2>1 DEF TypeOK, Stop, Leave
    <2>2. CASE Stopped(d)
        BY <1>0, <2>2 DEF TypeOK, Stopped
    <2> QED
        BY <1>2, <2>1, <2>2
<1>3. ASSUME NEW d \in Drivers, ConnectStep(d) PROVE OffInv'
    <2>0. running[d]
        BY <1>0, <1>3 DEF ConnectStep, Reuse, Open, OpenOk, OpenFail
    <2>1. ASSUME Succeeds(d)
          PROVE  /\ \A t \in Tasks : IF t = d THEN pc'[t] \notin {"off", "stopping"} ELSE pc'[t] = pc[t]
                 /\ \A e \in Drivers : e # d =>
                       connected'[e] = connected[e] /\ status'[e] = status[e]
        BY <1>0, <2>1 DEF TypeOK, Succeeds, Leave, Requeue
    <2>2. CASE Reuse(d)
        BY <1>0, <2>0, <2>1, <2>2 DEF TypeOK, Reuse
    <2>3. CASE Open(d)
        BY <1>0, <2>0, <2>3 DEF TypeOK, Open
    <2>4. CASE OpenOk(d)
        BY <1>0, <2>0, <2>1, <2>4 DEF TypeOK, OpenOk
    <2>5. CASE OpenFail(d)
        BY <1>0, <2>0, <2>5 DEF TypeOK, OpenFail, Fails, Leave
    <2> QED
        BY <1>3, <2>2, <2>3, <2>4, <2>5 DEF ConnectStep
<1>4. ASSUME NEW d \in Drivers, Poll(d) PROVE OffInv'
    BY <1>0, <1>4 DEF TypeOK, Poll, Enter
<1>5. ASSUME NEW d \in Drivers, ReadStep(d) PROVE OffInv'
    <2>1. CASE ReadBlock(d)
        BY <1>0, <2>1 DEF TypeOK, ReadBlock
    <2>2. CASE BlockRead(d)
        BY <1>0, <2>2 DEF TypeOK, BlockRead, Leave, Requeue
    <2>3. CASE ReadFail(d)
        BY <1>0, <2>3 DEF TypeOK, ReadFail, HandleError, Leave
    <2> QED
        BY <1>5, <2>1, <2>2, <2>3 DEF ReadStep
<1>6. ASSUME NEW w \in Writers, NEW d \in Drivers, Write(w, d) PROVE OffInv'
    BY <1>0, <1>6 DEF TypeOK, Write, Enter
<1>7. ASSUME NEW w \in Writers, WriteStep(w) PROVE OffInv'
    <2>1. UNCHANGED <<running, client, connected, status>>
        BY <1>7 DEF WriteStep, WriteBegin, WriteReturns
    <2>2. pc[w] # "off"
        BY <1>7 DEF WriteStep, WriteBegin, WriteReturns
    <2>3. \A t \in Tasks : t # w => pc'[t] = pc[t]
        <3>1. CASE WriteEnds(w)
            BY <1>0, <3>1 DEF TypeOK, WriteEnds, Leave
        <3>2. CASE pc' = [pc EXCEPT ![w] = "busy"]
            BY <1>0, <3>2 DEF TypeOK
        <3> QED
            BY <1>7, <3>1, <3>2 DEF WriteStep, WriteBegin, WriteReturns
    <2>4. w \notin Drivers
        BY TasksAssumption
    <2>5. \A d \in Drivers : running'[d] = running[d] /\ pc'[d] = pc[d]
        BY <1>0, <2>1, <2>3, <2>4
    <2>6. \A v \in Writers : target'[v] = target[v] \/ (v = w /\ pc'[v] = "off")
        BY <1>0, <1>7 DEF TypeOK, WriteStep, WriteBegin, WriteReturns, WriteEnds, Leave
    <2>7. \A v \in Writers : pc'[v] # "off" => target'[v] \in Drivers
        BY <1>0, <2>2, <2>3, <2>6
    <2> QED
        BY <1>0, <2>1, <2>5, <2>7
<1>8. CASE GatewayDown \/ GatewayBack
    BY <1>0, <1>8 DEF GatewayDown, GatewayBack
<1>9. ASSUME NEW c \in Clients, Reconnects(c) PROVE OffInv'
    BY <1>0, <1>9 DEF Reconnects
<1>10. CASE UNCHANGED vars
    BY <1>0, <1>10 DEF vars
<1> QED
    BY <1>1, <1>2, <1>3, <1>4, <1>5, <1>6, <1>7, <1>8, <1>9, <1>10 DEF Next

LEMMA Invariance == Spec => []IInv
<1>1. IInv /\ [Next]_vars => IInv'
    <2>1. PlacesOK' /\ RestOK' => TypeOK'
        BY DEF PlacesOK, RestOK, TypeOK
    <2> QED
        BY <2>1, PlacesStep, RestStep, OffStep DEF IInv
<1> QED
    BY InitInv, <1>1, PTL DEF Spec

-----------------------------------------------------------------------------
(* The theorems.                                                           *)

(* Every variable keeps its type, for any sensors, writers and bounds.     *)
THEOREM TypeCorrect == Spec => []TypeOK
BY Invariance, PTL DEF IInv

(* However many sensors and writes share the gateway, and wherever they    *)
(* time out or are stopped, at most one of them has a transaction or a     *)
(* connect under way on it (modbus.py:15).                                 *)
THEOREM BusIsExclusive == Spec => []OneTransaction
<1>1. IInv => OneTransaction
    BY DEF IInv, LockInv, OneTransaction, Queue
<1> QED
    BY Invariance, <1>1, PTL

(* Of those in the queue one waits for nobody: who waits for the fewest.   *)
LEMMA FirstInLine ==
    ASSUME IInv, Queue # {}
    PROVE  \E t \in Queue : ahead[t] = {}
<1> DEFINE Length(t) == Cardinality(ahead[t])
           T == {Length(t) : t \in Queue}
<1>1. Queue \subseteq Tasks
    BY DEF Queue
<1>2. ASSUME NEW t \in Tasks
      PROVE  ahead[t] \subseteq Tasks /\ IsFiniteSet(ahead[t]) /\ Length(t) \in Nat
    <2>1. ahead[t] \subseteq Tasks
        BY DEF IInv, TypeOK
    <2> QED
        BY <2>1, TasksAssumption, FS_Subset, FS_CardinalityType
<1>3. PICK t \in Queue : \A u \in Queue : Length(t) <= Length(u)
    <2>1. T \in SUBSET Nat /\ T # {}
        BY <1>1, <1>2
    <2>2. \E x \in T : \A y \in T : x <= y
        BY <2>1, Least
    <2> QED
        BY <2>2
<1>4. ASSUME NEW u \in ahead[t] PROVE FALSE
    <2>1. t \in Tasks /\ u \in Tasks /\ u \in Queue
        BY <1>1, <1>2 DEF IInv, LockInv
    <2>2. ahead[u] \cup {u} \subseteq ahead[t] /\ u \notin ahead[u]
        BY <1>2, <2>1 DEF IInv, LockInv
    <2>3. Cardinality(ahead[u] \cup {u}) = Length(u) + 1
        BY <1>2, <2>1, <2>2, FS_AddElement
    <2>4. Cardinality(ahead[u] \cup {u}) <= Length(t)
        BY <1>2, <2>1, <2>2, FS_Subset
    <2>5. Length(t) \in Nat /\ Length(u) \in Nat /\ Length(t) <= Length(u)
        BY <1>2, <1>3, <2>1
    <2> HIDE DEF Length
    <2> QED
        BY <2>3, <2>4, <2>5
<1> QED
    BY <1>4

(* However many wait, and whoever is stopped or gives up meanwhile, the    *)
(* lock is with one of them (modbus.py:172).                               *)
THEOREM LockNeverLost == Spec => []LockIsHeld
<1>1. IInv => LockIsHeld
    <2> SUFFICES ASSUME IInv, Queue # {}
                 PROVE  \E t \in Queue : \A u \in Queue : HasLock(u) <=> u = t
        BY DEF LockIsHeld
    <2>1. PICK t \in Queue : ahead[t] = {}
        BY FirstInLine
    <2>2. ASSUME NEW u \in Queue, u # t PROVE ahead[u] # {}
        BY <2>1, <2>2 DEF IInv, LockInv
    <2> QED
        BY <2>1, <2>2 DEF HasLock
<1> QED
    BY Invariance, <1>1, PTL

(* A driver that is told to stop gives its place in the queue of the lock  *)
(* back at once, and its client and status by the end of stop(), whoever   *)
(* uses the bus meanwhile (base.py:169-188).                               *)
THEOREM StopLeavesNothing == Spec => []StoppedIsQuiet
<1>1. IInv => StoppedIsQuiet
    BY DEF IInv, OffInv, LockInv, StoppedIsQuiet, Queue, Tasks
<1> QED
    BY Invariance, <1>1, PTL

(* A write that still waits for the lock when stop() of its driver returns *)
(* is not sent (modbus.py:352).                                            *)
THEOREM StoppedIsNotWritten == Spec => NoWriteForStopped
<1>1. ASSUME IInv, [Next]_vars, NEW w \in Writers, pc[w] = "read", pc'[w] = "busy"
      PROVE  pc[target[w]] # "off"
    <2>1. \A d \in Drivers : d # w
        OBVIOUS
    <2>2. w \in Tasks /\ Drivers \subseteq Tasks /\ pc \in [Tasks -> {"off", "lock", "open", "read", "busy", "sleep", "stopping"}]
        BY <1>1 DEF Tasks, IInv, TypeOK
    <2>3. ASSUME NEW d \in Drivers,
                 Start(d) \/ Stop(d) \/ Stopped(d) \/ ConnectStep(d) \/ Poll(d) \/ ReadStep(d)
          PROVE  pc'[w] = pc[w]
        BY <2>1, <2>2, <2>3 DEF Start, Stop, Stopped, ConnectStep, Reuse, Open, OpenOk, OpenFail, Succeeds,
           Fails, Poll, ReadStep, ReadBlock, BlockRead, ReadFail, Enter, Leave, Requeue
    <2>4. ASSUME NEW v \in Writers, NEW d \in Drivers, Write(v, d) PROVE FALSE
        BY <1>1, <2>2, <2>4 DEF Write, Enter, Tasks
    <2>5. ASSUME NEW v \in Writers, WriteStep(v) PROVE pc[target[w]] # "off"
        <3>1. CASE WriteBegin(v) /\ client[target[v]] # NoClient
            <4>1. v = w
                BY <1>1, <2>2, <3>1 DEF WriteBegin, WriteEnds, Leave, Tasks
            <4>2. target[w] \in Drivers
                BY <1>1 DEF IInv, OffInv
            <4> QED
                BY <1>1, <3>1, <4>1, <4>2 DEF IInv, OffInv
        <3>2. CASE WriteReturns(v) \/ (WriteBegin(v) /\ client[target[v]] = NoClient)
            BY <1>1, <2>2, <3>2 DEF WriteReturns, WriteBegin, WriteEnds, Leave, Tasks
        <3> QED
            BY <2>5, <3>1, <3>2 DEF WriteStep
    <2>6. CASE GatewayDown \/ GatewayBack
        BY <1>1, <2>6 DEF GatewayDown, GatewayBack
    <2>7. ASSUME NEW c \in Clients, Reconnects(c) PROVE FALSE
        BY <1>1, <2>7 DEF Reconnects
    <2>8. CASE UNCHANGED vars
        BY <1>1, <2>8 DEF vars
    <2> QED
        BY <1>1, <2>3, <2>4, <2>5, <2>6, <2>7, <2>8 DEF Next
<1>2. IInv /\ [Next]_vars =>
          [\A w \in Writers : pc[w] = "read" /\ pc'[w] = "busy" => pc[target[w]] # "off"]_vars
    BY <1>1
<1> QED
    BY Invariance, <1>2, PTL DEF Spec, NoWriteForStopped

(* From its first state on, the sensors of the gateway read every register *)
(* of every list, each from its own words (modbus.py:246-255).             *)
THEOREM ReadingsDecoded == Spec => []RegistersDecoded
<1>1. RegistersDecoded
    BY EveryRegisterDecoded DEF RegistersDecoded
<1> QED
    BY <1>1, PTL

(* And no list takes more transactions than its gaps demand                *)
(* (modbus.py:218-229).                                                    *)
THEOREM ReadingsMinimal == Spec => []BlocksMinimal
<1>1. BlocksMinimal
    BY EveryGapNeeded DEF BlocksMinimal
<1> QED
    BY <1>1, PTL
=============================================================================
