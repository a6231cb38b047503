----------------------------- MODULE EasyFsProofs -----------------------------
(***************************************************************************)
(* The operations of easy-fs keep the block trees, the bitmaps and the     *)
(* directory sound, for every size of blocks, inode area and data area,    *)
(* and change the cells of the files they are called for and no others.    *)
(***************************************************************************)
EXTENDS EasyFs, TLAPS, FiniteSetTheorems

CellIndex == 0 .. Cells - 1

(* Every slot of a block tree.                                             *)
Slot ==
    {<<r>> : r \in Pointers}
      \cup {<<Indirect1, c>> : c \in CellIndex}
      \cup {<<Indirect2, a>> : a \in CellIndex}
      \cup {<<Indirect2, a, c>> : a \in CellIndex, c \in CellIndex}

(* The first data block that needs the slot.                               *)
Need(s) ==
    CASE Len(s) = 1 -> IF s[1] < DirectCount THEN s[1]
                       ELSE IF s[1] = Indirect1 THEN DirectCount ELSE INDIRECT1_BOUND
      [] Len(s) = 2 -> IF s[1] = Indirect1 THEN DirectCount + s[2]
                       ELSE INDIRECT1_BOUND + s[2] * Cells
      [] Len(s) = 3 -> INDIRECT1_BOUND + s[2] * Cells + s[3]

(* The slots of blocks of block numbers; the others are of data blocks.    *)
Inner(s) == \/ Len(s) = 1 /\ s[1] >= DirectCount
            \/ Len(s) = 2 /\ s[1] = Indirect2

(* The slots of a file of n data blocks.                                   *)
SlotsFor(n) == {s \in Slot : Need(s) < n}

-------------------------------------------------------------------------------
(* A set of natural numbers that is not empty has a least element.         *)
LEMMA Least ==
  ASSUME NEW T, T \subseteq Nat, T # {}
  PROVE  \E x \in T : \A y \in T : x =< y
<1> DEFINE R == OpToRel(<, Nat)
<1>1. IsWellFoundedOn(R, Nat)
  BY NatLessThanWellFounded
<1>2. \A x, y \in Nat : <<x, y>> \in R <=> x < y
  BY DEF OpToRel
<1> HIDE DEF R
<1>3. PICK x \in T : \A y \in T : ~(<<y, x>> \in R)
  BY <1>1, WFMin
<1>4. ASSUME NEW y \in T PROVE x =< y
  <2>1. x \in Nat /\ y \in Nat /\ ~(y < x)
    BY <1>2, <1>3
  <2>2. QED
    BY <2>1
<1>5. QED
  BY <1>4

(* The constants are numbers.                                              *)
LEMMA Numbers ==
  /\ Cells \in Nat /\ Cells > 0 /\ DirectCount \in Nat
  /\ Indirect1 = DirectCount /\ Indirect2 = DirectCount + 1
  /\ INDIRECT1_BOUND \in Nat /\ INDIRECT1_BOUND = DirectCount + Cells
  /\ Cells * Cells \in Nat /\ INDIRECT2_BOUND \in Nat
  /\ INDIRECT2_BOUND = INDIRECT1_BOUND + Cells * Cells
BY FsAssumption DEF Indirect1, Indirect2, INDIRECT1_BOUND, INDIRECT2_BOUND

(* Division by the number of cells.                                        *)
LEMMA DivCells ==
  ASSUME NEW m \in Nat
  PROVE  /\ m \div Cells \in Nat /\ m % Cells \in CellIndex
         /\ m = (m \div Cells) * Cells + (m % Cells)
         /\ m < Cells * Cells => m \div Cells < Cells
<1>1. Cells \in Nat /\ Cells > 0
  BY Numbers
<1>2. m \div Cells \in Nat /\ m % Cells \in 0 .. Cells - 1
  BY <1>1, Z3
<1>3. m = (m \div Cells) * Cells + (m % Cells)
  BY <1>1, Z3
<1> DEFINE q == m \div Cells
           r == m % Cells
<1>4. q \in Nat /\ r \in Nat /\ r < Cells /\ m = q * Cells + r
  BY <1>1, <1>2, <1>3
<1> HIDE DEF q, r
<1>5. ASSUME m < Cells * Cells PROVE q < Cells
  <2> SUFFICES ASSUME q >= Cells PROVE FALSE
    BY <1>1, <1>4
  <2>1. PICK d \in Nat : q = Cells + d
    <3>1. q - Cells \in Nat /\ q = Cells + (q - Cells)
      BY <1>1, <1>4
    <3>2. QED
      BY <3>1
  <2>2. q * Cells = Cells * Cells + d * Cells /\ d * Cells \in Nat /\ Cells * Cells \in Nat
    BY <1>1, <2>1
  <2>3. QED
    BY <1>1, <1>4, <1>5, <2>2
<1>6. QED
  BY <1>2, <1>3, <1>5 DEF CellIndex, q

(* Quotient and rest are unique.                                           *)
LEMMA DivUnique ==
  ASSUME NEW a \in Nat, NEW c \in CellIndex, NEW b \in Nat, NEW d \in CellIndex,
         a * Cells + c = b * Cells + d
  PROVE  a = b /\ c = d
<1>1. Cells \in Nat /\ Cells > 0 /\ c \in Nat /\ d \in Nat /\ c < Cells /\ d < Cells
  BY Numbers DEF CellIndex
<1>2. ASSUME NEW x \in Nat, NEW y \in Nat, NEW u \in Nat, NEW v \in Nat, u < Cells,
             x * Cells + u = y * Cells + v
      PROVE  ~(x < y)
  <2> SUFFICES ASSUME x < y PROVE FALSE
    OBVIOUS
  <2>1. PICK e \in Nat : y = x + 1 + e
    <3>1. y - x - 1 \in Nat /\ y = x + 1 + (y - x - 1)
      OBVIOUS
    <3>2. QED
      BY <3>1
  <2>2. /\ y * Cells = x * Cells + Cells + e * Cells
        /\ e * Cells \in Nat /\ x * Cells \in Nat
    BY <1>1, <2>1
  <2>3. QED
    BY <1>1, <1>2, <2>2
<1>3. ~(a < b) /\ ~(b < a)
  BY <1>1, <1>2
<1>4. a = b
  BY <1>3
<1>5. a * Cells \in Nat
  BY <1>1
<1>6. QED
  BY <1>1, <1>4, <1>5

-------------------------------------------------------------------------------
(* A list without its last element.                                        *)
LEMMA FrontAppend ==
  ASSUME NEW S, NEW q \in Seq(S), NEW x \in S
  PROVE  Front(Append(q, x)) = q /\ Last(Append(q, x)) = x
<1> DEFINE s == Append(q, x)
<1>1. s \in Seq(S) /\ Len(s) = Len(q) + 1 /\ s[Len(q) + 1] = x
      /\ \A i \in 1 .. Len(q) : s[i] = q[i]
  OBVIOUS
<1> HIDE DEF s
<1>2. Front(s) = SubSeq(s, 1, Len(q)) /\ Last(s) = x
  BY <1>1 DEF Front, Last
<1>3. SubSeq(s, 1, Len(q)) = q
  BY <1>1
<1>4. QED
  BY <1>2, <1>3 DEF s

(* The four shapes of a slot.                                              *)
LEMMA PointerSlot ==
  ASSUME NEW r \in Pointers
  PROVE  /\ <<r>> \in Slot /\ Len(<<r>>) = 1 /\ <<r>>[1] = r
         /\ Need(<<r>>) = IF r < DirectCount THEN r
                          ELSE IF r = Indirect1 THEN DirectCount ELSE INDIRECT1_BOUND
         /\ Inner(<<r>>) <=> r >= DirectCount
BY DEF Slot, Need, Inner

(* A slot below indirect1.                                                 *)
LEMMA Indirect1Slot ==
  ASSUME NEW c \in CellIndex
  PROVE  LET s == <<Indirect1, c>> IN
         /\ s \in Slot /\ Len(s) = 2 /\ s[1] = Indirect1 /\ s[2] = c
         /\ Need(s) = DirectCount + c /\ ~Inner(s)
         /\ Front(s) = <<Indirect1>> /\ Last(s) = c
<1> DEFINE s == <<Indirect1, c>>
<1>1. s \in Slot /\ Len(s) = 2 /\ s[1] = Indirect1 /\ s[2] = c
  BY DEF Slot
<1>2. Need(s) = DirectCount + c /\ ~Inner(s)
  BY <1>1, Numbers DEF Need, Inner
<1>3. Front(s) = <<Indirect1>> /\ Last(s) = c
  <2>1. <<Indirect1>> \in Seq(Int) /\ c \in Int /\ s = Append(<<Indirect1>>, c)
    BY Numbers DEF CellIndex
  <2>2. QED
    BY <2>1, FrontAppend
<1>4. QED
  BY <1>1, <1>2, <1>3

(* A slot of the block indirect2, itself a block of pointers.              *)
LEMMA Indirect2Slot ==
  ASSUME NEW a \in CellIndex
  PROVE  LET s == <<Indirect2, a>> IN
         /\ s \in Slot /\ Len(s) = 2 /\ s[1] = Indirect2 /\ s[2] = a
         /\ Need(s) = INDIRECT1_BOUND + a * Cells /\ Inner(s)
         /\ Front(s) = <<Indirect2>> /\ Last(s) = a
<1> DEFINE s == <<Indirect2, a>>
<1>1. s \in Slot /\ Len(s) = 2 /\ s[1] = Indirect2 /\ s[2] = a
  BY DEF Slot
<1>2. Need(s) = INDIRECT1_BOUND + a * Cells /\ Inner(s)
  BY <1>1, Numbers DEF Need, Inner
<1>3. Front(s) = <<Indirect2>> /\ Last(s) = a
  <2>1. <<Indirect2>> \in Seq(Int) /\ a \in Int /\ s = Append(<<Indirect2>>, a)
    BY Numbers DEF CellIndex
  <2>2. QED
    BY <2>1, FrontAppend
<1>4. QED
  BY <1>1, <1>2, <1>3

(* A slot two levels below indirect2.                                      *)
LEMMA DeepSlot ==
  ASSUME NEW a \in CellIndex, NEW c \in CellIndex
  PROVE  LET s == <<Indirect2, a, c>> IN
         /\ s \in Slot /\ Len(s) = 3 /\ s[1] = Indirect2 /\ s[2] = a /\ s[3] = c
         /\ Need(s) = INDIRECT1_BOUND + a * Cells + c /\ ~Inner(s)
         /\ Front(s) = <<Indirect2, a>> /\ Last(s) = c
<1> DEFINE s == <<Indirect2, a, c>>
<1>1. s \in Slot /\ Len(s) = 3 /\ s[1] = Indirect2 /\ s[2] = a /\ s[3] = c
  BY DEF Slot
<1>2. Need(s) = INDIRECT1_BOUND + a * Cells + c /\ ~Inner(s)
  BY <1>1, Numbers DEF Need, Inner
<1>3. Front(s) = <<Indirect2, a>> /\ Last(s) = c
  <2>1. <<Indirect2, a>> \in Seq(Int) /\ c \in Int /\ s = Append(<<Indirect2, a>>, c)
    BY Numbers DEF CellIndex
  <2>2. QED
    BY <2>1, FrontAppend
<1>4. QED
  BY <1>1, <1>2, <1>3

(* There are no other slots.                                               *)
LEMMA SlotShapes ==
  ASSUME NEW s \in Slot
  PROVE  \/ \E r \in Pointers : s = <<r>>
         \/ \E c \in CellIndex : s = <<Indirect1, c>>
         \/ \E a \in CellIndex : s = <<Indirect2, a>>
         \/ \E a, c \in CellIndex : s = <<Indirect2, a, c>>
BY DEF Slot

(* A slot that is no pointer of the inode lies in the block of another     *)
(* one, which is needed no later.                                          *)
LEMMA FrontFacts ==
  ASSUME NEW s \in Slot
  PROVE  /\ Len(s) \in {1, 2, 3}
         /\ Need(s) \in Nat
         /\ Len(s) = 1 => s[1] \in Pointers /\ s = <<s[1]>>
         /\ Len(s) # 1 => /\ Front(s) \in Slot /\ Inner(Front(s))
                          /\ Len(Front(s)) = Len(s) - 1
                          /\ Last(s) \in CellIndex
                          /\ s = Append(Front(s), Last(s))
                          /\ Need(Front(s)) =< Need(s)
<1>1. CASE \E r \in Pointers : s = <<r>>
  <2>1. PICK r \in Pointers : s = <<r>>
    BY <1>1
  <2>2. Need(s) \in Nat
    BY <2>1, PointerSlot, Numbers DEF Pointers
  <2>3. QED
    BY <2>1, <2>2, PointerSlot
<1>2. CASE \E c \in CellIndex : s = <<Indirect1, c>>
  <2>1. PICK c \in CellIndex : s = <<Indirect1, c>>
    BY <1>2
  <2>2. /\ Len(s) = 2 /\ Need(s) = DirectCount + c
        /\ Front(s) = <<Indirect1>> /\ Last(s) = c
    BY <2>1, Indirect1Slot
  <2>3. Indirect1 \in Pointers /\ Indirect1 >= DirectCount /\ ~(Indirect1 < DirectCount) /\ c \in Nat
    BY Numbers DEF Pointers, CellIndex
  <2>4. /\ <<Indirect1>> \in Slot /\ Inner(<<Indirect1>>) /\ Len(<<Indirect1>>) = 1
        /\ Need(<<Indirect1>>) = DirectCount
    BY <2>3, PointerSlot
  <2>5. s = Append(<<Indirect1>>, c)
    BY <2>1
  <2>6. Need(s) \in Nat /\ DirectCount =< Need(s)
    BY <2>2, <2>3, Numbers
  <2>7. QED
    <3>1. Len(s) # 1 /\ Len(s) \in {1, 2, 3}
      BY <2>2
    <3>2. QED
      BY <2>2, <2>4, <2>5, <2>6, <3>1
<1>3. CASE \E a \in CellIndex : s = <<Indirect2, a>>
  <2>1. PICK a \in CellIndex : s = <<Indirect2, a>>
    BY <1>3
  <2>2. /\ Len(s) = 2 /\ Need(s) = INDIRECT1_BOUND + a * Cells
        /\ Front(s) = <<Indirect2>> /\ Last(s) = a
    BY <2>1, Indirect2Slot
  <2>3. /\ Indirect2 \in Pointers /\ Indirect2 >= DirectCount /\ ~(Indirect2 < DirectCount)
        /\ Indirect2 # Indirect1 /\ a \in Nat /\ a * Cells \in Nat
    BY Numbers DEF Pointers, CellIndex
  <2>4. /\ <<Indirect2>> \in Slot /\ Inner(<<Indirect2>>) /\ Len(<<Indirect2>>) = 1
        /\ Need(<<Indirect2>>) = INDIRECT1_BOUND
    BY <2>3, PointerSlot
  <2>5. s = Append(<<Indirect2>>, a)
    BY <2>1
  <2>6. Need(s) \in Nat /\ INDIRECT1_BOUND =< Need(s)
    BY <2>2, <2>3, Numbers
  <2>7. QED
    <3>1. Len(s) # 1 /\ Len(s) \in {1, 2, 3}
      BY <2>2
    <3>2. QED
      BY <2>2, <2>4, <2>5, <2>6, <3>1
<1>4. CASE \E a, c \in CellIndex : s = <<Indirect2, a, c>>
  <2>1. PICK a \in CellIndex, c \in CellIndex : s = <<Indirect2, a, c>>
    BY <1>4
  <2>2. /\ Len(s) = 3 /\ Need(s) = INDIRECT1_BOUND + a * Cells + c
        /\ Front(s) = <<Indirect2, a>> /\ Last(s) = c
    BY <2>1, DeepSlot
  <2>3. a \in Nat /\ a * Cells \in Nat /\ c \in Nat
    BY Numbers DEF CellIndex
  <2>4. /\ <<Indirect2, a>> \in Slot /\ Inner(<<Indirect2, a>>) /\ Len(<<Indirect2, a>>) = 2
        /\ Need(<<Indirect2, a>>) = INDIRECT1_BOUND + a * Cells
    BY Indirect2Slot
  <2>5. s = Append(<<Indirect2, a>>, c)
    BY <2>1
  <2>6. Need(s) \in Nat /\ INDIRECT1_BOUND + a * Cells =< Need(s)
    BY <2>2, <2>3, Numbers
  <2>7. QED
    <3>1. Len(s) # 1 /\ Len(s) \in {1, 2, 3}
      BY <2>2
    <3>2. QED
      BY <2>2, <2>4, <2>5, <2>6, <3>1
<1>5. QED
  BY <1>1, <1>2, <1>3, <1>4, SlotShapes

(* The slots whose first user is data block k.                             *)
LEMMA NeedLow ==
  ASSUME NEW k \in 0 .. DirectCount - 1, NEW s \in Slot
  PROVE  Need(s) = k <=> s = <<k>>
<1>0. k \in Nat /\ k < DirectCount /\ k \in Pointers
  BY Numbers DEF Pointers
<1>1. CASE \E r \in Pointers : s = <<r>>
  <2>1. PICK r \in Pointers : s = <<r>>
    BY <1>1
  <2>2. Need(s) = IF r < DirectCount THEN r
                  ELSE IF r = Indirect1 THEN DirectCount ELSE INDIRECT1_BOUND
    BY <2>1, PointerSlot
  <2>3. Need(s) = k <=> r = k
    BY <1>0, <2>2, Numbers DEF Pointers
  <2>4. s = <<k>> <=> r = k
    BY <2>1
  <2>5. QED
    BY <2>3, <2>4
<1>2. CASE \E c \in CellIndex : s = <<Indirect1, c>>
  <2>1. PICK c \in CellIndex : s = <<Indirect1, c>>
    BY <1>2
  <2>2. Need(s) = DirectCount + c /\ Len(s) = 2 /\ c \in Nat
    BY <2>1, Indirect1Slot, Numbers DEF CellIndex
  <2>3. QED
    BY <1>0, <2>2, Numbers
<1>3. CASE \E a \in CellIndex : s = <<Indirect2, a>>
  <2>1. PICK a \in CellIndex : s = <<Indirect2, a>>
    BY <1>3
  <2>2. Need(s) = INDIRECT1_BOUND + a * Cells /\ Len(s) = 2 /\ a * Cells \in Nat
    BY <2>1, Indirect2Slot, Numbers DEF CellIndex
  <2>3. QED
    BY <1>0, <2>2, Numbers
<1>4. CASE \E a, c \in CellIndex : s = <<Indirect2, a, c>>
  <2>1. PICK a \in CellIndex, c \in CellIndex : s = <<Indirect2, a, c>>
    BY <1>4
  <2>2. Need(s) = INDIRECT1_BOUND + a * Cells + c /\ Len(s) = 3 /\ a * Cells \in Nat /\ c \in Nat
    BY <2>1, DeepSlot, Numbers DEF CellIndex
  <2>3. QED
    BY <1>0, <2>2, Numbers
<1>5. QED
  BY <1>1, <1>2, <1>3, <1>4, SlotShapes

(* The slots that file block DirectCount + c brings.                       *)
LEMMA NeedMiddle ==
  ASSUME NEW c \in CellIndex, NEW s \in Slot
  PROVE  Need(s) = DirectCount + c <=> s = <<Indirect1, c>> \/ (c = 0 /\ s = <<Indirect1>>)
<1>0. c \in Nat /\ c < Cells
  BY Numbers DEF CellIndex
<1>1. CASE \E r \in Pointers : s = <<r>>
  <2>1. PICK r \in Pointers : s = <<r>>
    BY <1>1
  <2>2. Need(s) = IF r < DirectCount THEN r
                  ELSE IF r = Indirect1 THEN DirectCount ELSE INDIRECT1_BOUND
    BY <2>1, PointerSlot
  <2>3. Need(s) = DirectCount + c <=> r = Indirect1 /\ c = 0
    BY <1>0, <2>2, Numbers DEF Pointers
  <2>4. s # <<Indirect1, c>> /\ (s = <<Indirect1>> <=> r = Indirect1)
    BY <2>1
  <2>5. QED
    BY <2>3, <2>4
<1>2. CASE \E d \in CellIndex : s = <<Indirect1, d>>
  <2>1. PICK d \in CellIndex : s = <<Indirect1, d>>
    BY <1>2
  <2>2. Need(s) = DirectCount + d /\ Len(s) = 2 /\ d \in Nat
    <3>1. d \in Nat
      BY Numbers DEF CellIndex
    <3>2. QED
      BY <2>1, <3>1, Indirect1Slot
  <2>3. (s = <<Indirect1, c>> <=> d = c) /\ s # <<Indirect1>>
    BY <2>1
  <2>4. QED
    BY <1>0, <2>2, <2>3, Numbers
<1>3. CASE \E a \in CellIndex : s = <<Indirect2, a>>
  <2>1. PICK a \in CellIndex : s = <<Indirect2, a>>
    BY <1>3
  <2>2. /\ Need(s) = INDIRECT1_BOUND + a * Cells /\ a * Cells \in Nat
        /\ s[1] = Indirect2 /\ Indirect1 # Indirect2
    BY <2>1, Indirect2Slot, Numbers DEF CellIndex
  <2>3. s # <<Indirect1, c>> /\ s # <<Indirect1>>
    BY <2>2
  <2>4. QED
    BY <1>0, <2>2, <2>3, Numbers
<1>4. CASE \E a, d \in CellIndex : s = <<Indirect2, a, d>>
  <2>1. PICK a \in CellIndex, d \in CellIndex : s = <<Indirect2, a, d>>
    BY <1>4
  <2>2. /\ Need(s) = INDIRECT1_BOUND + a * Cells + d /\ a * Cells \in Nat /\ d \in Nat
        /\ Len(s) = 3
    BY <2>1, DeepSlot, Numbers DEF CellIndex
  <2>3. s # <<Indirect1, c>> /\ s # <<Indirect1>>
    BY <2>2
  <2>4. QED
    BY <1>0, <2>2, <2>3, Numbers
<1>5. QED
  BY <1>1, <1>2, <1>3, <1>4, SlotShapes

(* The slots that a file block below indirect2 brings.                     *)
LEMMA NeedHigh ==
  ASSUME NEW a \in CellIndex, NEW c \in CellIndex, NEW s \in Slot
  PROVE  Need(s) = INDIRECT1_BOUND + a * Cells + c
           <=> \/ s = <<Indirect2, a, c>>
               \/ c = 0 /\ s = <<Indirect2, a>>
               \/ c = 0 /\ a = 0 /\ s = <<Indirect2>>
<1>0. a \in Nat /\ c \in Nat /\ c < Cells /\ a * Cells \in Nat /\ 0 \in CellIndex /\ 0 * Cells = 0
  BY Numbers DEF CellIndex
<1>1. CASE \E r \in Pointers : s = <<r>>
  <2>1. PICK r \in Pointers : s = <<r>>
    BY <1>1
  <2>2. Need(s) = IF r < DirectCount THEN r
                  ELSE IF r = Indirect1 THEN DirectCount ELSE INDIRECT1_BOUND
    BY <2>1, PointerSlot
  <2>3. Need(s) = INDIRECT1_BOUND + a * Cells + c <=> r = Indirect2 /\ a * Cells + c = 0
    BY <1>0, <2>2, Numbers DEF Pointers
  <2>4. a * Cells + c = 0 <=> a = 0 /\ c = 0
    BY <1>0, DivUnique
  <2>5. s # <<Indirect2, a, c>> /\ s # <<Indirect2, a>> /\ (s = <<Indirect2>> <=> r = Indirect2)
    BY <2>1
  <2>6. QED
    BY <2>3, <2>4, <2>5
<1>2. CASE \E d \in CellIndex : s = <<Indirect1, d>>
  <2>1. PICK d \in CellIndex : s = <<Indirect1, d>>
    BY <1>2
  <2>2. /\ Need(s) = DirectCount + d /\ d \in Nat /\ d < Cells
        /\ s[1] = Indirect1 /\ Indirect1 # Indirect2
    <3>1. d \in Nat /\ d < Cells /\ Indirect1 # Indirect2
      BY Numbers DEF CellIndex
    <3>2. QED
      BY <2>1, <3>1, Indirect1Slot
  <2>3. s # <<Indirect2, a, c>> /\ s # <<Indirect2, a>> /\ s # <<Indirect2>>
    BY <2>2
  <2>4. QED
    BY <1>0, <2>2, <2>3, Numbers
<1>3. CASE \E b \in CellIndex : s = <<Indirect2, b>>
  <2>1. PICK b \in CellIndex : s = <<Indirect2, b>>
    BY <1>3
  <2>2. Need(s) = INDIRECT1_BOUND + b * Cells /\ b * Cells \in Nat /\ Len(s) = 2 /\ b \in Nat
    BY <2>1, Indirect2Slot, Numbers DEF CellIndex
  <2>3. s # <<Indirect2, a, c>> /\ (s = <<Indirect2, a>> <=> b = a) /\ s # <<Indirect2>>
    BY <2>1, <2>2
  <2>4. Need(s) = INDIRECT1_BOUND + a * Cells + c <=> b * Cells + 0 = a * Cells + c
    BY <1>0, <2>2, Numbers
  <2>5. b * Cells + 0 = a * Cells + c <=> b = a /\ c = 0
    BY <1>0, <2>2, DivUnique
  <2>6. QED
    BY <2>3, <2>4, <2>5
<1>4. CASE \E b, d \in CellIndex : s = <<Indirect2, b, d>>
  <2>1. PICK b \in CellIndex, d \in CellIndex : s = <<Indirect2, b, d>>
    BY <1>4
  <2>2. /\ Need(s) = INDIRECT1_BOUND + b * Cells + d /\ b * Cells \in Nat /\ d \in Nat
        /\ Len(s) = 3 /\ b \in Nat
    BY <2>1, DeepSlot, Numbers DEF CellIndex
  <2>3. /\ s = <<Indirect2, a, c>> <=> b = a /\ d = c
        /\ s # <<Indirect2, a>> /\ s # <<Indirect2>>
    BY <2>1, <2>2
  <2>4. Need(s) = INDIRECT1_BOUND + a * Cells + c <=> b * Cells + d = a * Cells + c
    BY <1>0, <2>2, Numbers
  <2>5. b * Cells + d = a * Cells + c <=> b = a /\ d = c
    BY <1>0, <2>2, DivUnique
  <2>6. QED
    BY <2>3, <2>4, <2>5
<1>5. QED
  BY <1>1, <1>2, <1>3, <1>4, SlotShapes

(* Quotient and rest of a number of that form.                             *)
LEMMA QuotOf ==
  ASSUME NEW a \in Nat, NEW c \in CellIndex
  PROVE  /\ a * Cells + c \in Nat
         /\ (a * Cells + c) \div Cells = a /\ (a * Cells + c) % Cells = c
<1> DEFINE m == a * Cells + c
<1>1. c \in Nat /\ Cells \in Nat /\ Cells > 0
  BY Numbers DEF CellIndex
<1>2. a * Cells \in Nat
  BY <1>1
<1>3. m \in Nat
  BY <1>1, <1>2
<1>4. m = (m \div Cells) * Cells + (m % Cells) /\ m \div Cells \in Nat /\ m % Cells \in CellIndex
  BY <1>3, DivCells
<1>5. m \div Cells = a /\ m % Cells = c
  <2> DEFINE q == m \div Cells
             r == m % Cells
  <2>1. /\ a * Cells + c = q * Cells + r
        /\ q \in Nat /\ r \in CellIndex /\ a \in Nat /\ c \in CellIndex
    BY <1>4
  <2> HIDE DEF q, r
  <2>2. a = q /\ c = r
    BY ONLY <2>1, DivUnique
  <2>3. QED
    BY <2>2 DEF q, r
<1>6. QED
  BY <1>3, <1>5

(* Quotient and remainder name the place below indirect2.                  *)
LEMMA DivOf ==
  ASSUME NEW a \in CellIndex, NEW c \in CellIndex
  PROVE  /\ a * Cells + c \in Nat /\ a * Cells + c < Cells * Cells
         /\ (a * Cells + c) \div Cells = a /\ (a * Cells + c) % Cells = c
<1>1. a \in Nat /\ c \in Nat /\ c < Cells /\ a < Cells /\ Cells \in Nat /\ Cells > 0
  BY Numbers DEF CellIndex
<1>2. PICK e \in Nat : Cells = a + 1 + e
  <2>1. Cells - a - 1 \in Nat /\ Cells = a + 1 + (Cells - a - 1)
    BY <1>1
  <2>2. QED
    BY <2>1
<1>3. (a + 1 + e) * Cells = a * Cells + Cells + e * Cells /\ e * Cells \in Nat /\ a * Cells \in Nat
  BY <1>1
<1>4. Cells * Cells = a * Cells + Cells + e * Cells
  BY <1>2, <1>3
<1>5. a * Cells + c < Cells * Cells
  BY <1>1, <1>3, <1>4
<1>6. QED
  BY <1>1, <1>5, QuotOf

(* The slots a data block is the first to need, by cases.                  *)
LEMMA SlotsLow ==
  ASSUME NEW k \in 0 .. DirectCount - 1
  PROVE  SlotsOf(k) = << <<k>> >>
BY Numbers DEF SlotsOf

(* SlotsOf for the blocks below indirect1.                                 *)
LEMMA SlotsMiddle ==
  ASSUME NEW c \in CellIndex
  PROVE  SlotsOf(DirectCount + c) =
           IF c = 0 THEN << <<Indirect1>>, <<Indirect1, 0>> >> ELSE << <<Indirect1, c>> >>
<1> DEFINE k == DirectCount + c
<1>1. /\ ~(k < DirectCount) /\ k < INDIRECT1_BOUND /\ k - DirectCount = c
      /\ k = DirectCount <=> c = 0
  BY Numbers DEF CellIndex
<1>2. SlotsOf(k) = (IF k = DirectCount THEN << <<Indirect1>> >> ELSE <<>>)
                     \o << <<Indirect1, c>> >>
  BY <1>1 DEF SlotsOf
<1>3. CASE c = 0
  BY <1>1, <1>2, <1>3
<1>4. CASE c # 0
  BY <1>1, <1>2, <1>4
<1>5. QED
  BY <1>3, <1>4

(* SlotsOf for the blocks below indirect2.                                 *)
LEMMA SlotsHigh ==
  ASSUME NEW a \in CellIndex, NEW c \in CellIndex
  PROVE  SlotsOf(INDIRECT1_BOUND + a * Cells + c) =
           IF c # 0 THEN << <<Indirect2, a, c>> >>
           ELSE IF a # 0 THEN << <<Indirect2, a>>, <<Indirect2, a, 0>> >>
           ELSE << <<Indirect2>>, <<Indirect2, 0>>, <<Indirect2, 0, 0>> >>
<1> DEFINE last == a * Cells + c
           k == INDIRECT1_BOUND + a * Cells + c
<1>1. last \in Nat /\ last \div Cells = a /\ last % Cells = c
  BY DivOf
<1>2. 0 \in CellIndex /\ a \in Nat /\ a * Cells \in Nat /\ c \in Nat /\ 0 * Cells = 0
  BY Numbers DEF CellIndex
<1>3. last = 0 <=> a = 0 /\ c = 0
  BY <1>1, <1>2, DivUnique
<1>4. k - INDIRECT1_BOUND = last /\ ~(k < DirectCount) /\ ~(k < INDIRECT1_BOUND)
  BY <1>2, Numbers
<1> HIDE DEF k, last
<1>5. SlotsOf(k) = (IF last = 0 THEN << <<Indirect2>> >> ELSE <<>>)
                     \o (IF c = 0 THEN << <<Indirect2, a>> >> ELSE <<>>)
                     \o << <<Indirect2, a, c>> >>
  BY <1>1, <1>4 DEF SlotsOf
<1>6. CASE c # 0
  BY <1>3, <1>5, <1>6 DEF k
<1>7. CASE c = 0 /\ a # 0
  BY SMTT(20), <1>3, <1>5, <1>7 DEF k
<1>8. CASE c = 0 /\ a = 0
  BY <1>3, <1>5, <1>8 DEF k
<1>9. QED
  BY <1>6, <1>7, <1>8

(* A data block has one of three kinds.                                    *)
LEMMA BlockKinds ==
  ASSUME NEW k \in 0 .. INDIRECT2_BOUND - 1
  PROVE  \/ k \in 0 .. DirectCount - 1
         \/ \E c \in CellIndex : k = DirectCount + c
         \/ \E a, c \in CellIndex : k = INDIRECT1_BOUND + a * Cells + c
<1>1. CASE k < DirectCount
  BY <1>1, Numbers
<1>2. CASE k >= DirectCount /\ k < INDIRECT1_BOUND
  <2>1. k - DirectCount \in CellIndex /\ k = DirectCount + (k - DirectCount)
    BY <1>2, Numbers DEF CellIndex
  <2>2. QED
    BY <2>1
<1>3. CASE k >= INDIRECT1_BOUND
  <2> DEFINE m == k - INDIRECT1_BOUND
             a == m \div Cells
             c == m % Cells
  <2>1. m \in Nat /\ m < Cells * Cells /\ k = INDIRECT1_BOUND + m
    BY <1>3, Numbers
  <2> HIDE DEF m
  <2>2. /\ a \in Nat /\ c \in CellIndex /\ m = a * Cells + c /\ a < Cells
    BY <2>1, DivCells
  <2> HIDE DEF a, c
  <2>3. a \in CellIndex /\ a * Cells \in Nat /\ c \in Nat
    BY <2>2, Numbers DEF CellIndex
  <2>4. k = INDIRECT1_BOUND + a * Cells + c
    BY <2>1, <2>2, <2>3, Numbers
  <2>5. QED
    BY <2>2, <2>3, <2>4
<1>4. QED
  BY <1>1, <1>2, <1>3, Numbers

(* total_blocks, by the number of data blocks.                             *)
Total(n) ==
    n + (IF n > DirectCount THEN 1 ELSE 0)
      + (IF n > INDIRECT1_BOUND THEN 1 + (n - INDIRECT1_BOUND + Cells - 1) \div Cells ELSE 0)

(* The formula total_blocks counts the slots each data block adds.         *)
LEMMA TotalStep ==
  ASSUME NEW k \in 0 .. INDIRECT2_BOUND - 1
  PROVE  Total(k + 1) = Total(k) + Len(SlotsOf(k))
<1>1. CASE k \in 0 .. DirectCount - 1
  <2>1. Len(SlotsOf(k)) = 1
    BY <1>1, SlotsLow
  <2>2. /\ ~(k > DirectCount) /\ ~(k > INDIRECT1_BOUND)
        /\ ~(k + 1 > DirectCount) /\ ~(k + 1 > INDIRECT1_BOUND)
    BY <1>1, Numbers
  <2>3. Total(k) = k /\ Total(k + 1) = k + 1
    BY <1>1, <2>2 DEF Total
  <2>4. QED
    BY <2>1, <2>3
<1>2. CASE \E c \in CellIndex : k = DirectCount + c
  <2>1. PICK c \in CellIndex : k = DirectCount + c
    BY <1>2
  <2>2. c \in Nat /\ c < Cells /\ k \in Nat
    BY Numbers DEF CellIndex
  <2>3. Len(SlotsOf(k)) = IF c = 0 THEN 2 ELSE 1
    <3>1. SlotsOf(k) = IF c = 0 THEN << <<Indirect1>>, <<Indirect1, 0>> >>
                       ELSE << <<Indirect1, c>> >>
      BY <2>1, SlotsMiddle
    <3>2. QED
      BY ONLY <3>1
  <2>4. /\ (k > DirectCount <=> c # 0) /\ ~(k > INDIRECT1_BOUND)
        /\ k + 1 > DirectCount /\ ~(k + 1 > INDIRECT1_BOUND)
    BY <2>1, <2>2, Numbers
  <2>5. Total(k) = (IF c = 0 THEN k ELSE k + 1) /\ Total(k + 1) = k + 2
    BY <2>2, <2>4 DEF Total
  <2>6. QED
    BY <2>2, <2>3, <2>5
<1>3. CASE \E a, c \in CellIndex : k = INDIRECT1_BOUND + a * Cells + c
  <2>1. PICK a \in CellIndex, c \in CellIndex : k = INDIRECT1_BOUND + a * Cells + c
    BY <1>3
  <2>2. /\ c \in Nat /\ c < Cells /\ k \in Nat /\ a \in Nat /\ a * Cells \in Nat
        /\ Cells \in Nat /\ Cells > 0 /\ INDIRECT1_BOUND \in Nat /\ DirectCount \in Nat
        /\ INDIRECT1_BOUND = DirectCount + Cells
        /\ a + 1 \in Nat /\ (a + 1) * Cells = a * Cells + Cells
    BY Numbers DEF CellIndex
  <2>3. Len(SlotsOf(k)) = IF c # 0 THEN 1 ELSE IF a # 0 THEN 2 ELSE 3
    <3>1. SlotsOf(k) = IF c # 0 THEN << <<Indirect2, a, c>> >>
                       ELSE IF a # 0 THEN << <<Indirect2, a>>, <<Indirect2, a, 0>> >>
                       ELSE << <<Indirect2>>, <<Indirect2, 0>>, <<Indirect2, 0, 0>> >>
      BY <2>1, SlotsHigh
    <3>2. QED
      BY ONLY <3>1
  <2>4. ((k + 1) - INDIRECT1_BOUND + Cells - 1) \div Cells = a + 1
    <3>1. (k + 1) - INDIRECT1_BOUND + Cells - 1 = (a + 1) * Cells + c
      BY <2>1, <2>2
    <3>2. QED
      BY <2>2, <3>1, QuotOf
  <2>5. Total(k + 1) = k + a + 4
    <3> DEFINE n == k + 1
    <3>1. n > DirectCount /\ n > INDIRECT1_BOUND
      BY <2>1, <2>2
    <3>2. (n - INDIRECT1_BOUND + Cells - 1) \div Cells = a + 1
      BY <2>4
    <3> HIDE DEF n
    <3>3. Total(n) = n + 1 + (1 + (a + 1))
      BY <3>1, <3>2 DEF Total
    <3>4. QED
      BY <2>2, <3>3 DEF n
  <2>6. CASE c # 0
    <3>1. k - INDIRECT1_BOUND + Cells - 1 = (a + 1) * Cells + (c - 1) /\ c - 1 \in CellIndex
      BY <2>1, <2>2, <2>6 DEF CellIndex
    <3>2. (k - INDIRECT1_BOUND + Cells - 1) \div Cells = a + 1
      BY <2>2, <3>1, QuotOf
    <3>3. k > DirectCount /\ k > INDIRECT1_BOUND
      BY <2>1, <2>2, <2>6
    <3>4. Total(k) = k + 1 + (1 + (a + 1))
      BY <3>2, <3>3 DEF Total
    <3>5. QED
      BY <2>2, <2>3, <2>5, <2>6, <3>4
  <2>7. CASE c = 0 /\ a # 0
    <3>1. k - INDIRECT1_BOUND + Cells - 1 = a * Cells + (Cells - 1) /\ Cells - 1 \in CellIndex
      BY <2>1, <2>2, <2>7 DEF CellIndex
    <3>2. (k - INDIRECT1_BOUND + Cells - 1) \div Cells = a
      BY <2>2, <3>1, QuotOf
    <3>3. a * Cells # 0
      BY <2>2, <2>7
    <3>4. k > DirectCount /\ k > INDIRECT1_BOUND
      BY <2>1, <2>2, <2>7, <3>3
    <3>5. Total(k) = k + 1 + (1 + a)
      BY <3>2, <3>4 DEF Total
    <3>6. QED
      BY <2>2, <2>3, <2>5, <2>7, <3>5
  <2>8. CASE c = 0 /\ a = 0
    <3>1. k = INDIRECT1_BOUND
      BY <2>1, <2>2, <2>8
    <3>2. k > DirectCount /\ ~(k > INDIRECT1_BOUND)
      BY <2>2, <3>1
    <3>3. Total(k) = k + 1 + 0
      BY <3>2 DEF Total
    <3>4. QED
      BY <2>2, <2>3, <2>5, <2>8, <3>3
  <2>9. QED
    BY <2>6, <2>7, <2>8
<1>4. QED
  BY <1>1, <1>2, <1>3, BlockKinds

(* q lists the slots that data block k is the first to need, outer ones    *)
(* first and the data block's own last.                                    *)
ListsSlots(q, k) ==
    /\ q \in Seq(Slot) /\ Len(q) > 0
    /\ \A s : (\E j \in 1 .. Len(q) : q[j] = s) <=> (s \in Slot /\ Need(s) = k)
    /\ \A i, j \in 1 .. Len(q) : q[i] = q[j] => i = j
    /\ \A j \in 1 .. Len(q) :
          Len(q[j]) # 1 => Need(Front(q[j])) < k \/ \E i \in 1 .. j - 1 : q[i] = Front(q[j])
    /\ \A j \in 1 .. Len(q) : Inner(q[j]) <=> j < Len(q)

(* A file block that brings one slot.                                      *)
LEMMA ListOfOne ==
  ASSUME NEW k, NEW x \in Slot, ~Inner(x), \A s \in Slot : Need(s) = k <=> s = x,
         Len(x) # 1 => Need(Front(x)) < k
  PROVE  ListsSlots(<<x>>, k)
<1> DEFINE q == <<x>>
<1>1. q \in Seq(Slot) /\ Len(q) = 1 /\ q[1] = x
  OBVIOUS
<1> HIDE DEF q
<1>2. \A j \in 1 .. Len(q) : j = 1
  BY <1>1
<1>3. 1 \in 1 .. Len(q)
  BY <1>1
<1>4. \A s : (\E j \in 1 .. Len(q) : q[j] = s) <=> (s \in Slot /\ Need(s) = k)
  BY <1>1, <1>2, <1>3
<1>5. QED
  BY <1>1, <1>2, <1>4 DEF ListsSlots, q

(* A file block that brings a block of pointers and its first slot.        *)
LEMMA ListOfTwo ==
  ASSUME NEW k, NEW x \in Slot, NEW y \in Slot, Inner(x), ~Inner(y),
         \A s \in Slot : Need(s) = k <=> s = x \/ s = y,
         Len(x) # 1 => Need(Front(x)) < k, Front(y) = x
  PROVE  ListsSlots(<<x, y>>, k)
<1> DEFINE q == <<x, y>>
<1>1. q \in Seq(Slot) /\ Len(q) = 2 /\ q[1] = x /\ q[2] = y /\ x # y
  OBVIOUS
<1> HIDE DEF q
<1>2. \A j \in 1 .. Len(q) : j = 1 \/ j = 2
  BY <1>1
<1>3. 1 \in 1 .. Len(q) /\ 2 \in 1 .. Len(q) /\ 1 \in 1 .. 2 - 1
  BY <1>1
<1>4. \A s : (\E j \in 1 .. Len(q) : q[j] = s) <=> (s \in Slot /\ Need(s) = k)
  BY <1>1, <1>2, <1>3
<1>5. \A i, j \in 1 .. Len(q) : q[i] = q[j] => i = j
  BY <1>1, <1>2
<1>6. \A j \in 1 .. Len(q) :
        Len(q[j]) # 1 => Need(Front(q[j])) < k \/ \E i \in 1 .. j - 1 : q[i] = Front(q[j])
  BY <1>1, <1>2, <1>3
<1>7. QED
  BY <1>1, <1>2, <1>4, <1>5, <1>6 DEF ListsSlots, q

(* The first file block below indirect2 brings three slots.                *)
LEMMA ListOfThree ==
  ASSUME NEW k, NEW x \in Slot, NEW y \in Slot, NEW z \in Slot,
         Inner(x), Inner(y), ~Inner(z), x # y,
         \A s \in Slot : Need(s) = k <=> s = x \/ s = y \/ s = z,
         Len(x) = 1, Front(y) = x, Front(z) = y
  PROVE  ListsSlots(<<x, y, z>>, k)
<1> DEFINE q == <<x, y, z>>
<1>1. q \in Seq(Slot) /\ Len(q) = 3 /\ q[1] = x /\ q[2] = y /\ q[3] = z /\ x # z /\ y # z
  OBVIOUS
<1> HIDE DEF q
<1>2. \A j \in 1 .. Len(q) : j = 1 \/ j = 2 \/ j = 3
  BY <1>1
<1>3. /\ 1 \in 1 .. Len(q) /\ 2 \in 1 .. Len(q) /\ 3 \in 1 .. Len(q)
      /\ 1 \in 1 .. 2 - 1 /\ 2 \in 1 .. 3 - 1
  BY <1>1
<1>4. \A s : (\E j \in 1 .. Len(q) : q[j] = s) <=> (s \in Slot /\ Need(s) = k)
  BY <1>1, <1>2, <1>3
<1>5. \A i, j \in 1 .. Len(q) : q[i] = q[j] => i = j
  BY <1>1, <1>2
<1>6. \A j \in 1 .. Len(q) :
        Len(q[j]) # 1 => Need(Front(q[j])) < k \/ \E i \in 1 .. j - 1 : q[i] = Front(q[j])
  BY <1>1, <1>2, <1>3
<1>7. QED
  BY <1>1, <1>2, <1>4, <1>5, <1>6 DEF ListsSlots, q

(* SlotsOf lists the slots that file block k brings.                       *)
LEMMA SlotsOfLists ==
  ASSUME NEW k \in 0 .. INDIRECT2_BOUND - 1
  PROVE  ListsSlots(SlotsOf(k), k)
<1>0. /\ 0 \in CellIndex /\ Indirect1 \in Pointers /\ Indirect2 \in Pointers
      /\ ~(Indirect1 < DirectCount) /\ ~(Indirect2 < DirectCount) /\ Indirect1 # Indirect2
      /\ Indirect1 >= DirectCount /\ Indirect2 >= DirectCount
  BY Numbers DEF CellIndex, Pointers
<1>1. /\ <<Indirect1>> \in Slot /\ Inner(<<Indirect1>>) /\ Len(<<Indirect1>>) = 1
      /\ Need(<<Indirect1>>) = DirectCount
  BY <1>0, PointerSlot
<1>2. /\ <<Indirect2>> \in Slot /\ Inner(<<Indirect2>>) /\ Len(<<Indirect2>>) = 1
      /\ Need(<<Indirect2>>) = INDIRECT1_BOUND
  BY <1>0, PointerSlot
<1>3. CASE k \in 0 .. DirectCount - 1
  <2>1. k \in Pointers /\ ~(k >= DirectCount)
    BY <1>3, Numbers DEF Pointers
  <2>2. <<k>> \in Slot /\ ~Inner(<<k>>) /\ Len(<<k>>) = 1
    BY <2>1, PointerSlot
  <2>3. \A s \in Slot : Need(s) = k <=> s = <<k>>
    BY <1>3, NeedLow
  <2>4. QED
    BY <1>3, <2>2, <2>3, ListOfOne, SlotsLow
<1>4. CASE \E c \in CellIndex : k = DirectCount + c
  <2>1. PICK c \in CellIndex : k = DirectCount + c
    BY <1>4
  <2> DEFINE x == <<Indirect1>>
             y == <<Indirect1, c>>
  <2>2. y \in Slot /\ ~Inner(y) /\ Front(y) = x
    BY Indirect1Slot
  <2>3. \A s \in Slot : Need(s) = k <=> s = y \/ (c = 0 /\ s = x)
    BY <2>1, NeedMiddle
  <2>4. SlotsOf(k) = IF c = 0 THEN <<x, y>> ELSE <<y>>
    BY <2>1, SlotsMiddle
  <2>5. x \in Slot /\ Inner(x) /\ Len(x) = 1 /\ Need(x) = DirectCount
    BY <1>1
  <2> HIDE DEF x, y
  <2>6. CASE c = 0
    BY <2>2, <2>3, <2>4, <2>5, <2>6, ListOfTwo
  <2>7. CASE c # 0
    <3>1. Need(Front(y)) < k
      BY <2>1, <2>2, <2>5, <2>7, Numbers DEF CellIndex
    <3>2. QED
      BY <2>2, <2>3, <2>4, <2>7, <3>1, ListOfOne
  <2>8. QED
    BY <2>6, <2>7
<1>5. CASE \E a, c \in CellIndex : k = INDIRECT1_BOUND + a * Cells + c
  <2>1. PICK a \in CellIndex, c \in CellIndex : k = INDIRECT1_BOUND + a * Cells + c
    BY <1>5
  <2> DEFINE x == <<Indirect2>>
             y == <<Indirect2, a>>
             z == <<Indirect2, a, c>>
  <2>2. y \in Slot /\ Inner(y) /\ Front(y) = x /\ Len(y) = 2 /\ Need(y) = INDIRECT1_BOUND + a * Cells
    BY Indirect2Slot
  <2>3. z \in Slot /\ ~Inner(z) /\ Front(z) = y
    BY DeepSlot
  <2>4. \A s \in Slot : Need(s) = k <=> s = z \/ (c = 0 /\ s = y) \/ (c = 0 /\ a = 0 /\ s = x)
    BY <2>1, NeedHigh
  <2>5. SlotsOf(k) = IF c # 0 THEN <<z>> ELSE IF a # 0 THEN <<y, z>> ELSE <<x, y, z>>
    BY <2>1, SlotsHigh
  <2>6. x \in Slot /\ Inner(x) /\ Len(x) = 1 /\ Need(x) = INDIRECT1_BOUND
    BY <1>2
  <2> HIDE DEF x, y, z
  <2>7. a \in Nat /\ c \in Nat /\ a * Cells \in Nat /\ (a # 0 => a * Cells > 0)
    BY Numbers DEF CellIndex
  <2>8. CASE c # 0
    <3>1. Need(Front(z)) < k
      BY <2>1, <2>2, <2>3, <2>7, <2>8, Numbers
    <3>2. QED
      BY <2>3, <2>4, <2>5, <2>8, <3>1, ListOfOne
  <2>9. CASE c = 0 /\ a # 0
    <3>1. Need(Front(y)) < k
      BY <2>1, <2>2, <2>6, <2>7, <2>9, Numbers
    <3>2. QED
      BY <2>2, <2>3, <2>4, <2>5, <2>9, <3>1, ListOfTwo
  <2>10. CASE c = 0 /\ a = 0
    <3>1. x # y
      BY <2>2, <2>6
    <3>2. QED
      BY <2>2, <2>3, <2>4, <2>5, <2>6, <2>10, <3>1, ListOfThree
  <2>11. QED
    BY <2>8, <2>9, <2>10
<1>6. QED
  BY <1>3, <1>4, <1>5, BlockKinds

(* The recursion of SlotList has a solution.                               *)
LEMMA SlotListDef ==
  /\ SlotList[0] = <<>>
  /\ \A n \in 1 .. INDIRECT2_BOUND : SlotList[n] = SlotList[n - 1] \o SlotsOf(n - 1)
<1> DEFINE B == INDIRECT2_BOUND
           Sol(f, n) == /\ DOMAIN f = 0 .. n /\ f[0] = <<>>
                        /\ \A k \in 1 .. n : f[k] = f[k - 1] \o SlotsOf(k - 1)
           T == {n \in 0 .. B : ~\E f : Sol(f, n)}
<1>0. B \in Nat
  BY Numbers
<1> HIDE DEF B, Sol
<1>1. T = {}
  <2> SUFFICES ASSUME T # {} PROVE FALSE
    OBVIOUS
  <2>1. T \subseteq Nat
    BY <1>0
  <2>2. PICK n \in T : \A y \in T : n =< y
    BY <2>1, Least
  <2>3. CASE n = 0
    <3>1. Sol([k \in 0 .. 0 |-> <<>>], 0)
      BY DEF Sol
    <3>2. QED
      BY <2>2, <2>3, <3>1
  <2>4. CASE n # 0
    <3>1. n \in Nat /\ n - 1 \in 0 .. B /\ ~(n =< n - 1)
      BY <1>0, <2>4
    <3>2. n - 1 \notin T
      BY <2>2, <3>1
    <3>3. PICK f : Sol(f, n - 1)
      BY <3>1, <3>2
    <3> DEFINE g == [k \in 0 .. n |-> IF k = n THEN f[n - 1] \o SlotsOf(n - 1) ELSE f[k]]
    <3>4. DOMAIN g = 0 .. n
      OBVIOUS
    <3>5. g[0] = <<>>
      BY <2>4, <3>1, <3>3 DEF Sol
    <3>6. ASSUME NEW k \in 1 .. n PROVE g[k] = g[k - 1] \o SlotsOf(k - 1)
      <4>1. k \in 0 .. n /\ k - 1 \in 0 .. n /\ k - 1 # n
        BY <3>1
      <4>2. g[k - 1] = f[k - 1]
        BY <4>1
      <4>3. CASE k = n
        BY <4>1, <4>2, <4>3
      <4>4. CASE k # n
        <5>1. k \in 1 .. n - 1
          BY <3>1, <4>4
        <5>2. g[k] = f[k]
          BY <4>1, <4>4
        <5>3. QED
          BY <3>3, <4>2, <5>1, <5>2 DEF Sol
      <4>5. QED
        BY <4>3, <4>4
    <3>7. Sol(g, n)
      BY <3>4, <3>5, <3>6 DEF Sol
    <3>8. QED
      BY <2>2, <3>7
  <2>5. QED
    BY <2>3, <2>4
<1>2. PICK f : Sol(f, B)
  BY <1>0, <1>1
<1> DEFINE h == [n \in 0 .. B |-> f[n]]
<1>3. h = [n \in 0 .. B |-> IF n = 0 THEN <<>> ELSE h[n - 1] \o SlotsOf(n - 1)]
  <2>1. ASSUME NEW n \in 0 .. B
        PROVE  f[n] = IF n = 0 THEN <<>> ELSE h[n - 1] \o SlotsOf(n - 1)
    <3>1. CASE n = 0
      BY <1>2, <3>1 DEF Sol
    <3>2. CASE n # 0
      <4>1. n \in 1 .. B /\ n - 1 \in 0 .. B
        BY <1>0, <3>2
      <4>2. QED
        BY <1>2, <3>2, <4>1 DEF Sol
    <3>3. QED
      BY <3>1, <3>2
  <2>2. QED
    BY <2>1
<1>4. SlotList = [n \in 0 .. B |-> IF n = 0 THEN <<>> ELSE SlotList[n - 1] \o SlotsOf(n - 1)]
  <2>1. \E s : s = [n \in 0 .. B |-> IF n = 0 THEN <<>> ELSE s[n - 1] \o SlotsOf(n - 1)]
    BY <1>3
  <2>2. QED
    BY <2>1 DEF SlotList, B
<1>5. 0 \in 0 .. B /\ \A n \in 1 .. B : n \in 0 .. B /\ n # 0
  BY <1>0
<1> HIDE DEF h
<1>6. QED
  BY <1>4, <1>5 DEF B

(* q lists the slots of n data blocks, each after the one it lies in, and  *)
(* there are as many as total_blocks says.                                 *)
ListsTree(q, n) ==
    /\ q \in Seq(Slot) /\ Len(q) = Total(n)
    /\ \A s : (\E j \in 1 .. Len(q) : q[j] = s) <=> s \in SlotsFor(n)
    /\ \A i, j \in 1 .. Len(q) : q[i] = q[j] => i = j
    /\ \A j \in 1 .. Len(q) : Len(q[j]) # 1 => \E i \in 1 .. j - 1 : q[i] = Front(q[j])

(* The places of a concatenation.                                          *)
LEMMA JoinPlaces ==
  ASSUME NEW S, NEW p \in Seq(S), NEW q \in Seq(S), NEW u, u = p \o q
  PROVE  /\ u \in Seq(S) /\ Len(u) = Len(p) + Len(q)
         /\ \A j \in 1 .. Len(p) : j \in 1 .. Len(u) /\ u[j] = p[j]
         /\ \A j \in 1 .. Len(q) : Len(p) + j \in 1 .. Len(u) /\ u[Len(p) + j] = q[j]
         /\ \A j \in 1 .. Len(u) : ~(j \in 1 .. Len(p)) =>
                j - Len(p) \in 1 .. Len(q) /\ u[j] = q[j - Len(p)] /\ j = Len(p) + (j - Len(p))
<1>1. u \in Seq(S) /\ Len(u) = Len(p) + Len(q) /\ Len(p) \in Nat /\ Len(q) \in Nat
  OBVIOUS
<1>2. \A j \in 1 .. Len(u) : u[j] = IF j =< Len(p) THEN p[j] ELSE q[j - Len(p)]
  OBVIOUS
<1>3. \A j \in 1 .. Len(p) : j \in 1 .. Len(u) /\ u[j] = p[j]
  BY <1>1, <1>2
<1>4. ASSUME NEW j \in 1 .. Len(q) PROVE Len(p) + j \in 1 .. Len(u) /\ u[Len(p) + j] = q[j]
  <2>1. Len(p) + j \in 1 .. Len(u) /\ ~(Len(p) + j =< Len(p)) /\ (Len(p) + j) - Len(p) = j
    BY <1>1
  <2>2. QED
    BY <1>2, <2>1
<1>5. ASSUME NEW j \in 1 .. Len(u), ~(j \in 1 .. Len(p))
      PROVE  j - Len(p) \in 1 .. Len(q) /\ u[j] = q[j - Len(p)] /\ j = Len(p) + (j - Len(p))
  BY <1>1, <1>2, <1>5
<1>6. QED
  BY <1>1, <1>3, <1>4, <1>5

(* One more file block: the list of the slots grows by SlotsOf.            *)
LEMMA TreeGrows ==
  ASSUME NEW k \in 0 .. INDIRECT2_BOUND - 1, NEW p, ListsTree(p, k)
  PROVE  ListsTree(p \o SlotsOf(k), k + 1)
<1> DEFINE q == SlotsOf(k)
           u == p \o q
           P == 1 .. Len(p)
           Q == 1 .. Len(q)
           U == 1 .. Len(u)
<1>1. /\ q \in Seq(Slot)
      /\ \A s : (\E j \in Q : q[j] = s) <=> (s \in Slot /\ Need(s) = k)
      /\ \A i, j \in Q : q[i] = q[j] => i = j
      /\ \A j \in Q :
           Len(q[j]) # 1 => Need(Front(q[j])) < k \/ \E i \in 1 .. j - 1 : q[i] = Front(q[j])
  BY SlotsOfLists DEF ListsSlots
<1>2. Total(k + 1) = Total(k) + Len(q)
  BY TotalStep
<1>3. /\ p \in Seq(Slot) /\ Len(p) = Total(k)
      /\ \A s : (\E j \in P : p[j] = s) <=> s \in SlotsFor(k)
      /\ \A i, j \in P : p[i] = p[j] => i = j
      /\ \A j \in P : Len(p[j]) # 1 => \E i \in 1 .. j - 1 : p[i] = Front(p[j])
  BY DEF ListsTree
<1> HIDE DEF q
<1>4. /\ u \in Seq(Slot) /\ Len(u) = Len(p) + Len(q)
      /\ \A j \in P : j \in U /\ u[j] = p[j]
      /\ \A j \in Q : Len(p) + j \in U /\ u[Len(p) + j] = q[j]
      /\ \A j \in U : ~(j \in P) =>
            j - Len(p) \in Q /\ u[j] = q[j - Len(p)] /\ j = Len(p) + (j - Len(p))
  <2>1. p \in Seq(Slot) /\ q \in Seq(Slot) /\ u = p \o q
    BY <1>1, <1>3
  <2> HIDE DEF u
  <2>2. QED
    BY ONLY <2>1, JoinPlaces
<1>5. Len(p) \in Nat /\ Len(q) \in Nat /\ k \in Nat
  BY <1>1, <1>3, Numbers
<1> HIDE DEF u
<1>6. ASSUME NEW s PROVE (\E j \in U : u[j] = s) <=> s \in SlotsFor(k + 1)
  <2>1. s \in SlotsFor(k + 1) <=> s \in SlotsFor(k) \/ (s \in Slot /\ Need(s) = k)
    BY <1>5, FrontFacts DEF SlotsFor
  <2>2. (\E j \in U : u[j] = s) <=> (\E j \in P : p[j] = s) \/ (\E j \in Q : q[j] = s)
    <3> HIDE DEF P, Q, U
    <3>1. QED
      BY <1>4
  <2>3. QED
    BY <1>1, <1>3, <2>1, <2>2
<1>7. ASSUME NEW i \in U, NEW j \in U, u[i] = u[j] PROVE i = j
  <2>1. \A x \in P, y \in Q : p[x] # q[y]
    <3>1. ASSUME NEW x \in P, NEW y \in Q PROVE p[x] # q[y]
      <4>1. p[x] \in SlotsFor(k)
        BY <1>3
      <4>2. Need(q[y]) = k
        BY <1>1
      <4>3. QED
        BY <1>5, <4>1, <4>2 DEF SlotsFor
    <3>2. QED
      BY <3>1
  <2> HIDE DEF P, Q, U
  <2>2. QED
    BY <1>1, <1>3, <1>4, <1>7, <2>1
<1>8. ASSUME NEW j \in U, Len(u[j]) # 1 PROVE \E i \in 1 .. j - 1 : u[i] = Front(u[j])
  <2>1. CASE j \in P
    <3>1. PICK i \in 1 .. j - 1 : p[i] = Front(p[j])
      BY <1>3, <1>4, <1>8, <2>1
    <3>2. i \in P
      BY <1>5, <2>1
    <3>3. QED
      BY <1>4, <2>1, <3>1, <3>2
  <2>2. CASE ~(j \in P)
    <3> DEFINE y == j - Len(p)
    <3>1. y \in Q /\ u[j] = q[y] /\ j = Len(p) + y
      BY <1>4, <2>2
    <3> HIDE DEF y
    <3>2. CASE Need(Front(q[y])) < k
      <4>1. Front(q[y]) \in SlotsFor(k)
        <5>1. q[y] \in Slot
          BY <1>1, <3>1
        <5>2. QED
          BY <1>8, <3>1, <3>2, <5>1, FrontFacts DEF SlotsFor
      <4>2. PICK i \in P : p[i] = Front(q[y])
        BY <1>3, <4>1
      <4>3. i \in 1 .. j - 1
        BY <1>5, <3>1
      <4>4. QED
        BY <1>4, <3>1, <4>2, <4>3
    <3>3. CASE \E i \in 1 .. y - 1 : q[i] = Front(q[y])
      <4>1. PICK i \in 1 .. y - 1 : q[i] = Front(q[y])
        BY <3>3
      <4>2. i \in Q /\ Len(p) + i \in 1 .. j - 1
        BY <1>5, <3>1
      <4>3. u[Len(p) + i] = Front(u[j])
        BY <1>4, <3>1, <4>1, <4>2
      <4>4. QED
        BY <4>2, <4>3
    <3>4. QED
      BY <1>1, <1>8, <3>1, <3>2, <3>3
  <2>3. QED
    BY <2>1, <2>2
<1>9. Len(u) = Total(k + 1)
  BY <1>2, <1>3, <1>4
<1>10. ListsTree(u, k + 1)
  BY <1>4, <1>6, <1>7, <1>8, <1>9 DEF ListsTree
<1>11. QED
  BY <1>10 DEF u, q

(* SlotList lists the tree of every number of file blocks.                 *)
LEMMA SlotListIs == \A n \in 0 .. INDIRECT2_BOUND : ListsTree(SlotList[n], n)
<1> DEFINE B == INDIRECT2_BOUND
           T == {n \in 0 .. B : ~ListsTree(SlotList[n], n)}
<1>0. B \in Nat
  BY Numbers
<1>1. T = {}
  <2> SUFFICES ASSUME T # {} PROVE FALSE
    OBVIOUS
  <2>1. T \subseteq Nat
    BY <1>0
  <2>2. PICK n \in T : \A y \in T : n =< y
    BY <2>1, Least
  <2>3. CASE n = 0
    <3>1. Total(0) = 0 /\ SlotsFor(0) = {}
      BY SMTT(20), Numbers, FrontFacts DEF Total, SlotsFor
    <3>2. ListsTree(<<>>, 0)
      BY <3>1 DEF ListsTree
    <3>3. QED
      BY <2>2, <2>3, <3>2, SlotListDef
  <2>4. CASE n # 0
    <3>1. n \in 1 .. B /\ n - 1 \in 0 .. B - 1 /\ n - 1 \in 0 .. B /\ ~(n =< n - 1) /\ (n - 1) + 1 = n
      BY <1>0, <2>4
    <3>2. ListsTree(SlotList[n - 1], n - 1)
      BY <2>2, <3>1
    <3>3. ListsTree(SlotList[n - 1] \o SlotsOf(n - 1), (n - 1) + 1)
      BY <3>1, <3>2, TreeGrows
    <3>4. QED
      BY <2>2, <3>1, <3>3, SlotListDef
  <2>5. QED
    BY <2>3, <2>4
<1>2. QED
  BY <1>1

(* The list for fewer data blocks is the beginning of the list for more.   *)
LEMMA SlotListPrefix ==
  ASSUME NEW m \in 0 .. INDIRECT2_BOUND
  PROVE  \A n \in m .. INDIRECT2_BOUND :
            /\ Len(SlotList[m]) =< Len(SlotList[n])
            /\ \A j \in 1 .. Len(SlotList[m]) : SlotList[n][j] = SlotList[m][j]
<1> DEFINE B == INDIRECT2_BOUND
           Starts(n) == /\ Len(SlotList[m]) =< Len(SlotList[n])
                        /\ \A j \in 1 .. Len(SlotList[m]) : SlotList[n][j] = SlotList[m][j]
           T == {n \in m .. B : ~Starts(n)}
<1>0. B \in Nat /\ m \in Nat
  BY Numbers
<1>1. \A n \in 0 .. B : SlotList[n] \in Seq(Slot)
  BY SlotListIs DEF ListsTree
<1>2. T = {}
  <2> SUFFICES ASSUME T # {} PROVE FALSE
    OBVIOUS
  <2> HIDE DEF Starts
  <2>1. T \subseteq Nat
    BY <1>0
  <2>2. PICK n \in T : \A y \in T : n =< y
    BY <2>1, Least
  <2>3. n # m
    <3>1. Len(SlotList[m]) \in Nat
      BY <1>1
    <3>2. Starts(m)
      BY <3>1 DEF Starts
    <3>3. QED
      BY <2>2, <3>2
  <2>4. /\ n \in 1 .. B /\ n - 1 \in m .. B /\ n - 1 \in 0 .. B /\ ~(n =< n - 1)
        /\ n - 1 \in 0 .. B - 1
    BY <1>0, <2>3
  <2>5. Starts(n - 1)
    BY <2>2, <2>4
  <2>6. SlotList[n] = SlotList[n - 1] \o SlotsOf(n - 1)
    BY <2>4, SlotListDef
  <2>7. SlotsOf(n - 1) \in Seq(Slot) /\ SlotList[n - 1] \in Seq(Slot) /\ SlotList[m] \in Seq(Slot)
    BY <1>1, <2>4, SlotsOfLists DEF ListsSlots
  <2> DEFINE p == SlotList[n - 1]
             u == SlotList[n]
             w == SlotList[m]
  <2>8. /\ Len(p) \in Nat /\ Len(w) \in Nat /\ Len(SlotsOf(n - 1)) \in Nat
        /\ Len(u) = Len(p) + Len(SlotsOf(n - 1))
        /\ \A j \in 1 .. Len(p) : u[j] = p[j]
    <3> DEFINE q == SlotsOf(n - 1)
    <3>1. p \in Seq(Slot) /\ q \in Seq(Slot) /\ u = p \o q /\ w \in Seq(Slot)
      BY <2>6, <2>7
    <3> HIDE DEF p, q, u, w
    <3>2. Len(u) = Len(p) + Len(q) /\ \A j \in 1 .. Len(p) : u[j] = p[j]
      BY ONLY <3>1, JoinPlaces
    <3>3. Len(p) \in Nat /\ Len(q) \in Nat /\ Len(w) \in Nat
      BY <3>1
    <3>4. QED
      BY <3>2, <3>3 DEF q
  <2>9. Len(w) =< Len(p) /\ \A j \in 1 .. Len(w) : p[j] = w[j]
    BY <2>5 DEF Starts
  <2> HIDE DEF p, u, w
  <2>10. Len(w) =< Len(u) /\ \A j \in 1 .. Len(w) : u[j] = w[j]
    BY <2>8, <2>9
  <2>11. Starts(n)
    BY <2>10 DEF Starts, u, w
  <2>12. QED
    BY <2>2, <2>11
<1>3. QED
  BY <1>2

(* r lists the slots that n data blocks need and m do not, each after the  *)
(* one it lies in.                                                         *)
ListsBetween(r, m, n) ==
    /\ r \in Seq(Slot) /\ Total(m) \in Nat /\ Total(n) \in Nat
    /\ Len(r) = Total(n) - Total(m)
    /\ \A s : (\E j \in 1 .. Len(r) : r[j] = s) <=> s \in SlotsFor(n) \ SlotsFor(m)
    /\ \A i, j \in 1 .. Len(r) : r[i] = r[j] => i = j
    /\ \A j \in 1 .. Len(r) : Len(r[j]) # 1 =>
           Front(r[j]) \in SlotsFor(m) \/ \E i \in 1 .. j - 1 : r[i] = Front(r[j])

(* The slots between two sizes.                                            *)
LEMMA SlotsBetween ==
  ASSUME NEW m \in 0 .. INDIRECT2_BOUND, NEW n \in m .. INDIRECT2_BOUND
  PROVE  ListsBetween(Slots(m, n), m, n)
<1> DEFINE r == Slots(m, n)
<1> DEFINE p == SlotList[m]
           u == SlotList[n]
           L == Len(p)
<1>1. m \in Nat /\ n \in Nat /\ n \in 0 .. INDIRECT2_BOUND
  BY Numbers
<1>2. ListsTree(p, m) /\ ListsTree(u, n)
  BY <1>1, SlotListIs
<1>3. L =< Len(u) /\ \A j \in 1 .. L : u[j] = p[j]
  BY SlotListPrefix
<1>4. r = SubSeq(u, L + 1, Len(u))
  BY DEF Slots
<1> HIDE DEF p, u, r
<1>5. /\ p \in Seq(Slot) /\ L = Total(m) /\ u \in Seq(Slot) /\ Len(u) = Total(n)
      /\ L \in Nat /\ Len(u) \in Nat
  BY <1>2 DEF ListsTree
<1>6. /\ r \in Seq(Slot) /\ Len(r) = Len(u) - L
      /\ \A j \in 1 .. Len(r) : r[j] = u[L + j]
  <2>1. /\ Len(SubSeq(u, L + 1, Len(u))) = Len(u) - L
        /\ \A j \in 1 .. Len(u) - L : SubSeq(u, L + 1, Len(u))[j] = u[L + j]
    BY SMTT(20), <1>3, <1>5
  <2>2. SubSeq(u, L + 1, Len(u)) \in Seq(Slot)
    BY <1>3, <1>5
  <2>3. QED
    BY <1>4, <2>1, <2>2
<1> HIDE DEF L
<1>7. \A j \in 1 .. Len(r) : L + j \in 1 .. Len(u)
  BY <1>3, <1>5, <1>6
<1>8. \A x \in 1 .. Len(u) : x \in 1 .. L \/ (x - L \in 1 .. Len(r) /\ x = L + (x - L))
  BY <1>3, <1>5, <1>6
<1>9. ASSUME NEW s PROVE (\E j \in 1 .. Len(r) : r[j] = s) <=> s \in SlotsFor(n) \ SlotsFor(m)
  <2>1. s \in SlotsFor(n) <=> \E x \in 1 .. Len(u) : u[x] = s
    BY <1>2 DEF ListsTree
  <2>2. s \in SlotsFor(m) <=> \E x \in 1 .. L : p[x] = s
    BY <1>2 DEF ListsTree, L
  <2>3. ASSUME NEW j \in 1 .. Len(r), r[j] = s PROVE s \in SlotsFor(n) \ SlotsFor(m)
    <3>1. L + j \in 1 .. Len(u) /\ u[L + j] = s
      BY <1>6, <1>7, <2>3
    <3>2. ASSUME NEW x \in 1 .. L, p[x] = s PROVE FALSE
      <4>1. x \in 1 .. Len(u) /\ u[x] = s /\ x # L + j
        BY SMTT(20), <1>3, <1>5, <3>2
      <4>2. QED
        BY <1>2, <3>1, <4>1 DEF ListsTree
    <3>3. QED
      BY <2>1, <2>2, <3>1, <3>2
  <2>4. ASSUME s \in SlotsFor(n) \ SlotsFor(m) PROVE \E j \in 1 .. Len(r) : r[j] = s
    <3>1. PICK x \in 1 .. Len(u) : u[x] = s
      BY <2>1, <2>4
    <3>2. ~(x \in 1 .. L)
      BY <1>3, <2>2, <2>4, <3>1
    <3>3. x - L \in 1 .. Len(r) /\ x = L + (x - L)
      BY <1>8, <3>2
    <3>4. r[x - L] = s
      BY <1>6, <3>1, <3>3
    <3>5. QED
      BY <3>3, <3>4
  <2>5. QED
    BY <2>3, <2>4
<1>10. ASSUME NEW i \in 1 .. Len(r), NEW j \in 1 .. Len(r), r[i] = r[j] PROVE i = j
  <2>1. L + i \in 1 .. Len(u) /\ L + j \in 1 .. Len(u) /\ u[L + i] = u[L + j]
    BY <1>6, <1>7, <1>10
  <2>2. L + i = L + j
    BY <1>2, <2>1 DEF ListsTree
  <2>3. QED
    BY <1>5, <2>2
<1>11. ASSUME NEW j \in 1 .. Len(r), Len(r[j]) # 1
       PROVE  Front(r[j]) \in SlotsFor(m) \/ \E i \in 1 .. j - 1 : r[i] = Front(r[j])
  <2>1. L + j \in 1 .. Len(u) /\ r[j] = u[L + j]
    BY <1>6, <1>7
  <2>2. PICK x \in 1 .. (L + j) - 1 : u[x] = Front(r[j])
    BY <1>2, <1>11, <2>1 DEF ListsTree
  <2>3. CASE x \in 1 .. L
    <3>1. p[x] = Front(r[j])
      BY <1>3, <2>2, <2>3
    <3>2. Front(r[j]) \in SlotsFor(m)
      BY <1>2, <2>3, <3>1 DEF ListsTree, L
    <3>3. QED
      BY <3>2
  <2>4. CASE ~(x \in 1 .. L)
    <3>1. x - L \in 1 .. j - 1 /\ x - L \in 1 .. Len(r) /\ L + (x - L) = x
      BY <1>5, <1>6, <2>4
    <3>2. r[x - L] = Front(r[j])
      BY <1>6, <2>2, <3>1
    <3>3. QED
      BY <3>1, <3>2
  <2>5. QED
    BY <2>3, <2>4
<1>12. QED
  BY <1>5, <1>6, <1>9, <1>10, <1>11 DEF ListsBetween, r

-------------------------------------------------------------------------------
(* The states of the file system.                                          *)
InodeType == [size : Nat, ptr : [Pointers -> Values], dir : BOOLEAN]
Fs == [ibits : SUBSET Inodes, dbits : SUBSET DataArea,
       inode : [Inodes -> InodeType], block : [DataArea -> [CellIndex -> Values]]]

(* A set of slots that has, with a slot, the one it lies in.               *)
Whole(W) == W \subseteq Slot /\ \A s \in W : Len(s) # 1 => Front(s) \in W

(* The tree of n file blocks is whole.                                     *)
LEMMA SlotsForWhole == ASSUME NEW n \in Nat PROVE Whole(SlotsFor(n))
<1> SUFFICES ASSUME NEW s \in SlotsFor(n), Len(s) # 1 PROVE Front(s) \in SlotsFor(n)
  BY DEF Whole, SlotsFor
<1>1. s \in Slot /\ Need(s) < n
  BY DEF SlotsFor
<1>2. Front(s) \in Slot /\ Need(Front(s)) =< Need(s) /\ Need(s) \in Nat /\ Need(Front(s)) \in Nat
  BY <1>1, FrontFacts
<1>3. QED
  BY <1>1, <1>2 DEF SlotsFor

(* The number in a slot is found in the block whose number is in the slot  *)
(* it lies in.                                                             *)
LEMMA AtStep ==
  ASSUME NEW fs, NEW i, NEW s \in Slot
  PROVE  /\ Len(s) = 1 => At(fs, i, s) = fs.inode[i].ptr[s[1]]
         /\ Len(s) # 1 => At(fs, i, s) = fs.block[At(fs, i, Front(s))][Last(s)]
<1>1. CASE \E r \in Pointers : s = <<r>>
  <2>1. Len(s) = 1
    BY <1>1
  <2>2. QED
    BY <2>1 DEF At
<1>2. CASE Len(s) = 2
  <2>1. Len(Front(s)) = 1 /\ s = Append(Front(s), Last(s)) /\ Front(s) \in Slot
    <3>1. Len(s) # 1
      BY <1>2
    <3>2. Len(Front(s)) = Len(s) - 1 /\ s = Append(Front(s), Last(s)) /\ Front(s) \in Slot
      BY <3>1, FrontFacts
    <3>3. QED
      BY <1>2, <3>2
  <2>2. PICK r : Front(s) = <<r>>
    BY <2>1, FrontFacts
  <2>3. s[1] = r /\ s[2] = Last(s) /\ Front(s)[1] = r
    BY <1>2, <2>1, <2>2
  <2>4. At(fs, i, Front(s)) = fs.inode[i].ptr[r]
    BY <2>1, <2>3 DEF At
  <2>5. At(fs, i, s) = fs.block[fs.inode[i].ptr[r]][Last(s)]
    BY <1>2, <2>3 DEF At
  <2>6. QED
    BY <1>2, <2>4, <2>5
<1>3. CASE \E a, c \in CellIndex : s = <<Indirect2, a, c>>
  <2>1. PICK a \in CellIndex, c \in CellIndex : s = <<Indirect2, a, c>>
    BY <1>3
  <2>2. /\ Len(s) = 3 /\ Front(s) = <<Indirect2, a>> /\ Last(s) = c
        /\ s[1] = Indirect2 /\ s[2] = a /\ s[3] = c
    BY <2>1, DeepSlot
  <2>3. At(fs, i, <<Indirect2, a>>) = fs.block[fs.inode[i].ptr[Indirect2]][a]
    BY DEF At
  <2>4. At(fs, i, s) = fs.block[fs.block[fs.inode[i].ptr[Indirect2]][a]][c]
    BY <2>2 DEF At
  <2>5. At(fs, i, Front(s)) = fs.block[fs.inode[i].ptr[Indirect2]][a]
    BY ONLY <2>2, <2>3
  <2>6. At(fs, i, s) = fs.block[At(fs, i, Front(s))][Last(s)]
    BY ONLY <2>2, <2>4, <2>5
  <2>7. Len(s) # 1
    BY ONLY <2>2
  <2>8. QED
    BY ONLY <2>6, <2>7
<1>4. QED
  BY <1>1, <1>2, <1>3, SlotShapes, Indirect1Slot, Indirect2Slot

(* What fs has at the place of the slot, g has there too.                  *)
StoredAlike(fs, g, i, s) ==
    /\ Len(s) = 1 => g.inode[i].ptr[s[1]] = fs.inode[i].ptr[s[1]]
    /\ Len(s) # 1 => g.block[At(fs, i, Front(s))][Last(s)] = fs.block[At(fs, i, Front(s))][Last(s)]

(* Two states in which a whole set of slots is stored alike agree on it.   *)
LEMMA AtSame ==
  ASSUME NEW fs, NEW g, NEW i, NEW W, Whole(W), \A s \in W : StoredAlike(fs, g, i, s)
  PROVE  \A s \in W : At(g, i, s) = At(fs, i, s)
<1>0. \A s \in W : /\ s \in Slot /\ Len(s) \in {1, 2, 3}
                   /\ Len(s) # 1 => Front(s) \in W /\ Len(Front(s)) = Len(s) - 1
  BY FrontFacts DEF Whole
<1>1. ASSUME NEW s \in W, Len(s) = 1 PROVE At(g, i, s) = At(fs, i, s)
  BY <1>0, <1>1, AtStep DEF StoredAlike
<1>2. ASSUME NEW s \in W, Len(s) = 2 PROVE At(g, i, s) = At(fs, i, s)
  <2>1. Front(s) \in W /\ Len(Front(s)) = 1 /\ Len(s) # 1 /\ s \in Slot
    <3>1. Len(s) # 1
      BY <1>2
    <3>2. Front(s) \in W /\ Len(Front(s)) = Len(s) - 1 /\ s \in Slot
      BY <1>0, <3>1
    <3>3. QED
      BY <1>2, <3>1, <3>2
  <2>2. At(g, i, Front(s)) = At(fs, i, Front(s))
    BY <1>1, <2>1
  <2>3. QED
    BY <2>1, <2>2, AtStep DEF StoredAlike
<1>3. ASSUME NEW s \in W, Len(s) = 3 PROVE At(g, i, s) = At(fs, i, s)
  <2>1. Front(s) \in W /\ Len(Front(s)) = 2 /\ Len(s) # 1 /\ s \in Slot
    <3>1. Len(s) # 1
      BY <1>3
    <3>2. Front(s) \in W /\ Len(Front(s)) = Len(s) - 1 /\ s \in Slot
      BY <1>0, <3>1
    <3>3. QED
      BY <1>3, <3>1, <3>2
  <2>2. At(g, i, Front(s)) = At(fs, i, Front(s))
    BY <1>2, <2>1
  <2>3. QED
    BY <2>1, <2>2, AtStep DEF StoredAlike
<1>4. QED
  BY <1>0, <1>1, <1>2, <1>3

(* The parts of a state.                                                   *)
LEMMA FsParts ==
  ASSUME NEW fs \in Fs
  PROVE  /\ fs.ibits \subseteq Inodes /\ fs.dbits \subseteq DataArea
         /\ fs.inode \in [Inodes -> InodeType]
         /\ fs.block \in [DataArea -> [CellIndex -> Values]]
         /\ DOMAIN fs = {"ibits", "dbits", "inode", "block"}
         /\ fs = [ibits |-> fs.ibits, dbits |-> fs.dbits, inode |-> fs.inode, block |-> fs.block]
BY DEF Fs

(* A cell assigned.                                                        *)
Assign(fs, B, c, v) == [fs EXCEPT !.block[B][c] = v]

(* It changes one cell of one block.                                       *)
LEMMA SetCell ==
  ASSUME NEW fs \in Fs, NEW B \in DataArea, NEW c \in CellIndex, NEW v \in Values,
         NEW h, h = Assign(fs, B, c, v)
  PROVE  /\ h \in Fs /\ h.ibits = fs.ibits /\ h.dbits = fs.dbits /\ h.inode = fs.inode
         /\ h.block[B][c] = v
         /\ \A d \in CellIndex : d # c => h.block[B][d] = fs.block[B][d]
         /\ \A b \in DataArea : b # B => h.block[b] = fs.block[b]
<1> DEFINE blocks == [fs.block EXCEPT ![B][c] = v]
<1>1. /\ fs.ibits \subseteq Inodes /\ fs.dbits \subseteq DataArea
      /\ fs.inode \in [Inodes -> InodeType]
      /\ fs.block \in [DataArea -> [CellIndex -> Values]]
  BY FsParts
<1>2. /\ h.ibits = fs.ibits /\ h.dbits = fs.dbits /\ h.inode = fs.inode /\ h.block = blocks
      /\ h = [ibits |-> fs.ibits, dbits |-> fs.dbits, inode |-> fs.inode, block |-> blocks]
  BY DEF Fs, Assign
<1>3. blocks \in [DataArea -> [CellIndex -> Values]]
  BY <1>1
<1>4. h \in Fs
  BY <1>1, <1>2, <1>3 DEF Fs
<1>5. blocks[B][c] = v /\ \A d \in CellIndex : d # c => blocks[B][d] = fs.block[B][d]
  BY <1>1
<1>6. \A b \in DataArea : b # B => blocks[b] = fs.block[b]
  BY <1>1
<1>7. QED
  BY <1>2, <1>4, <1>5, <1>6

(* A pointer of an inode assigned.                                         *)
LEMMA SetPointer ==
  ASSUME NEW fs \in Fs, NEW i \in Inodes, NEW r \in Pointers, NEW v \in Values,
         NEW h, h = [fs EXCEPT !.inode[i].ptr[r] = v]
  PROVE  /\ h \in Fs /\ h.ibits = fs.ibits /\ h.dbits = fs.dbits /\ h.block = fs.block
         /\ h.inode[i].size = fs.inode[i].size /\ h.inode[i].dir = fs.inode[i].dir
         /\ h.inode[i].ptr[r] = v
         /\ \A p \in Pointers : p # r => h.inode[i].ptr[p] = fs.inode[i].ptr[p]
         /\ \A j \in Inodes : j # i => h.inode[j] = fs.inode[j]
<1> DEFINE inodes == [fs.inode EXCEPT ![i].ptr[r] = v]
           ptrs == [fs.inode[i].ptr EXCEPT ![r] = v]
<1>1. /\ fs.ibits \subseteq Inodes /\ fs.dbits \subseteq DataArea
      /\ fs.inode \in [Inodes -> InodeType]
      /\ fs.block \in [DataArea -> [CellIndex -> Values]]
  BY FsParts
<1>2. /\ h.ibits = fs.ibits /\ h.dbits = fs.dbits /\ h.block = fs.block /\ h.inode = inodes
      /\ h = [ibits |-> fs.ibits, dbits |-> fs.dbits, inode |-> inodes, block |-> fs.block]
  BY DEF Fs
<1>3. fs.inode[i] \in InodeType /\ fs.inode[i].ptr \in [Pointers -> Values]
  BY <1>1 DEF InodeType
<1>4. /\ ptrs \in [Pointers -> Values] /\ ptrs[r] = v
      /\ \A p \in Pointers : p # r => ptrs[p] = fs.inode[i].ptr[p]
  BY <1>3
<1>5. /\ inodes[i] = [fs.inode[i] EXCEPT !.ptr = ptrs]
      /\ \A j \in Inodes : j # i => inodes[j] = fs.inode[j]
      /\ DOMAIN inodes = Inodes /\ inodes = [j \in Inodes |-> inodes[j]]
  BY <1>1
<1> HIDE DEF ptrs, inodes
<1>6. /\ inodes[i] \in InodeType /\ inodes[i].ptr = ptrs
      /\ inodes[i].size = fs.inode[i].size /\ inodes[i].dir = fs.inode[i].dir
  BY <1>3, <1>4, <1>5 DEF InodeType
<1>7. inodes \in [Inodes -> InodeType]
  BY <1>1, <1>5, <1>6
<1>8. h \in Fs
  BY <1>1, <1>2, <1>7 DEF Fs
<1>9. h.inode[i].ptr[r] = v /\ \A p \in Pointers : p # r => h.inode[i].ptr[p] = fs.inode[i].ptr[p]
  BY ONLY <1>2, <1>4, <1>6
<1>10. QED
  BY ONLY <1>2, <1>5, <1>6, <1>8, <1>9

(* A slot assigned, outside of a whole set of slots with different blocks: *)
(* the others stay as they are.                                            *)
LEMMA PutKeeps ==
  ASSUME NEW g \in Fs, NEW i \in Inodes, NEW W, Whole(W),
         \A t \in W : At(g, i, t) \in DataArea,
         \A t, w \in W : At(g, i, t) = At(g, i, w) => t = w,
         NEW s \in Slot, s \notin W, Len(s) # 1 => Front(s) \in W,
         NEW b \in DataArea, NEW h, h = Put(g, i, s, b)
  PROVE  /\ h \in Fs /\ h.ibits = g.ibits /\ h.dbits = g.dbits
         /\ h.inode[i].size = g.inode[i].size /\ h.inode[i].dir = g.inode[i].dir
         /\ \A j \in Inodes : j # i => h.inode[j] = g.inode[j]
         /\ \A t \in W : At(h, i, t) = At(g, i, t)
         /\ At(h, i, s) = b
         /\ \A c \in DataArea : \/ h.block[c] = g.block[c]
                                \/ Len(s) # 1 /\ c = At(g, i, Front(s))
<1>0. b \in Values /\ W \subseteq Slot
  BY FsAssumption DEF DataArea, Values, Whole
<1>1. CASE Len(s) = 1
  <2> DEFINE r == s[1]
  <2>1. r \in Pointers /\ s = <<r>>
    BY <1>1, FrontFacts
  <2>2. h = [g EXCEPT !.inode[i].ptr[r] = b]
    BY <1>1 DEF Put
  <2> HIDE DEF r
  <2>3. /\ h \in Fs /\ h.ibits = g.ibits /\ h.dbits = g.dbits /\ h.block = g.block
        /\ h.inode[i].size = g.inode[i].size /\ h.inode[i].dir = g.inode[i].dir
        /\ h.inode[i].ptr[r] = b
        /\ \A p \in Pointers : p # r => h.inode[i].ptr[p] = g.inode[i].ptr[p]
        /\ \A j \in Inodes : j # i => h.inode[j] = g.inode[j]
    BY <1>0, <2>1, <2>2, SetPointer
  <2>4. ASSUME NEW t \in W, Len(t) = 1 PROVE h.inode[i].ptr[t[1]] = g.inode[i].ptr[t[1]]
    <3>1. t[1] \in Pointers /\ t = <<t[1]>>
      BY <1>0, <2>4, FrontFacts
    <3>2. t[1] # r
      BY <2>1, <3>1
    <3>3. QED
      BY <2>3, <3>1, <3>2
  <2>5. \A t \in W : At(h, i, t) = At(g, i, t)
    <3>1. \A t \in W : Len(t) # 1 => h.block[At(g, i, Front(t))][Last(t)]
                                        = g.block[At(g, i, Front(t))][Last(t)]
      BY <2>3
    <3>2. QED
      <4>1. \A t \in W : StoredAlike(g, h, i, t)
        BY <2>4, <3>1 DEF StoredAlike
      <4>2. QED
        BY <4>1, AtSame
  <2>6. At(h, i, s) = b
    BY <1>1, <2>3, AtStep DEF r
  <2>7. QED
    BY <2>3, <2>5, <2>6
<1>2. CASE Len(s) # 1
  <2> DEFINE B == At(g, i, Front(s))
             c == Last(s)
  <2>1. Front(s) \in W /\ B \in DataArea /\ c \in CellIndex /\ s = Append(Front(s), c)
    BY <1>2, FrontFacts
  <2>2. h = Assign(g, B, c, b)
    BY <1>2 DEF Put, Assign
  <2>3. /\ h \in Fs /\ h.ibits = g.ibits /\ h.dbits = g.dbits /\ h.inode = g.inode
        /\ h.block[B][c] = b
        /\ \A d \in CellIndex : d # c => h.block[B][d] = g.block[B][d]
        /\ \A a \in DataArea : a # B => h.block[a] = g.block[a]
    <3>1. B \in DataArea /\ c \in CellIndex /\ b \in Values /\ g \in Fs
      BY <1>0, <2>1
    <3> HIDE DEF B, c
    <3>2. QED
      BY ONLY <2>2, <3>1, SetCell
  <2>4. ASSUME NEW t \in W, Len(t) # 1
        PROVE  h.block[At(g, i, Front(t))][Last(t)] = g.block[At(g, i, Front(t))][Last(t)]
    <3>1. Front(t) \in W /\ Last(t) \in CellIndex /\ t = Append(Front(t), Last(t))
      BY <1>0, <2>4, FrontFacts DEF Whole
    <3>2. At(g, i, Front(t)) \in DataArea
      BY <3>1
    <3>3. CASE Front(t) = Front(s)
      <4>1. Last(t) # c
        BY <2>1, <3>1, <3>3
      <4>2. QED
        BY <2>3, <3>1, <3>3, <4>1
    <3>4. CASE Front(t) # Front(s)
      <4>1. At(g, i, Front(t)) # B
        BY <2>1, <3>1, <3>4
      <4>2. QED
        BY <2>3, <3>2, <4>1
    <3>5. QED
      BY <3>3, <3>4
  <2>5. \A t \in W : At(h, i, t) = At(g, i, t)
    <3>1. \A t \in W : StoredAlike(g, h, i, t)
      BY <2>3, <2>4 DEF StoredAlike
    <3>2. QED
      BY <3>1, AtSame
  <2>6. At(h, i, s) = b
    <3>1. At(h, i, Front(s)) = B
      BY <2>1, <2>5
    <3>2. At(h, i, s) = h.block[At(h, i, Front(s))][c]
      BY <1>2, AtStep
    <3>3. QED
      BY <2>3, <3>1, <3>2
  <2>7. QED
    BY <1>2, <2>3, <2>5, <2>6
<1>3. QED
  BY <1>1, <1>2

-------------------------------------------------------------------------------
(* The operations of the file system: blocks are handed out, a file grows, *)
(* is written and cleared, an inode is created, the directory is read.     *)

(* One more block picked.                                                  *)
PickNext(fs, q) == Append(q, Lowest(DataArea \ (fs.dbits \cup ToSet(q))))

(* alloc_data as a sequence of steps: what it has picked after each.       *)
LEMMA AllocSteps ==
  ASSUME NEW fs, NEW n \in Nat
  PROVE  \E f : /\ f[0] = <<>> /\ AllocData(fs, n) = f[n]
                /\ \A k \in 1 .. n : f[k] = PickNext(fs, f[k - 1])
<1> DEFINE Step(q) == PickNext(fs, q)
           Sol(f, m) == /\ DOMAIN f = 0 .. m /\ f[0] = <<>>
                        /\ \A k \in 1 .. m : f[k] = Step(f[k - 1])
           T == {m \in 0 .. n : ~\E f : Sol(f, m)}
<1> HIDE DEF Sol, Step
<1>1. T = {}
  <2> SUFFICES ASSUME T # {} PROVE FALSE
    OBVIOUS
  <2>1. T \subseteq Nat
    OBVIOUS
  <2>2. PICK m \in T : \A y \in T : m =< y
    BY <2>1, Least
  <2>3. CASE m = 0
    <3>1. Sol([k \in 0 .. 0 |-> <<>>], 0)
      BY DEF Sol
    <3>2. QED
      BY <2>2, <2>3, <3>1
  <2>4. CASE m # 0
    <3>1. m \in Nat /\ m - 1 \in 0 .. n /\ ~(m =< m - 1)
      BY <2>4
    <3>2. m - 1 \notin T
      BY <2>2, <3>1
    <3>3. PICK f : Sol(f, m - 1)
      BY <3>1, <3>2
    <3> DEFINE g == [k \in 0 .. m |-> IF k = m THEN Step(f[m - 1]) ELSE f[k]]
    <3>4. DOMAIN g = 0 .. m
      OBVIOUS
    <3>5. g[0] = <<>>
      BY <2>4, <3>1, <3>3 DEF Sol
    <3>6. ASSUME NEW k \in 1 .. m PROVE g[k] = Step(g[k - 1])
      <4>1. k \in 0 .. m /\ k - 1 \in 0 .. m /\ k - 1 # m
        BY <3>1
      <4>2. g[k - 1] = f[k - 1]
        BY <4>1
      <4>3. CASE k = m
        BY <4>1, <4>2, <4>3
      <4>4. CASE k # m
        <5>1. k \in 1 .. m - 1
          BY <3>1, <4>4
        <5>2. g[k] = f[k]
          BY <4>1, <4>4
        <5>3. QED
          BY <3>3, <4>2, <5>1, <5>2 DEF Sol
      <4>5. QED
        BY <4>3, <4>4
    <3>7. Sol(g, m)
      BY <3>4, <3>5, <3>6 DEF Sol
    <3>8. QED
      BY <2>2, <3>7
  <2>5. QED
    BY <2>3, <2>4
<1>2. PICK f : Sol(f, n)
  BY <1>1
<1> DEFINE h == [k \in 0 .. n |-> f[k]]
<1>3. h = [k \in 0 .. n |-> IF k = 0 THEN <<>> ELSE Step(h[k - 1])]
  <2>1. ASSUME NEW k \in 0 .. n
        PROVE  f[k] = IF k = 0 THEN <<>> ELSE Step(h[k - 1])
    <3>1. CASE k = 0
      BY <1>2, <3>1 DEF Sol
    <3>2. CASE k # 0
      <4>1. k \in 1 .. n /\ k - 1 \in 0 .. n
        BY <3>2
      <4>2. QED
        BY <1>2, <3>2, <4>1 DEF Sol
    <3>3. QED
      BY <3>1, <3>2
  <2>2. QED
    BY <2>1
<1> DEFINE v == CHOOSE v : v = [k \in 0 .. n |-> IF k = 0 THEN <<>> ELSE Step(v[k - 1])]
<1>4. v = [k \in 0 .. n |-> IF k = 0 THEN <<>> ELSE Step(v[k - 1])]
  <2>1. \E s : s = [k \in 0 .. n |-> IF k = 0 THEN <<>> ELSE Step(s[k - 1])]
    BY <1>3
  <2>2. QED
    BY <2>1
<1>5. AllocData(fs, n) = v[n]
  BY DEF AllocData, Step, PickNext
<1>6. 0 \in 0 .. n /\ \A k \in 1 .. n : k \in 0 .. n /\ k # 0
  OBVIOUS
<1> HIDE DEF h, v
<1>7. v[0] = <<>> /\ \A k \in 1 .. n : v[k] = Step(v[k - 1])
  BY <1>4, <1>6
<1>8. QED
  BY <1>5, <1>7 DEF Step

(* Bitmap::alloc finds a bit when one is clear.                            *)
LEMMA LowestIn ==
  ASSUME NEW T, T \subseteq Nat, T # {}
  PROVE  Lowest(T) \in T
BY Least DEF Lowest

(* The blocks of the data area are finitely many.                          *)
LEMMA AreaFinite ==
  /\ IsFiniteSet(DataArea) /\ DataArea \subseteq Nat
  /\ IsFiniteSet(Inodes) /\ Inodes \subseteq Nat
BY FsAssumption, FS_Interval DEF DataArea, Inodes

(* The elements of a list are at most as many as its places.               *)
LEMMA FewElements ==
  ASSUME NEW S, NEW q \in Seq(S)
  PROVE  IsFiniteSet(ToSet(q)) /\ Cardinality(ToSet(q)) =< Len(q)
<1>1. IsFiniteSet(1 .. Len(q)) /\ Cardinality(1 .. Len(q)) = Len(q)
  <2>1. Len(q) \in Nat /\ 1 \in Int /\ Len(q) \in Int
    OBVIOUS
  <2>2. /\ IsFiniteSet(1 .. Len(q))
        /\ Cardinality(1 .. Len(q)) = IF 1 > Len(q) THEN 0 ELSE Len(q) - 1 + 1
    BY ONLY <2>1, FS_Interval
  <2>3. QED
    BY <2>1, <2>2
<1>2. q \in Surjection(1 .. Len(q), ToSet(q))
  BY DEF Surjection, ToSet
<1>3. QED
  BY <1>1, <1>2, FS_Surjection

(* While no more blocks are asked for than are free, alloc_data gives      *)
(* different free blocks.                                                  *)
LEMMA AllocGives ==
  ASSUME NEW fs, NEW n \in Nat, n =< Cardinality(DataArea \ fs.dbits),
         NEW v, v = AllocData(fs, n)
  PROVE  /\ v \in Seq(DataArea \ fs.dbits) /\ Len(v) = n
         /\ \A j, l \in 1 .. n : v[j] = v[l] => j = l
<1> DEFINE F == DataArea \ fs.dbits
<1>1. PICK f : /\ f[0] = <<>> /\ AllocData(fs, n) = f[n]
               /\ \A k \in 1 .. n : f[k] = PickNext(fs, f[k - 1])
  BY AllocSteps
<1>2. IsFiniteSet(F) /\ F \subseteq Nat /\ n =< Cardinality(F) /\ Cardinality(F) \in Nat
  BY AreaFinite, FS_Subset, FS_CardinalityType
<1>3. \A k \in 1 .. n : f[k] = Append(f[k - 1], Lowest(F \ ToSet(f[k - 1])))
  <2>1. \A q : DataArea \ (fs.dbits \cup q) = F \ q
    OBVIOUS
  <2>2. QED
    BY <1>1, <2>1 DEF PickNext
<1> HIDE DEF F
<1> DEFINE Good(k) == /\ f[k] \in Seq(F) /\ Len(f[k]) = k
                      /\ \A j, l \in 1 .. k : f[k][j] = f[k][l] => j = l
           T == {k \in 0 .. n : ~Good(k)}
<1>4. T = {}
  <2> SUFFICES ASSUME T # {} PROVE FALSE
    OBVIOUS
  <2>1. PICK k \in T : \A y \in T : k =< y
    <3>1. T \subseteq Nat
      OBVIOUS
    <3>2. QED
      BY <3>1, Least
  <2>2. CASE k = 0
    <3>1. Good(0)
      BY <1>1
    <3>2. QED
      BY <2>1, <2>2, <3>1
  <2>3. CASE k # 0
    <3>1. k \in 1 .. n /\ k - 1 \in 0 .. n /\ ~(k =< k - 1) /\ k \in Nat
      BY <2>3
    <3>2. Good(k - 1)
      BY <2>1, <3>1
    <3> DEFINE q == f[k - 1]
               b == Lowest(F \ ToSet(q))
    <3>3. /\ q \in Seq(F) /\ Len(q) = k - 1 /\ \A j, l \in 1 .. k - 1 : q[j] = q[l] => j = l
          /\ f[k] = Append(q, b)
      BY <1>3, <3>1, <3>2
    <3> HIDE DEF q, b
    <3>4. F \ ToSet(q) # {}
      <4>1. SUFFICES ASSUME F \subseteq ToSet(q) PROVE FALSE
        OBVIOUS
      <4>2. IsFiniteSet(ToSet(q)) /\ Cardinality(ToSet(q)) =< k - 1
        BY <3>3, FewElements
      <4>3. Cardinality(F) =< Cardinality(ToSet(q)) /\ Cardinality(ToSet(q)) \in Nat
        BY <4>1, <4>2, FS_Subset, FS_CardinalityType
      <4>4. QED
        BY <1>2, <3>1, <4>2, <4>3
    <3>5. b \in F \ ToSet(q)
      <4>1. F \ ToSet(q) \subseteq Nat
        BY <1>2
      <4>2. QED
        BY <3>4, <4>1, LowestIn DEF b
    <3>6. \A j \in 1 .. k - 1 : q[j] # b
      BY <3>3, <3>5 DEF ToSet
    <3>7. f[k] \in Seq(F) /\ Len(f[k]) = k
      BY <3>1, <3>3, <3>5
    <3>8. f[k][k] = b /\ \A j \in 1 .. k : j # k => j \in 1 .. k - 1 /\ f[k][j] = q[j]
      BY <3>1, <3>3, <3>5
    <3>9. ASSUME NEW j \in 1 .. k, NEW l \in 1 .. k, f[k][j] = f[k][l] PROVE j = l
      BY <3>3, <3>6, <3>8, <3>9
    <3>10. Good(k)
      BY <3>7, <3>9
    <3>11. QED
      BY <2>1, <3>10
  <2>4. QED
    BY <2>2, <2>3
<1>5. Good(n)
  BY <1>4
<1>6. QED
  BY <1>1, <1>5 DEF F

(* increase_size: the slots the file gets, the blocks they are given, the  *)
(* state before the first is filled, and one step of filling.              *)
NewSlots(fs, i, size)  == Slots(DataBlocks(fs.inode[i].size), DataBlocks(size))
NewBlocks(fs, i, size) == AllocData(fs, Needed(fs, i, size))
Sized(fs, i, size) ==
    [fs EXCEPT !.inode[i].size = size, !.dbits = @ \cup ToSet(NewBlocks(fs, i, size))]
FillNext(fs, i, size, g, k) == Put(g, i, NewSlots(fs, i, size)[k], NewBlocks(fs, i, size)[k])

(* The filling as a sequence of steps.                                     *)
LEMMA FillSteps ==
  ASSUME NEW fs, NEW i, NEW size, ~(size < fs.inode[i].size),
         Len(NewSlots(fs, i, size)) \in Nat
  PROVE  \E f : /\ f[0] = Sized(fs, i, size)
                /\ IncreaseSize(fs, i, size) = f[Len(NewSlots(fs, i, size))]
                /\ \A k \in 1 .. Len(NewSlots(fs, i, size)) :
                      f[k] = FillNext(fs, i, size, f[k - 1], k)
<1> DEFINE Step(q, k) == FillNext(fs, i, size, q, k)
           n == Len(NewSlots(fs, i, size))
           start == Sized(fs, i, size)
           Sol(f, m) == /\ DOMAIN f = 0 .. m /\ f[0] = start
                        /\ \A k \in 1 .. m : f[k] = Step(f[k - 1], k)
           T == {m \in 0 .. n : ~\E f : Sol(f, m)}
<1>0. n \in Nat
  OBVIOUS
<1> HIDE DEF Sol, Step, n, start
<1>1. T = {}
  <2> SUFFICES ASSUME T # {} PROVE FALSE
    OBVIOUS
  <2>1. T \subseteq Nat
    BY <1>0
  <2>2. PICK m \in T : \A y \in T : m =< y
    BY <2>1, Least
  <2>3. CASE m = 0
    <3>1. Sol([k \in 0 .. 0 |-> start], 0)
      BY DEF Sol
    <3>2. QED
      BY <2>2, <2>3, <3>1
  <2>4. CASE m # 0
    <3>1. m \in Nat /\ m - 1 \in 0 .. n /\ ~(m =< m - 1)
      BY <1>0, <2>4
    <3>2. m - 1 \notin T
      BY <2>2, <3>1
    <3>3. PICK f : Sol(f, m - 1)
      BY <3>1, <3>2
    <3> DEFINE g == [k \in 0 .. m |-> IF k = m THEN Step(f[m - 1], m) ELSE f[k]]
    <3>4. DOMAIN g = 0 .. m
      OBVIOUS
    <3>5. g[0] = start
      BY <2>4, <3>1, <3>3 DEF Sol
    <3>6. ASSUME NEW k \in 1 .. m PROVE g[k] = Step(g[k - 1], k)
      <4>1. k \in 0 .. m /\ k - 1 \in 0 .. m /\ k - 1 # m
        BY <3>1
      <4>2. g[k - 1] = f[k - 1]
        BY <4>1
      <4>3. CASE k = m
        BY <4>1, <4>2, <4>3
      <4>4. CASE k # m
        <5>1. k \in 1 .. m - 1
          BY <3>1, <4>4
        <5>2. g[k] = f[k]
          BY <4>1, <4>4
        <5>3. QED
          BY <3>3, <4>2, <5>1, <5>2 DEF Sol
      <4>5. QED
        BY <4>3, <4>4
    <3>7. Sol(g, m)
      BY <3>4, <3>5, <3>6 DEF Sol
    <3>8. QED
      BY <2>2, <3>7
  <2>5. QED
    BY <2>3, <2>4
<1>2. PICK f : Sol(f, n)
  <2>1. n \in 0 .. n
    BY ONLY <1>0
  <2>2. QED
    BY ONLY <1>1, <2>1
<1> DEFINE h == [k \in 0 .. n |-> f[k]]
<1>3. h = [k \in 0 .. n |-> IF k = 0 THEN start ELSE Step(h[k - 1], k)]
  <2>1. ASSUME NEW k \in 0 .. n
        PROVE  f[k] = IF k = 0 THEN start ELSE Step(h[k - 1], k)
    <3>1. CASE k = 0
      BY <1>2, <3>1 DEF Sol
    <3>2. CASE k # 0
      <4>1. k \in 1 .. n /\ k - 1 \in 0 .. n
        BY <1>0, <3>2
      <4>2. QED
        BY <1>2, <3>2, <4>1 DEF Sol
    <3>3. QED
      BY <3>1, <3>2
  <2>2. QED
    BY <2>1
<1> DEFINE v == CHOOSE v : v = [k \in 0 .. n |-> IF k = 0 THEN start ELSE Step(v[k - 1], k)]
<1>4. v = [k \in 0 .. n |-> IF k = 0 THEN start ELSE Step(v[k - 1], k)]
  <2>1. \E s : s = [k \in 0 .. n |-> IF k = 0 THEN start ELSE Step(s[k - 1], k)]
    BY <1>3
  <2>2. QED
    BY <2>1
<1>5. IncreaseSize(fs, i, size) = v[n]
  BY DEF IncreaseSize, FillNext, Sized, NewSlots, NewBlocks, Step, n, start
<1>6. 0 \in 0 .. n /\ \A k \in 1 .. n : k \in 0 .. n /\ k # 0
  BY <1>0
<1> HIDE DEF h, v
<1>7. v[0] = start /\ \A k \in 1 .. n : v[k] = Step(v[k - 1], k)
  BY <1>4, <1>6
<1>8. QED
  BY <1>5, <1>7 DEF Step, n, start

(* write_at: one cell more written.                                        *)
WriteNext(fs, i, offset, buf, g, k) ==
    Assign(g, GetBlockId(fs, i, (offset + k - 1) \div Cells), (offset + k - 1) % Cells, buf[k])

(* The writing as a sequence of steps.                                     *)
LEMMA WriteSteps ==
  ASSUME NEW fs, NEW i, NEW offset, NEW buf, Len(buf) \in Nat
  PROVE  \E f : /\ f[0] = fs /\ WriteAt(fs, i, offset, buf) = f[Len(buf)]
                /\ \A k \in 1 .. Len(buf) : f[k] = WriteNext(fs, i, offset, buf, f[k - 1], k)
<1> DEFINE Step(q, k) == WriteNext(fs, i, offset, buf, q, k)
           n == Len(buf)
           start == fs
           Sol(f, m) == /\ DOMAIN f = 0 .. m /\ f[0] = start
                        /\ \A k \in 1 .. m : f[k] = Step(f[k - 1], k)
           T == {m \in 0 .. n : ~\E f : Sol(f, m)}
<1>0. n \in Nat
  OBVIOUS
<1> HIDE DEF Sol, Step, n, start
<1>1. T = {}
  <2> SUFFICES ASSUME T # {} PROVE FALSE
    OBVIOUS
  <2>1. T \subseteq Nat
    BY <1>0
  <2>2. PICK m \in T : \A y \in T : m =< y
    BY <2>1, Least
  <2>3. CASE m = 0
    <3>1. Sol([k \in 0 .. 0 |-> start], 0)
      BY DEF Sol
    <3>2. QED
      BY <2>2, <2>3, <3>1
  <2>4. CASE m # 0
    <3>1. m \in Nat /\ m - 1 \in 0 .. n /\ ~(m =< m - 1)
      BY <1>0, <2>4
    <3>2. m - 1 \notin T
      BY <2>2, <3>1
    <3>3. PICK f : Sol(f, m - 1)
      BY <3>1, <3>2
    <3> DEFINE g == [k \in 0 .. m |-> IF k = m THEN Step(f[m - 1], m) ELSE f[k]]
    <3>4. DOMAIN g = 0 .. m
      OBVIOUS
    <3>5. g[0] = start
      BY <2>4, <3>1, <3>3 DEF Sol
    <3>6. ASSUME NEW k \in 1 .. m PROVE g[k] = Step(g[k - 1], k)
      <4>1. k \in 0 .. m /\ k - 1 \in 0 .. m /\ k - 1 # m
        BY <3>1
      <4>2. g[k - 1] = f[k - 1]
        BY <4>1
      <4>3. CASE k = m
        BY <4>1, <4>2, <4>3
      <4>4. CASE k # m
        <5>1. k \in 1 .. m - 1
          BY <3>1, <4>4
        <5>2. g[k] = f[k]
          BY <4>1, <4>4
        <5>3. QED
          BY <3>3, <4>2, <5>1, <5>2 DEF Sol
      <4>5. QED
        BY <4>3, <4>4
    <3>7. Sol(g, m)
      BY <3>4, <3>5, <3>6 DEF Sol
    <3>8. QED
      BY <2>2, <3>7
  <2>5. QED
    BY <2>3, <2>4
<1>2. PICK f : Sol(f, n)
  <2>1. n \in 0 .. n
    BY ONLY <1>0
  <2>2. QED
    BY ONLY <1>1, <2>1
<1> DEFINE h == [k \in 0 .. n |-> f[k]]
<1>3. h = [k \in 0 .. n |-> IF k = 0 THEN start ELSE Step(h[k - 1], k)]
  <2>1. ASSUME NEW k \in 0 .. n
        PROVE  f[k] = IF k = 0 THEN start ELSE Step(h[k - 1], k)
    <3>1. CASE k = 0
      BY <1>2, <3>1 DEF Sol
    <3>2. CASE k # 0
      <4>1. k \in 1 .. n /\ k - 1 \in 0 .. n
        BY <1>0, <3>2
      <4>2. QED
        BY <1>2, <3>2, <4>1 DEF Sol
    <3>3. QED
      BY <3>1, <3>2
  <2>2. QED
    BY <2>1
<1> DEFINE v == CHOOSE v : v = [k \in 0 .. n |-> IF k = 0 THEN start ELSE Step(v[k - 1], k)]
<1>4. v = [k \in 0 .. n |-> IF k = 0 THEN start ELSE Step(v[k - 1], k)]
  <2>1. \E s : s = [k \in 0 .. n |-> IF k = 0 THEN start ELSE Step(s[k - 1], k)]
    BY <1>3
  <2>2. QED
    BY <2>1
<1>5. WriteAt(fs, i, offset, buf) = v[n]
  BY DEF WriteAt, WriteNext, Assign, Step, n, start
<1>6. 0 \in 0 .. n /\ \A k \in 1 .. n : k \in 0 .. n /\ k # 0
  BY <1>0
<1> HIDE DEF h, v
<1>7. v[0] = start /\ \A k \in 1 .. n : v[k] = Step(v[k - 1], k)
  BY <1>4, <1>6
<1>8. QED
  BY <1>5, <1>7 DEF Step, n, start

-------------------------------------------------------------------------------
(* g is g0 with the first k slots of r given the blocks of new; apart from *)
(* the inode only blocks of block numbers have changed.                    *)
Reached(g, g0, i, W, r, new, k) ==
    /\ g \in Fs /\ g.ibits = g0.ibits /\ g.dbits = g0.dbits
    /\ g.inode[i].size = g0.inode[i].size /\ g.inode[i].dir = g0.inode[i].dir
    /\ \A j \in Inodes : j # i => g.inode[j] = g0.inode[j]
    /\ \A t \in W : At(g, i, t) = At(g0, i, t)
    /\ \A j \in 1 .. k : At(g, i, r[j]) = new[j]
    /\ \A c \in DataArea : \/ g.block[c] = g0.block[c]
                           \/ \E t \in W : Inner(t) /\ c = At(g, i, t)
                           \/ \E j \in 1 .. k : Inner(r[j]) /\ c = At(g, i, r[j])

(* One slot more.                                                          *)
LEMMA FillOne ==
  ASSUME NEW g0, NEW i \in Inodes, NEW W, Whole(W),
         NEW N \in Nat, NEW r \in Seq(Slot), Len(r) = N, NEW new \in Seq(DataArea), Len(new) = N,
         \A t \in W : At(g0, i, t) \in DataArea,
         \A t, w \in W : At(g0, i, t) = At(g0, i, w) => t = w,
         \A j, l \in 1 .. N : r[j] = r[l] => j = l,
         \A j, l \in 1 .. N : new[j] = new[l] => j = l,
         \A j \in 1 .. N : r[j] \notin W,
         \A j \in 1 .. N : \A t \in W : new[j] # At(g0, i, t),
         \A j \in 1 .. N : Len(r[j]) # 1 =>
             Front(r[j]) \in W \/ \E l \in 1 .. j - 1 : r[l] = Front(r[j]),
         NEW k \in 1 .. N, NEW g, Reached(g, g0, i, W, r, new, k - 1),
         NEW h, h = Put(g, i, r[k], new[k])
  PROVE  Reached(h, g0, i, W, r, new, k)
<1> DEFINE V == W \cup {r[j] : j \in 1 .. k - 1}
           s == r[k]
           b == new[k]
<1>1. \A j \in 1 .. k - 1 : j \in 1 .. N /\ j # k
  OBVIOUS
<1>2. /\ g \in Fs /\ g.ibits = g0.ibits /\ g.dbits = g0.dbits
      /\ g.inode[i].size = g0.inode[i].size /\ g.inode[i].dir = g0.inode[i].dir
      /\ \A j \in Inodes : j # i => g.inode[j] = g0.inode[j]
      /\ \A t \in W : At(g, i, t) = At(g0, i, t)
      /\ \A j \in 1 .. k - 1 : At(g, i, r[j]) = new[j]
      /\ \A c \in DataArea : \/ g.block[c] = g0.block[c]
                             \/ \E t \in W : Inner(t) /\ c = At(g, i, t)
                             \/ \E j \in 1 .. k - 1 : Inner(r[j]) /\ c = At(g, i, r[j])
  BY DEF Reached
<1>3. /\ s \in Slot /\ b \in DataArea /\ \A j \in 1 .. N : r[j] \in Slot /\ new[j] \in DataArea
  OBVIOUS
<1>4. Whole(V)
  <2>1. V \subseteq Slot
    BY <1>1, <1>3 DEF Whole
  <2>2. ASSUME NEW t \in V, Len(t) # 1 PROVE Front(t) \in V
    <3>1. CASE t \in W
      BY <2>2, <3>1 DEF Whole
    <3>2. CASE t \notin W
      <4>1. PICK j \in 1 .. k - 1 : t = r[j]
        BY <3>2
      <4>2. CASE Front(t) \in W
        BY <4>2
      <4>3. CASE Front(t) \notin W
        <5>1. PICK l \in 1 .. j - 1 : r[l] = Front(t)
          BY <1>1, <2>2, <4>1, <4>3
        <5>2. l \in 1 .. k - 1
          OBVIOUS
        <5>3. QED
          BY <5>1, <5>2
      <4>4. QED
        BY <4>2, <4>3
    <3>3. QED
      BY <3>1, <3>2
  <2>3. QED
    BY <2>1, <2>2 DEF Whole
<1>5. \A t \in V : At(g, i, t) \in DataArea
  BY <1>1, <1>2, <1>3
<1>6. ASSUME NEW t \in V, NEW w \in V, At(g, i, t) = At(g, i, w) PROVE t = w
  <2>1. CASE t \in W /\ w \in W
    BY <1>2, <1>6, <2>1
  <2>2. CASE t \in W /\ w \notin W
    BY <1>1, <1>2, <1>6, <2>2
  <2>3. CASE t \notin W /\ w \in W
    BY <1>1, <1>2, <1>6, <2>3
  <2>4. CASE t \notin W /\ w \notin W
    <3>1. PICK j \in 1 .. k - 1 : t = r[j]
      BY <2>4
    <3>2. PICK l \in 1 .. k - 1 : w = r[l]
      BY <2>4
    <3>3. new[j] = new[l]
      BY <1>2, <1>6, <3>1, <3>2
    <3>4. j = l
      BY <1>1, <3>3
    <3>5. QED
      BY <3>1, <3>2, <3>4
  <2>5. QED
    BY <2>1, <2>2, <2>3, <2>4
<1>7. s \notin V
  BY <1>1
<1>8. Len(s) # 1 => Front(s) \in V
  OBVIOUS
<1>9. h = Put(g, i, s, b)
  OBVIOUS
<1>10. \A j \in 1 .. k - 1 : r[j] \in V
  OBVIOUS
<1>11. W \subseteq V
  OBVIOUS
<1> HIDE DEF V, s, b
<1>12. /\ h \in Fs /\ h.ibits = g.ibits /\ h.dbits = g.dbits
       /\ h.inode[i].size = g.inode[i].size /\ h.inode[i].dir = g.inode[i].dir
       /\ \A j \in Inodes : j # i => h.inode[j] = g.inode[j]
       /\ \A t \in V : At(h, i, t) = At(g, i, t)
       /\ At(h, i, s) = b
       /\ \A c \in DataArea : \/ h.block[c] = g.block[c]
                              \/ Len(s) # 1 /\ c = At(g, i, Front(s))
  BY ONLY <1>2, <1>3, <1>4, <1>5, <1>6, <1>7, <1>8, <1>9, i \in Inodes, PutKeeps
<1>13. ASSUME NEW j \in 1 .. k PROVE At(h, i, r[j]) = new[j]
  <2>1. CASE j = k
    BY <1>12, <2>1 DEF s, b
  <2>2. CASE j # k
    <3>1. j \in 1 .. k - 1
      BY <2>2
    <3>2. QED
      BY <1>2, <1>10, <1>12, <3>1
  <2>3. QED
    BY <2>1, <2>2
<1>14. ASSUME NEW c \in DataArea
       PROVE  \/ h.block[c] = g0.block[c]
              \/ \E t \in W : Inner(t) /\ c = At(h, i, t)
              \/ \E j \in 1 .. k : Inner(r[j]) /\ c = At(h, i, r[j])
  <2>0. \A j \in 1 .. k - 1 : j \in 1 .. k
    OBVIOUS
  <2>1. CASE h.block[c] = g.block[c]
    <3>1. CASE g.block[c] = g0.block[c]
      BY <2>1, <3>1
    <3>2. CASE \E t \in W : Inner(t) /\ c = At(g, i, t)
      BY <1>11, <1>12, <3>2
    <3>3. CASE \E j \in 1 .. k - 1 : Inner(r[j]) /\ c = At(g, i, r[j])
      BY <1>10, <1>12, <2>0, <3>3
    <3>4. QED
      BY <1>2, <3>1, <3>2, <3>3
  <2>2. CASE Len(s) # 1 /\ c = At(g, i, Front(s))
    <3>1. Front(s) \in V /\ Inner(Front(s))
      BY <1>3, <1>8, <2>2, FrontFacts
    <3>2. c = At(h, i, Front(s))
      BY <1>12, <2>2, <3>1
    <3>3. CASE Front(s) \in W
      BY <3>1, <3>2, <3>3
    <3>4. CASE Front(s) \notin W
      <4>1. PICK j \in 1 .. k - 1 : Front(s) = r[j]
        BY <3>1, <3>4 DEF V
      <4>2. QED
        BY <2>0, <3>1, <3>2, <4>1
    <3>5. QED
      BY <3>3, <3>4
  <2>3. QED
    BY <1>12, <2>1, <2>2
<1>15. \A t \in W : At(h, i, t) = At(g0, i, t)
  BY <1>2, <1>11, <1>12
<1>16. /\ h.ibits = g0.ibits /\ h.dbits = g0.dbits
       /\ h.inode[i].size = g0.inode[i].size /\ h.inode[i].dir = g0.inode[i].dir
       /\ \A j \in Inodes : j # i => h.inode[j] = g0.inode[j]
  BY <1>2, <1>12
<1>17. QED
  BY <1>12, <1>13, <1>14, <1>15, <1>16 DEF Reached

(* All the slots.                                                          *)
LEMMA FillAll ==
  ASSUME NEW g0 \in Fs, NEW i \in Inodes, NEW W, Whole(W),
         NEW N \in Nat, NEW r \in Seq(Slot), Len(r) = N, NEW new \in Seq(DataArea), Len(new) = N,
         \A t \in W : At(g0, i, t) \in DataArea,
         \A t, w \in W : At(g0, i, t) = At(g0, i, w) => t = w,
         \A j, l \in 1 .. N : r[j] = r[l] => j = l,
         \A j, l \in 1 .. N : new[j] = new[l] => j = l,
         \A j \in 1 .. N : r[j] \notin W,
         \A j \in 1 .. N : \A t \in W : new[j] # At(g0, i, t),
         \A j \in 1 .. N : Len(r[j]) # 1 =>
             Front(r[j]) \in W \/ \E l \in 1 .. j - 1 : r[l] = Front(r[j]),
         NEW f, f[0] = g0, \A k \in 1 .. N : f[k] = Put(f[k - 1], i, r[k], new[k])
  PROVE  Reached(f[N], g0, i, W, r, new, N)
<1> DEFINE T == {k \in 0 .. N : ~Reached(f[k], g0, i, W, r, new, k)}
<1>1. Reached(f[0], g0, i, W, r, new, 0)
  BY DEF Reached
<1>2. T = {}
  <2> SUFFICES ASSUME T # {} PROVE FALSE
    OBVIOUS
  <2>1. PICK k \in T : \A y \in T : k =< y
    <3>1. T \subseteq Nat
      OBVIOUS
    <3>2. QED
      BY <3>1, Least
  <2>2. k # 0
    BY <1>1, <2>1
  <2>3. k \in 1 .. N /\ k - 1 \in 0 .. N /\ ~(k =< k - 1)
    BY <2>2
  <2>4. Reached(f[k - 1], g0, i, W, r, new, k - 1) /\ f[k] = Put(f[k - 1], i, r[k], new[k])
    BY <2>1, <2>3
  <2>5. Reached(f[k], g0, i, W, r, new, k)
    BY ZenonT(40), <2>3, <2>4, FillOne
  <2>6. QED
    BY <2>1, <2>5
<1>3. QED
  BY <1>2

-------------------------------------------------------------------------------
(* _data_blocks rounds up.                                                 *)
LEMMA DataBlocksAre ==
  ASSUME NEW size \in Nat
  PROVE  /\ DataBlocks(size) \in Nat
         /\ size =< DataBlocks(size) * Cells
         /\ \A k \in Nat : size =< k * Cells => DataBlocks(size) =< k
         /\ \A k \in Nat : k < DataBlocks(size) => k * Cells < size
<1> DEFINE x == size + Cells - 1
           d == x \div Cells
           e == x % Cells
<1>1. Cells \in Nat /\ Cells > 0
  BY Numbers
<1>2. x \in Nat /\ x = size + Cells - 1
  BY <1>1
<1>3. DataBlocks(size) = d
  BY DEF DataBlocks
<1> HIDE DEF x
<1>4. d \in Nat /\ e \in CellIndex /\ x = d * Cells + e
  BY <1>2, DivCells
<1> HIDE DEF d, e
<1>5. e \in Nat /\ e =< Cells - 1 /\ d * Cells \in Nat
  BY <1>1, <1>4 DEF CellIndex
<1>6. size =< d * Cells
  BY <1>1, <1>2, <1>4, <1>5
<1>7. ASSUME NEW k \in Nat, k < d PROVE k * Cells < size
  <2>1. (d - k) \in Nat /\ d - k >= 1 /\ d = k + (d - k)
    BY <1>4, <1>7
  <2>2. d * Cells = k * Cells + (d - k) * Cells
    BY <1>1, <1>4, <2>1
  <2>3. (d - k) * Cells >= Cells /\ k * Cells \in Nat
    BY <1>1, <2>1
  <2>4. QED
    BY <1>1, <1>2, <1>4, <1>5, <2>2, <2>3
<1>8. ASSUME NEW k \in Nat, size =< k * Cells PROVE d =< k
  <2>1. k * Cells \in Nat
    BY <1>1
  <2>2. CASE k < d
    BY <1>7, <1>8, <2>1, <2>2
  <2>3. QED
    BY <1>4, <2>2
<1>9. QED
  BY <1>3, <1>4, <1>6, <1>7, <1>8

(* A cell inside a size lies in one of its data blocks.                    *)
LEMMA CellInside ==
  ASSUME NEW size \in Nat, NEW o \in Nat, o < size
  PROVE  /\ o \div Cells \in Nat /\ o \div Cells < DataBlocks(size) /\ o % Cells \in CellIndex
         /\ o = (o \div Cells) * Cells + (o % Cells)
<1> DEFINE d == o \div Cells
           e == o % Cells
           n == DataBlocks(size)
<1>1. d \in Nat /\ e \in CellIndex /\ o = d * Cells + e
  BY DivCells
<1>2. n \in Nat /\ size =< n * Cells
  BY DataBlocksAre
<1> HIDE DEF d, e, n
<1>3. Cells \in Nat /\ Cells > 0 /\ e \in Nat
  BY <1>1, Numbers DEF CellIndex
<1>4. d < n
  <2>1. SUFFICES ASSUME n =< d PROVE FALSE
    BY <1>1, <1>2
  <2>2. d - n \in Nat /\ d = n + (d - n)
    BY <1>1, <1>2, <2>1
  <2>3. d * Cells = n * Cells + (d - n) * Cells /\ (d - n) * Cells \in Nat /\ n * Cells \in Nat
    BY <1>2, <1>3, <2>2
  <2>4. QED
    BY <1>1, <1>2, <1>3, <2>3
<1>5. QED
  BY <1>1, <1>4 DEF d, e, n

(* Sizes in order need data blocks in order.                               *)
LEMMA DataBlocksOrdered ==
  ASSUME NEW a \in Nat, NEW b \in Nat, a =< b
  PROVE  DataBlocks(a) =< DataBlocks(b)
<1>1. DataBlocks(b) \in Nat /\ b =< DataBlocks(b) * Cells
  BY DataBlocksAre
<1>2. DataBlocks(b) * Cells \in Nat
  BY <1>1, Numbers
<1>3. a =< DataBlocks(b) * Cells
  BY <1>1, <1>2
<1>4. QED
  BY <1>1, <1>3, DataBlocksAre

(* get_block_id finds the slot of the data block itself.                   *)
LEMMA LeafSlotIs ==
  ASSUME NEW k \in 0 .. INDIRECT2_BOUND - 1
  PROVE  /\ LeafSlot[k] \in Slot /\ Need(LeafSlot[k]) = k /\ ~Inner(LeafSlot[k])
         /\ \A s \in Slot : Need(s) = k /\ ~Inner(s) => s = LeafSlot[k]
<1> DEFINE q == SlotsOf(k)
<1>1. ListsSlots(q, k)
  BY SlotsOfLists
<1>2. LeafSlot[k] = Last(q)
  BY DEF LeafSlot
<1> HIDE DEF q
<1>3. q \in Seq(Slot) /\ Len(q) \in Nat /\ Len(q) > 0 /\ Last(q) = q[Len(q)] /\ Len(q) \in 1 .. Len(q)
  BY <1>1 DEF ListsSlots, Last
<1>4. ~Inner(q[Len(q)]) /\ q[Len(q)] \in Slot /\ Need(q[Len(q)]) = k
  BY <1>1, <1>3 DEF ListsSlots
<1>5. ASSUME NEW s \in Slot, Need(s) = k, ~Inner(s) PROVE s = q[Len(q)]
  <2>1. PICK j \in 1 .. Len(q) : q[j] = s
    BY <1>1, <1>5 DEF ListsSlots
  <2>2. ~(j < Len(q))
    BY <1>1, <1>5, <2>1 DEF ListsSlots
  <2>3. QED
    BY <1>3, <2>1, <2>2
<1>6. QED
  BY <1>2, <1>3, <1>4, <1>5

-------------------------------------------------------------------------------
(* The invariant of the file system.  The slots an inode uses hold blocks  *)
(* whose bit is set, no block is in two slots and none in no slot; free    *)
(* blocks are zeroed, and so is the last block of a file behind its end.   *)
SlotsIn(fs, i) == SlotsFor(DataBlocks(fs.inode[i].size))

MaxCells == INDIRECT2_BOUND * Cells

FsShape(fs)  == /\ fs \in Fs /\ Root \in fs.ibits
                /\ \A i \in fs.ibits : fs.inode[i].size =< MaxCells
FsTrees(fs)  == \A i \in fs.ibits : \A s \in SlotsIn(fs, i) : At(fs, i, s) \in fs.dbits
FsApart(fs)  == \A i, j \in fs.ibits : \A s \in SlotsIn(fs, i), t \in SlotsIn(fs, j) :
                    At(fs, i, s) = At(fs, j, t) => i = j /\ s = t
FsNoLeak(fs) == \A b \in fs.dbits : \E i \in fs.ibits : \E s \in SlotsIn(fs, i) : At(fs, i, s) = b
FsZero(fs)   == \A b \in DataArea \ fs.dbits : fs.block[b] = ZeroBlock
FsTail(fs)   == \A i \in fs.ibits, k \in Nat, c \in CellIndex :
                    k < DataBlocks(fs.inode[i].size) /\ k * Cells + c >= fs.inode[i].size
                      => fs.block[At(fs, i, LeafSlot[k])][c] = Zero

FsOK(fs) == /\ FsShape(fs) /\ FsTrees(fs) /\ FsApart(fs)
            /\ FsNoLeak(fs) /\ FsZero(fs) /\ FsTail(fs)

(* The sizes of a state are in range.                                      *)
LEMMA SizesAre ==
  ASSUME NEW fs, FsShape(fs), NEW i \in fs.ibits
  PROVE  /\ fs.inode[i] \in InodeType /\ i \in Inodes
         /\ fs.inode[i].size \in Nat /\ fs.inode[i].size =< MaxCells
         /\ DataBlocks(fs.inode[i].size) \in 0 .. INDIRECT2_BOUND
         /\ Whole(SlotsIn(fs, i))
<1>1. fs \in Fs /\ fs.inode[i].size =< INDIRECT2_BOUND * Cells
  BY DEF FsShape, MaxCells
<1>2. i \in Inodes /\ fs.inode[i] \in InodeType
  BY <1>1, FsParts
<1>3. fs.inode[i].size \in Nat
  BY <1>2 DEF InodeType
<1>4. DataBlocks(fs.inode[i].size) \in Nat /\ DataBlocks(fs.inode[i].size) =< INDIRECT2_BOUND
  BY <1>1, <1>3, DataBlocksAre, Numbers
<1>5. DataBlocks(fs.inode[i].size) \in 0 .. INDIRECT2_BOUND
  BY <1>4, Numbers
<1>6. Whole(SlotsIn(fs, i))
  BY <1>4, SlotsForWhole DEF SlotsIn
<1>7. QED
  BY <1>1, <1>2, <1>3, <1>5, <1>6 DEF MaxCells

(* increase_size allocates exactly the blocks it then puts into slots.     *)
LEMMA NeededIs ==
  ASSUME NEW fs, FsShape(fs), NEW i \in fs.ibits, NEW size \in Nat,
         fs.inode[i].size =< size, size =< MaxCells
  PROVE  /\ DataBlocks(size) \in DataBlocks(fs.inode[i].size) .. INDIRECT2_BOUND
         /\ Needed(fs, i, size) \in Nat
         /\ Len(NewSlots(fs, i, size)) = Needed(fs, i, size)
<1> DEFINE m == DataBlocks(fs.inode[i].size)
           n == DataBlocks(size)
<1>1. m \in 0 .. INDIRECT2_BOUND /\ fs.inode[i].size \in Nat
  BY SizesAre
<1>2. n \in Nat /\ n =< INDIRECT2_BOUND /\ m =< n
  BY <1>1, DataBlocksAre, DataBlocksOrdered, Numbers DEF MaxCells
<1>3. n \in m .. INDIRECT2_BOUND
  BY <1>1, <1>2, Numbers
<1>4. Needed(fs, i, size) = Total(n) - Total(m) /\ NewSlots(fs, i, size) = Slots(m, n)
  BY DEF Needed, TotalBlocks, Total, NewSlots
<1> HIDE DEF m, n
<1>5. /\ Slots(m, n) \in Seq(Slot) /\ Total(m) \in Nat /\ Total(n) \in Nat
      /\ Len(Slots(m, n)) = Total(n) - Total(m)
  BY <1>1, <1>3, SlotsBetween DEF ListsBetween
<1>6. Len(Slots(m, n)) \in Nat
  BY <1>5
<1>7. QED
  BY <1>3, <1>4, <1>5, <1>6 DEF m, n

(* The size set and the new blocks allocated, before any slot is filled.   *)
LEMMA SizedIs ==
  ASSUME NEW fs \in Fs, NEW i \in Inodes, NEW size \in Nat,
         ToSet(NewBlocks(fs, i, size)) \subseteq DataArea, NEW g, g = Sized(fs, i, size)
  PROVE  /\ g \in Fs /\ g.ibits = fs.ibits /\ g.block = fs.block
         /\ g.dbits = fs.dbits \cup ToSet(NewBlocks(fs, i, size))
         /\ g.inode[i].size = size /\ g.inode[i].dir = fs.inode[i].dir
         /\ g.inode[i].ptr = fs.inode[i].ptr
         /\ \A j \in Inodes : j # i => g.inode[j] = fs.inode[j]
<1> DEFINE inodes == [fs.inode EXCEPT ![i].size = size]
           bits == fs.dbits \cup ToSet(NewBlocks(fs, i, size))
<1>1. /\ fs.ibits \subseteq Inodes /\ fs.dbits \subseteq DataArea
      /\ fs.inode \in [Inodes -> InodeType]
      /\ fs.block \in [DataArea -> [CellIndex -> Values]]
  BY FsParts
<1>2. /\ g.ibits = fs.ibits /\ g.dbits = bits /\ g.block = fs.block /\ g.inode = inodes
      /\ g = [ibits |-> fs.ibits, dbits |-> bits, inode |-> inodes, block |-> fs.block]
  BY DEF Fs, Sized
<1>3. bits \subseteq DataArea
  BY <1>1
<1>4. /\ inodes[i] = [fs.inode[i] EXCEPT !.size = size]
      /\ \A j \in Inodes : j # i => inodes[j] = fs.inode[j]
      /\ DOMAIN inodes = Inodes /\ inodes = [j \in Inodes |-> inodes[j]]
  BY <1>1
<1> HIDE DEF inodes, bits
<1>5. fs.inode[i] \in InodeType
  BY <1>1
<1>6. /\ inodes[i] \in InodeType /\ inodes[i].size = size
      /\ inodes[i].dir = fs.inode[i].dir /\ inodes[i].ptr = fs.inode[i].ptr
  BY <1>4, <1>5 DEF InodeType
<1>7. inodes \in [Inodes -> InodeType]
  BY <1>1, <1>4, <1>6
<1>8. g \in Fs
  BY <1>1, <1>2, <1>3, <1>7 DEF Fs
<1>9. QED
  BY ONLY <1>2, <1>4, <1>6, <1>8 DEF bits

(* Without a slot changed, the numbers in the slots are the same.          *)
LEMMA AtStays ==
  ASSUME NEW fs, NEW g, NEW i, NEW W, Whole(W),
         g.inode[i].ptr = fs.inode[i].ptr,
         \A s \in W : Inner(s) => g.block[At(fs, i, s)] = fs.block[At(fs, i, s)]
  PROVE  \A s \in W : At(g, i, s) = At(fs, i, s)
<1>1. \A s \in W : Len(s) = 1 => g.inode[i].ptr[s[1]] = fs.inode[i].ptr[s[1]]
  OBVIOUS
<1>2. ASSUME NEW s \in W, Len(s) # 1
      PROVE  g.block[At(fs, i, Front(s))][Last(s)] = fs.block[At(fs, i, Front(s))][Last(s)]
  <2>1. Front(s) \in W /\ Inner(Front(s))
    BY <1>2, FrontFacts DEF Whole
  <2>2. QED
    BY <2>1
<1>3. Whole(W)
  OBVIOUS
<1>4. \A s \in W : StoredAlike(fs, g, i, s)
  BY <1>1, <1>2 DEF StoredAlike
<1>5. QED
  BY <1>3, <1>4, AtSame

(* What the file of i is like when it has grown from fs to g.              *)
Grown(fs, g, i, size) ==
    LET old == SlotsIn(fs, i)
        all == SlotsFor(DataBlocks(size))
    IN  /\ g \in Fs /\ g.ibits = fs.ibits
        /\ g.inode[i].size = size /\ g.inode[i].dir = fs.inode[i].dir
        /\ \A j \in Inodes : j # i => g.inode[j] = fs.inode[j]
        /\ old \subseteq all /\ fs.dbits \subseteq g.dbits
        /\ \A t \in old : At(g, i, t) = At(fs, i, t)
        /\ \A t \in all \ old : At(g, i, t) \in g.dbits \ fs.dbits
        /\ \A t, w \in all \ old : At(g, i, t) = At(g, i, w) => t = w
        /\ \A b \in g.dbits \ fs.dbits : \E t \in all \ old : At(g, i, t) = b
        /\ \A c \in DataArea : \/ g.block[c] = fs.block[c]
                               \/ \E t \in all : Inner(t) /\ c = At(g, i, t)

(* increase_size, when nothing stops it, puts new blocks into the new      *)
(* slots, one into each, and leaves the old ones.                          *)
LEMMA IncreaseGrows ==
  ASSUME NEW fs, FsOK(fs), NEW i \in fs.ibits, NEW size \in Nat,
         fs.inode[i].size =< size, size =< MaxCells, StopIncrease(fs, i, size) = "no",
         NEW g, g = IncreaseSize(fs, i, size)
  PROVE  Grown(fs, g, i, size)
<1> DEFINE m == DataBlocks(fs.inode[i].size)
           n == DataBlocks(size)
           r == NewSlots(fs, i, size)
           new == NewBlocks(fs, i, size)
           g0 == Sized(fs, i, size)
           N == Needed(fs, i, size)
           W == SlotsIn(fs, i)
           all == SlotsFor(n)
           Free == DataArea \ fs.dbits
<1>1. FsShape(fs) /\ FsTrees(fs) /\ FsApart(fs) /\ fs \in Fs
  BY DEF FsOK, FsShape
<1>2. /\ i \in Inodes /\ fs.inode[i].size \in Nat /\ m \in 0 .. INDIRECT2_BOUND /\ Whole(W)
      /\ W = SlotsFor(m)
  BY <1>1, SizesAre DEF SlotsIn
<1>3. n \in m .. INDIRECT2_BOUND /\ N \in Nat /\ Len(r) = N
  BY <1>1, NeededIs
<1>4. ~(size < fs.inode[i].size)
  BY <1>2
<1>5. N =< Cardinality(Free)
  <2>1. ~(Cardinality(Free) < N)
    BY <1>4 DEF StopIncrease
  <2>2. Cardinality(Free) \in Nat
    BY AreaFinite, FS_Subset, FS_CardinalityType
  <2>3. QED
    BY <1>3, <2>1, <2>2
<1>6. r = Slots(m, n)
  BY DEF NewSlots
<1>7. new = AllocData(fs, N)
  BY DEF NewBlocks
<1>8. PICK f : /\ f[0] = g0 /\ g = f[Len(r)]
               /\ \A k \in 1 .. Len(r) : f[k] = FillNext(fs, i, size, f[k - 1], k)
  <2>1. Len(NewSlots(fs, i, size)) \in Nat
    BY <1>3
  <2>2. QED
    BY ONLY <1>4, <2>1, FillSteps, g = IncreaseSize(fs, i, size)
<1>9. \A k \in 1 .. N : f[k] = Put(f[k - 1], i, r[k], new[k])
  BY <1>3, <1>8 DEF FillNext
<1> HIDE DEF m, n, r, new, N, W, g0
<1>10. /\ new \in Seq(Free) /\ Len(new) = N /\ \A j, l \in 1 .. N : new[j] = new[l] => j = l
  BY <1>3, <1>5, <1>7, AllocGives
<1>11. /\ r \in Seq(Slot)
       /\ \A s : (\E j \in 1 .. N : r[j] = s) <=> s \in all \ W
       /\ \A j, l \in 1 .. N : r[j] = r[l] => j = l
       /\ \A j \in 1 .. N : Len(r[j]) # 1 =>
               Front(r[j]) \in W \/ \E l \in 1 .. j - 1 : r[l] = Front(r[j])
  <2>1. m \in 0 .. INDIRECT2_BOUND /\ n \in m .. INDIRECT2_BOUND
    BY <1>2, <1>3
  <2>2. /\ r \in Seq(Slot)
        /\ \A s : (\E j \in 1 .. Len(r) : r[j] = s) <=> s \in SlotsFor(n) \ SlotsFor(m)
        /\ \A j, l \in 1 .. Len(r) : r[j] = r[l] => j = l
        /\ \A j \in 1 .. Len(r) : Len(r[j]) # 1 =>
               Front(r[j]) \in SlotsFor(m) \/ \E l \in 1 .. j - 1 : r[l] = Front(r[j])
    <3>1. ListsBetween(Slots(m, n), m, n)
      BY ONLY <2>1, SlotsBetween
    <3>2. ListsBetween(r, m, n)
      BY ONLY <1>6, <3>1
    <3>3. QED
      BY ONLY <3>2 DEF ListsBetween
  <2>3. QED
    BY ONLY <1>2, <1>3, <2>2
<1>12. /\ ToSet(new) \subseteq Free /\ \A j \in 1 .. N : new[j] \in ToSet(new) /\ new[j] \in Free
       /\ \A b \in ToSet(new) : \E j \in 1 .. N : new[j] = b
  BY <1>10 DEF ToSet
<1>13. /\ g0 \in Fs /\ g0.ibits = fs.ibits /\ g0.block = fs.block
       /\ g0.dbits = fs.dbits \cup ToSet(new)
       /\ g0.inode[i].size = size /\ g0.inode[i].dir = fs.inode[i].dir
       /\ g0.inode[i].ptr = fs.inode[i].ptr
       /\ \A j \in Inodes : j # i => g0.inode[j] = fs.inode[j]
  <2>1. ToSet(NewBlocks(fs, i, size)) \subseteq DataArea
    BY <1>12 DEF new
  <2>2. QED
    BY <1>1, <1>2, <2>1, SizedIs DEF g0, new
<1>14. \A t \in W : At(g0, i, t) = At(fs, i, t)
  BY <1>2, <1>13, AtStays
<1>15. \A t \in W : At(fs, i, t) \in fs.dbits /\ fs.dbits \subseteq DataArea
  BY <1>1, FsParts DEF FsTrees, W
<1>16. \A t, w \in W : At(fs, i, t) = At(fs, i, w) => t = w
  BY <1>1 DEF FsApart, W
<1>17. Reached(f[N], g0, i, W, r, new, N)
  <2>1. new \in Seq(DataArea)
    BY <1>10
  <2>2. /\ \A t \in W : At(g0, i, t) \in DataArea
        /\ \A t, w \in W : At(g0, i, t) = At(g0, i, w) => t = w
    BY <1>14, <1>15, <1>16
  <2>3. \A j \in 1 .. N : r[j] \notin W /\ \A t \in W : new[j] # At(g0, i, t)
    BY <1>11, <1>12, <1>14, <1>15
  <2>4. f[0] = g0
    BY <1>8
  <2>5. QED
    BY ONLY ZenonT(40), <1>2, <1>3, <1>9, <1>10, <1>11, <1>13, <2>1, <2>2, <2>3, <2>4, FillAll
<1>18. g = f[N]
  BY <1>3, <1>8
<1>19. /\ g \in Fs /\ g.ibits = g0.ibits /\ g.dbits = g0.dbits
       /\ g.inode[i].size = g0.inode[i].size /\ g.inode[i].dir = g0.inode[i].dir
       /\ \A j \in Inodes : j # i => g.inode[j] = g0.inode[j]
       /\ \A t \in W : At(g, i, t) = At(g0, i, t)
       /\ \A j \in 1 .. N : At(g, i, r[j]) = new[j]
       /\ \A c \in DataArea : \/ g.block[c] = g0.block[c]
                              \/ \E t \in W : Inner(t) /\ c = At(g, i, t)
                              \/ \E j \in 1 .. N : Inner(r[j]) /\ c = At(g, i, r[j])
  BY <1>17, <1>18 DEF Reached
<1>20. W \subseteq all
  BY <1>2, <1>3, FrontFacts DEF SlotsFor
<1>21. ASSUME NEW t \in all \ W PROVE At(g, i, t) \in g.dbits \ fs.dbits
  <2>1. PICK j \in 1 .. N : r[j] = t
    BY <1>11
  <2>2. QED
    BY <1>12, <1>13, <1>19, <2>1
<1>22. ASSUME NEW t \in all \ W, NEW w \in all \ W, At(g, i, t) = At(g, i, w) PROVE t = w
  <2>1. PICK j \in 1 .. N : r[j] = t
    BY <1>11
  <2>2. PICK l \in 1 .. N : r[l] = w
    BY <1>11
  <2>3. new[j] = new[l]
    BY <1>19, <1>22, <2>1, <2>2
  <2>4. QED
    BY <1>10, <2>1, <2>2, <2>3
<1>23. ASSUME NEW b \in g.dbits \ fs.dbits PROVE \E t \in all \ W : At(g, i, t) = b
  <2>1. PICK j \in 1 .. N : new[j] = b
    BY <1>12, <1>13, <1>19
  <2>2. r[j] \in all \ W /\ At(g, i, r[j]) = b
    BY <1>11, <1>19, <2>1
  <2>3. QED
    BY <2>2
<1>24. ASSUME NEW c \in DataArea
       PROVE  g.block[c] = fs.block[c] \/ \E t \in all : Inner(t) /\ c = At(g, i, t)
  <2>1. \A j \in 1 .. N : r[j] \in all
    BY <1>11
  <2>2. QED
    BY <1>13, <1>19, <1>20, <2>1
<1>25. /\ g.ibits = fs.ibits /\ g.inode[i].size = size /\ g.inode[i].dir = fs.inode[i].dir
       /\ \A j \in Inodes : j # i => g.inode[j] = fs.inode[j]
       /\ fs.dbits \subseteq g.dbits
  BY <1>13, <1>19
<1>26. \A t \in W : At(g, i, t) = At(fs, i, t)
  BY <1>14, <1>19
<1>27. QED
  BY ONLY <1>19, <1>20, <1>21, <1>22, <1>23, <1>24, <1>25, <1>26 DEF Grown, W, n

-------------------------------------------------------------------------------
(* The value at place o of the file of i.                                  *)
Cell(fs, i, o) == fs.block[GetBlockId(fs, i, o \div Cells)][o % Cells]

(* The data blocks of a file have their slots in its tree.                 *)
LEMMA LeafIn ==
  ASSUME NEW n \in 0 .. INDIRECT2_BOUND, NEW k \in Nat
  PROVE  /\ k < n => LeafSlot[k] \in SlotsFor(n) /\ ~Inner(LeafSlot[k]) /\ k \in 0 .. INDIRECT2_BOUND - 1
         /\ \A m \in Nat : LeafSlot[k] \in SlotsFor(m) /\ k < n => k < m
<1>1. INDIRECT2_BOUND \in Nat
  BY Numbers
<1>2. k < n => k \in 0 .. INDIRECT2_BOUND - 1
  BY <1>1
<1>3. k < n => LeafSlot[k] \in Slot /\ Need(LeafSlot[k]) = k /\ ~Inner(LeafSlot[k])
  BY <1>2, LeafSlotIs
<1>4. QED
  BY <1>2, <1>3 DEF SlotsFor

(* The trees of the other inodes stay when one grows.                      *)
LEMMA GrownOthers ==
  ASSUME NEW fs, FsOK(fs), NEW i \in fs.ibits, NEW size \in Nat, NEW g, Grown(fs, g, i, size),
         NEW j \in fs.ibits, j # i
  PROVE  /\ g.inode[j] = fs.inode[j] /\ SlotsIn(g, j) = SlotsIn(fs, j)
         /\ \A s \in SlotsIn(fs, j) : At(g, j, s) = At(fs, j, s)
<1>1. FsShape(fs) /\ FsTrees(fs) /\ FsApart(fs) /\ fs \in Fs
  BY DEF FsOK, FsShape
<1>2. j \in Inodes /\ Whole(SlotsIn(fs, j)) /\ SlotsIn(fs, j) \subseteq Slot
  BY <1>1, SizesAre DEF Whole
<1>3. g.inode[j] = fs.inode[j] /\ SlotsIn(g, j) = SlotsIn(fs, j)
  BY <1>2 DEF Grown, SlotsIn
<1>4. ASSUME NEW s \in SlotsIn(fs, j) PROVE g.block[At(fs, j, s)] = fs.block[At(fs, j, s)]
  <2>1. At(fs, j, s) \in fs.dbits /\ At(fs, j, s) \in DataArea
    BY <1>1, FsParts DEF FsTrees
  <2>2. SUFFICES ASSUME NEW t \in SlotsFor(DataBlocks(size)), At(fs, j, s) = At(g, i, t) PROVE FALSE
    BY <2>1 DEF Grown
  <2>3. CASE t \in SlotsIn(fs, i)
    <3>1. At(g, i, t) = At(fs, i, t)
      BY <2>3 DEF Grown
    <3>2. QED
      BY <1>1, <2>2, <2>3, <3>1 DEF FsApart
  <2>4. CASE t \notin SlotsIn(fs, i)
    BY <2>1, <2>2, <2>4 DEF Grown
  <2>5. QED
    BY <2>3, <2>4
<1>5. \A s \in SlotsIn(fs, j) : Inner(s) => g.block[At(fs, j, s)] = fs.block[At(fs, j, s)]
  BY <1>4
<1>6. g.inode[j].ptr = fs.inode[j].ptr
  BY <1>3
<1>7. \A s \in SlotsIn(fs, j) : At(g, j, s) = At(fs, j, s)
  BY <1>2, <1>5, <1>6, AtStays
<1>8. QED
  BY <1>3, <1>7

(* A file system in which a file has grown is sound, ...                   *)
LEMMA GrownTrees ==
  ASSUME NEW fs, FsOK(fs), NEW i \in fs.ibits, NEW size \in Nat, size =< MaxCells,
         NEW g, Grown(fs, g, i, size)
  PROVE  /\ FsShape(g) /\ FsTrees(g) /\ FsApart(g) /\ FsNoLeak(g) /\ FsZero(g)
         /\ \A j \in g.ibits : \A s \in SlotsIn(g, j) : ~Inner(s) =>
                g.block[At(g, j, s)] = fs.block[At(g, j, s)]
<1> DEFINE old == SlotsIn(fs, i)
           all == SlotsFor(DataBlocks(size))
<1>1. /\ FsShape(fs) /\ FsTrees(fs) /\ FsApart(fs) /\ FsNoLeak(fs) /\ FsZero(fs) /\ fs \in Fs
      /\ Root \in fs.ibits /\ fs.dbits \subseteq DataArea /\ fs.ibits \subseteq Inodes
  BY FsParts DEF FsOK, FsShape
<1>2. /\ g \in Fs /\ g.ibits = fs.ibits
      /\ g.inode[i].size = size /\ g.inode[i].dir = fs.inode[i].dir
      /\ \A j \in Inodes : j # i => g.inode[j] = fs.inode[j]
      /\ old \subseteq all /\ fs.dbits \subseteq g.dbits
      /\ \A t \in old : At(g, i, t) = At(fs, i, t)
      /\ \A t \in all \ old : At(g, i, t) \in g.dbits \ fs.dbits
      /\ \A t, w \in all \ old : At(g, i, t) = At(g, i, w) => t = w
      /\ \A b \in g.dbits \ fs.dbits : \E t \in all \ old : At(g, i, t) = b
      /\ \A c \in DataArea : \/ g.block[c] = fs.block[c]
                             \/ \E t \in all : Inner(t) /\ c = At(g, i, t)
  BY DEF Grown
<1>3. SlotsIn(g, i) = all
  BY <1>2 DEF SlotsIn
<1>4. \A j \in fs.ibits : j # i => /\ g.inode[j] = fs.inode[j] /\ SlotsIn(g, j) = SlotsIn(fs, j)
                                   /\ \A s \in SlotsIn(fs, j) : At(g, j, s) = At(fs, j, s)
  BY GrownOthers
<1>5. FsShape(g)
  BY <1>1, <1>2, <1>4 DEF FsShape
<1> HIDE DEF old, all
<1>6. \A t \in old : At(fs, i, t) \in fs.dbits
  BY <1>1 DEF FsTrees, old
<1>7. FsTrees(g)
  <2> SUFFICES ASSUME NEW j \in g.ibits, NEW s \in SlotsIn(g, j) PROVE At(g, j, s) \in g.dbits
    BY DEF FsTrees
  <2>1. CASE j = i
    BY <1>2, <1>3, <1>6, <2>1
  <2>2. CASE j # i
    BY <1>1, <1>2, <1>4, <2>2 DEF FsTrees
  <2>3. QED
    BY <2>1, <2>2
<1>8. \A j \in fs.ibits : j # i => \A s \in SlotsIn(g, j) : \A t \in all : At(g, j, s) # At(g, i, t)
  <2> SUFFICES ASSUME NEW j \in fs.ibits, j # i, NEW s \in SlotsIn(g, j), NEW t \in all,
                      At(g, j, s) = At(g, i, t)
               PROVE  FALSE
    OBVIOUS
  <2>1. s \in SlotsIn(fs, j) /\ At(g, j, s) = At(fs, j, s) /\ At(fs, j, s) \in fs.dbits
    BY <1>1, <1>4 DEF FsTrees
  <2>2. CASE t \in old
    <3>1. At(fs, j, s) = At(fs, i, t)
      BY <1>2, <2>1, <2>2
    <3>2. QED
      BY <1>1, <2>1, <2>2, <3>1 DEF FsApart, old
  <2>3. CASE t \notin old
    BY <1>2, <2>1, <2>3
  <2>4. QED
    BY <2>2, <2>3
<1>9. ASSUME NEW s \in all, NEW t \in all, At(g, i, s) = At(g, i, t) PROVE s = t
  <2>1. CASE s \in old /\ t \in old
    BY <1>1, <1>2, <1>9, <2>1 DEF FsApart, old
  <2>2. CASE s \in old /\ t \notin old
    BY <1>2, <1>6, <1>9, <2>2
  <2>3. CASE s \notin old /\ t \in old
    BY <1>2, <1>6, <1>9, <2>3
  <2>4. CASE s \notin old /\ t \notin old
    BY <1>2, <1>9, <2>4
  <2>5. QED
    BY <2>1, <2>2, <2>3, <2>4
<1>10. FsApart(g)
  <2> SUFFICES ASSUME NEW j \in g.ibits, NEW l \in g.ibits,
                      NEW s \in SlotsIn(g, j), NEW t \in SlotsIn(g, l),
                      At(g, j, s) = At(g, l, t)
               PROVE  j = l /\ s = t
    BY DEF FsApart
  <2>1. CASE j = i /\ l = i
    BY <1>3, <1>9, <2>1
  <2>2. CASE j = i /\ l # i
    BY <1>2, <1>3, <1>8, <2>2
  <2>3. CASE j # i /\ l = i
    BY <1>2, <1>3, <1>8, <2>3
  <2>4. CASE j # i /\ l # i
    BY <1>1, <1>2, <1>4, <2>4 DEF FsApart
  <2>5. QED
    BY <2>1, <2>2, <2>3, <2>4
<1>11. FsNoLeak(g)
  <2> SUFFICES ASSUME NEW b \in g.dbits
               PROVE  \E j \in g.ibits : \E s \in SlotsIn(g, j) : At(g, j, s) = b
    BY DEF FsNoLeak
  <2>1. CASE b \in fs.dbits
    <3>0. PICK j \in fs.ibits : \E s \in SlotsIn(fs, j) : At(fs, j, s) = b
      BY <1>1, <2>1 DEF FsNoLeak
    <3>1. PICK s \in SlotsIn(fs, j) : At(fs, j, s) = b
      BY <3>0
    <3>2. CASE j = i
      BY <1>2, <1>3, <3>1, <3>2 DEF old
    <3>3. CASE j # i
      BY <1>2, <1>4, <3>1, <3>3
    <3>4. QED
      BY <3>2, <3>3
  <2>2. CASE b \notin fs.dbits
    BY <1>2, <1>3, <2>2
  <2>3. QED
    BY <2>1, <2>2
<1>12. FsZero(g)
  <2> SUFFICES ASSUME NEW b \in DataArea \ g.dbits PROVE g.block[b] = ZeroBlock
    BY DEF FsZero
  <2>1. ~\E t \in all : b = At(g, i, t)
    BY <1>2, <1>3, <1>7 DEF FsTrees
  <2>2. QED
    BY <1>1, <1>2, <2>1 DEF FsZero
<1>13. ASSUME NEW j \in g.ibits, NEW s \in SlotsIn(g, j), ~Inner(s)
       PROVE  g.block[At(g, j, s)] = fs.block[At(g, j, s)]
  <2>1. At(g, j, s) \in DataArea
    BY <1>2, <1>7, FsParts DEF FsTrees
  <2>2. SUFFICES ASSUME NEW t \in all, Inner(t), At(g, j, s) = At(g, i, t) PROVE FALSE
    BY <1>2, <2>1
  <2>3. s = t
    BY <1>2, <1>3, <1>10, <2>2 DEF FsApart
  <2>4. QED
    BY <1>13, <2>2, <2>3
<1>14. QED
  BY <1>5, <1>7, <1>10, <1>11, <1>12, <1>13

(* ... what was in the files is still there, and what the grown one has    *)
(* got is zeroed.                                                          *)
LEMMA GrownCells ==
  ASSUME NEW fs, FsOK(fs), NEW i \in fs.ibits, NEW size \in Nat,
         fs.inode[i].size =< size, size =< MaxCells,
         NEW g, Grown(fs, g, i, size)
  PROVE  /\ FsOK(g)
         /\ \A j \in fs.ibits : \A o \in Nat :
                o < fs.inode[j].size => Cell(g, j, o) = Cell(fs, j, o)
         /\ \A o \in Nat : fs.inode[i].size =< o /\ o < size => Cell(g, i, o) = Zero
<1> DEFINE m == DataBlocks(fs.inode[i].size)
           n == DataBlocks(size)
<1>1. /\ FsShape(fs) /\ FsTrees(fs) /\ FsApart(fs) /\ FsZero(fs) /\ FsTail(fs) /\ fs \in Fs
      /\ fs.ibits \subseteq Inodes
  BY FsParts DEF FsOK, FsShape
<1>2. /\ FsShape(g) /\ FsTrees(g) /\ FsApart(g) /\ FsNoLeak(g) /\ FsZero(g)
      /\ \A j \in g.ibits : \A s \in SlotsIn(g, j) : ~Inner(s) =>
             g.block[At(g, j, s)] = fs.block[At(g, j, s)]
  BY GrownTrees
<1>3. /\ g \in Fs /\ g.ibits = fs.ibits /\ g.inode[i].size = size
      /\ SlotsIn(fs, i) \subseteq SlotsFor(n)
      /\ \A t \in SlotsIn(fs, i) : At(g, i, t) = At(fs, i, t)
      /\ \A t \in SlotsFor(n) \ SlotsIn(fs, i) : At(g, i, t) \in g.dbits \ fs.dbits
  BY DEF Grown
<1>4. \A j \in fs.ibits : j # i => /\ g.inode[j] = fs.inode[j] /\ SlotsIn(g, j) = SlotsIn(fs, j)
                                   /\ \A s \in SlotsIn(fs, j) : At(g, j, s) = At(fs, j, s)
  BY GrownOthers
<1>5. SlotsIn(g, i) = SlotsFor(n) /\ SlotsIn(fs, i) = SlotsFor(m)
  BY <1>3 DEF SlotsIn
<1>6. /\ m \in 0 .. INDIRECT2_BOUND /\ n \in 0 .. INDIRECT2_BOUND /\ m =< n
      /\ fs.inode[i].size \in Nat
  <2>1. m \in 0 .. INDIRECT2_BOUND /\ n \in 0 .. INDIRECT2_BOUND /\ fs.inode[i].size \in Nat
    BY <1>1, <1>2, <1>3, SizesAre
  <2>2. m =< n
    BY <2>1, DataBlocksOrdered
  <2>3. QED
    BY <2>1, <2>2
<1> HIDE DEF m, n
<1>7. ASSUME NEW j \in fs.ibits, NEW k \in Nat, k < DataBlocks(fs.inode[j].size)
      PROVE  /\ At(g, j, LeafSlot[k]) = At(fs, j, LeafSlot[k])
             /\ g.block[At(g, j, LeafSlot[k])] = fs.block[At(fs, j, LeafSlot[k])]
  <2>1. LeafSlot[k] \in SlotsIn(fs, j) /\ ~Inner(LeafSlot[k])
    BY <1>1, <1>7, LeafIn, SizesAre DEF SlotsIn
  <2>2. LeafSlot[k] \in SlotsIn(g, j) /\ At(g, j, LeafSlot[k]) = At(fs, j, LeafSlot[k])
    <3>1. CASE j = i
      BY <1>3, <1>5, <2>1, <3>1
    <3>2. CASE j # i
      BY <1>4, <2>1, <3>2
    <3>3. QED
      BY <3>1, <3>2
  <2>3. g.block[At(g, j, LeafSlot[k])] = fs.block[At(g, j, LeafSlot[k])]
    BY <1>2, <1>3, <2>1, <2>2
  <2>4. QED
    BY <2>2, <2>3
<1>8. ASSUME NEW k \in Nat, k < n, ~(k < m), NEW c \in CellIndex
      PROVE  g.block[At(g, i, LeafSlot[k])][c] = Zero
  <2>1. LeafSlot[k] \in SlotsFor(n) /\ ~Inner(LeafSlot[k]) /\ LeafSlot[k] \notin SlotsFor(m)
    BY <1>6, <1>8, LeafIn
  <2>2. At(g, i, LeafSlot[k]) \in g.dbits \ fs.dbits /\ g.dbits \subseteq DataArea
    BY <1>3, <1>5, <2>1, FsParts
  <2>3. g.block[At(g, i, LeafSlot[k])] = fs.block[At(g, i, LeafSlot[k])]
    BY <1>2, <1>3, <1>5, <2>1
  <2>4. fs.block[At(g, i, LeafSlot[k])] = ZeroBlock
    BY <1>1, <2>2 DEF FsZero
  <2>5. QED
    BY <2>3, <2>4 DEF ZeroBlock, CellIndex
<1>9. FsTail(g)
  <2> SUFFICES ASSUME NEW j \in g.ibits, NEW k \in Nat, NEW c \in CellIndex,
                      k < DataBlocks(g.inode[j].size), k * Cells + c >= g.inode[j].size
               PROVE  g.block[At(g, j, LeafSlot[k])][c] = Zero
    BY DEF FsTail
  <2>1. CASE j = i
    <3>1. k < n /\ k * Cells + c >= size
      BY <1>3, <2>1 DEF n
    <3>2. CASE k < m
      <4>1. k * Cells + c \in Nat
        BY Numbers DEF CellIndex
      <4>2. k * Cells + c >= fs.inode[i].size
        BY <1>6, <3>1, <4>1
      <4>3. fs.block[At(fs, i, LeafSlot[k])][c] = Zero
        BY <1>1, <3>2, <4>2 DEF FsTail, m
      <4>4. g.block[At(g, i, LeafSlot[k])] = fs.block[At(fs, i, LeafSlot[k])]
        BY <1>7, <3>2 DEF m
      <4>5. QED
        BY <2>1, <4>3, <4>4
    <3>3. CASE ~(k < m)
      BY <1>8, <2>1, <3>1, <3>3
    <3>4. QED
      BY <3>2, <3>3
  <2>2. CASE j # i
    <3>1. j \in fs.ibits /\ g.inode[j] = fs.inode[j]
      BY <1>3, <1>4, <2>2
    <3>2. fs.block[At(fs, j, LeafSlot[k])][c] = Zero
      BY <1>1, <3>1 DEF FsTail
    <3>3. g.block[At(g, j, LeafSlot[k])] = fs.block[At(fs, j, LeafSlot[k])]
      BY <1>7, <3>1
    <3>4. QED
      BY <3>2, <3>3
  <2>3. QED
    BY <2>1, <2>2
<1>10. ASSUME NEW j \in fs.ibits, NEW o \in Nat, o < fs.inode[j].size
       PROVE  Cell(g, j, o) = Cell(fs, j, o)
  <2>1. fs.inode[j].size \in Nat
    BY <1>1, SizesAre
  <2>2. o \div Cells \in Nat /\ o \div Cells < DataBlocks(fs.inode[j].size)
    BY <1>10, <2>1, CellInside
  <2>3. QED
    BY <1>7, <2>2 DEF Cell, GetBlockId
<1>11. ASSUME NEW o \in Nat, fs.inode[i].size =< o, o < size PROVE Cell(g, i, o) = Zero
  <2> DEFINE k == o \div Cells
             c == o % Cells
  <2>1. k \in Nat /\ k < n /\ c \in CellIndex /\ o = k * Cells + c
    BY <1>11, CellInside DEF n
  <2>2. Cell(g, i, o) = g.block[At(g, i, LeafSlot[k])][c]
    BY DEF Cell, GetBlockId
  <2> HIDE DEF k, c
  <2>3. CASE k < m
    <3>1. k * Cells + c >= fs.inode[i].size
      BY <1>6, <1>11, <2>1
    <3>2. fs.block[At(fs, i, LeafSlot[k])][c] = Zero
      BY <1>1, <2>1, <2>3, <3>1 DEF FsTail, m
    <3>3. QED
      BY <1>7, <2>1, <2>2, <2>3, <3>2 DEF m
  <2>4. CASE ~(k < m)
    BY <1>8, <2>1, <2>2, <2>4
  <2>5. QED
    BY <2>3, <2>4
<1>12. FsOK(g)
  BY <1>2, <1>9 DEF FsOK
<1>13. QED
  BY <1>10, <1>11, <1>12

-------------------------------------------------------------------------------
(* The place in a file of cell c of its data block l.                      *)
Place(l, c) == l * Cells + c

(* No place is in two cells.                                               *)
LEMMA PlaceApart ==
  ASSUME NEW l \in Nat, NEW k \in Nat, NEW c \in CellIndex, NEW d \in CellIndex,
         Place(l, c) = Place(k, d)
  PROVE  l = k /\ c = d
BY DivUnique DEF Place

(* Every place is in one cell of one data block.                           *)
LEMMA PlaceIs ==
  /\ \A l \in Nat, c \in CellIndex : Place(l, c) \in Nat
  /\ \A o \in Nat : /\ o \div Cells \in Nat /\ o % Cells \in CellIndex
                    /\ Place(o \div Cells, o % Cells) = o
  /\ \A l, k \in Nat, c, d \in CellIndex : Place(l, c) = Place(k, d) => l = k /\ c = d
<1>1. \A l \in Nat, c \in CellIndex : Place(l, c) \in Nat
  BY Numbers DEF Place, CellIndex
<1>2. ASSUME NEW o \in Nat
      PROVE  /\ o \div Cells \in Nat /\ o % Cells \in CellIndex
             /\ Place(o \div Cells, o % Cells) = o
  BY DivCells DEF Place
<1>3. ASSUME NEW l \in Nat, NEW k \in Nat, NEW c \in CellIndex, NEW d \in CellIndex,
             Place(l, c) = Place(k, d)
      PROVE  l = k /\ c = d
  BY <1>3, PlaceApart
<1>4. QED
  BY <1>1, <1>2, <1>3

(* The data blocks of a file.                                              *)
Leaves(fs, i) == 0 .. DataBlocks(fs.inode[i].size) - 1

(* The data block a cell belongs to is in no other place of a tree.        *)
LEMMA LeavesApart ==
  ASSUME NEW fs, FsOK(fs), NEW i \in fs.ibits, NEW k \in Leaves(fs, i)
  PROVE  /\ GetBlockId(fs, i, k) \in fs.dbits /\ GetBlockId(fs, i, k) \in DataArea
         /\ \A l \in Leaves(fs, i) : GetBlockId(fs, i, l) = GetBlockId(fs, i, k) => l = k
         /\ \A j \in fs.ibits : \A s \in SlotsIn(fs, j) :
                At(fs, j, s) = GetBlockId(fs, i, k) => j = i /\ ~Inner(s)
         /\ \A j \in fs.ibits : \A l \in Leaves(fs, j) :
                GetBlockId(fs, j, l) = GetBlockId(fs, i, k) => j = i /\ l = k
<1>1. FsShape(fs) /\ FsTrees(fs) /\ FsApart(fs) /\ fs \in Fs /\ fs.dbits \subseteq DataArea
  BY FsParts DEF FsOK, FsShape
<1>2. ASSUME NEW j \in fs.ibits, NEW l \in Leaves(fs, j)
      PROVE  /\ l \in Nat /\ LeafSlot[l] \in SlotsIn(fs, j) /\ ~Inner(LeafSlot[l])
             /\ Need(LeafSlot[l]) = l
  <2>1. /\ DataBlocks(fs.inode[j].size) \in 0 .. INDIRECT2_BOUND
    BY <1>1, SizesAre
  <2>2. l \in Nat /\ l < DataBlocks(fs.inode[j].size) /\ l \in 0 .. INDIRECT2_BOUND - 1
    BY <2>1, Numbers DEF Leaves
  <2>3. QED
    BY <2>1, <2>2, LeafIn, LeafSlotIs DEF SlotsIn
<1>3. ASSUME NEW j \in fs.ibits, NEW s \in SlotsIn(fs, j), At(fs, j, s) = GetBlockId(fs, i, k)
      PROVE  j = i /\ ~Inner(s) /\ s = LeafSlot[k]
  BY <1>1, <1>2, <1>3 DEF FsApart, GetBlockId
<1>4. ASSUME NEW j \in fs.ibits, NEW l \in Leaves(fs, j), GetBlockId(fs, j, l) = GetBlockId(fs, i, k)
      PROVE  j = i /\ l = k
  <2>1. At(fs, j, LeafSlot[l]) = GetBlockId(fs, i, k)
    BY <1>4 DEF GetBlockId
  <2>2. j = i /\ LeafSlot[l] = LeafSlot[k]
    BY <1>2, <1>3, <2>1
  <2>3. QED
    BY <1>2, <2>2
<1>5. GetBlockId(fs, i, k) \in fs.dbits
  BY <1>1, <1>2 DEF FsTrees, GetBlockId
<1>6. QED
  BY <1>1, <1>3, <1>4, <1>5

(* h is fs with the first k cells of buf written at offset to the file.    *)
Wrote(h, fs, i, offset, buf, k) ==
    /\ h \in Fs /\ h.ibits = fs.ibits /\ h.dbits = fs.dbits /\ h.inode = fs.inode
    /\ \A b \in DataArea : h.block[b] = fs.block[b] \/ \E l \in Leaves(fs, i) : b = GetBlockId(fs, i, l)
    /\ \A l \in Leaves(fs, i), c \in CellIndex :
          h.block[GetBlockId(fs, i, l)][c] =
             IF offset =< Place(l, c) /\ Place(l, c) < offset + k THEN buf[(Place(l, c) - offset) + 1]
             ELSE fs.block[GetBlockId(fs, i, l)][c]

(* One cell more.                                                          *)
LEMMA WriteOne ==
  ASSUME NEW fs, FsOK(fs), NEW i \in fs.ibits, NEW offset \in Nat, NEW buf \in Seq(Values),
         offset + Len(buf) =< fs.inode[i].size,
         NEW k \in 1 .. Len(buf), NEW g, Wrote(g, fs, i, offset, buf, k - 1),
         NEW h, h = WriteNext(fs, i, offset, buf, g, k)
  PROVE  Wrote(h, fs, i, offset, buf, k)
<1> DEFINE o == offset + k - 1
           a == o \div Cells
           d == o % Cells
           B == GetBlockId(fs, i, a)
<1>1. FsShape(fs) /\ fs.inode[i].size \in Nat /\ DataBlocks(fs.inode[i].size) \in Nat
  BY SizesAre DEF FsOK
<1>2. o \in Nat /\ o < fs.inode[i].size /\ o = offset + (k - 1)
  BY <1>1
<1>3. a \in Nat /\ d \in CellIndex /\ a < DataBlocks(fs.inode[i].size) /\ Place(a, d) = o
  <2> HIDE DEF o
  <2>1. QED
    BY <1>1, <1>2, CellInside, PlaceIs
<1>4. h = Assign(g, B, d, buf[k])
  BY DEF WriteNext
<1> HIDE DEF o, a, d, B
<1>5. a \in Leaves(fs, i)
  BY <1>1, <1>3 DEF Leaves
<1>6. /\ B \in DataArea /\ \A l \in Leaves(fs, i) : GetBlockId(fs, i, l) = B => l = a
      /\ \A l \in Leaves(fs, i) : GetBlockId(fs, i, l) \in DataArea
  BY <1>5, LeavesApart DEF B
<1>7. buf[k] \in Values
  OBVIOUS
<1>8. /\ g \in Fs /\ g.ibits = fs.ibits /\ g.dbits = fs.dbits /\ g.inode = fs.inode
      /\ \A b \in DataArea : g.block[b] = fs.block[b] \/ \E l \in Leaves(fs, i) : b = GetBlockId(fs, i, l)
      /\ \A l \in Leaves(fs, i), c \in CellIndex :
            g.block[GetBlockId(fs, i, l)][c] =
               IF offset =< Place(l, c) /\ Place(l, c) < offset + (k - 1)
               THEN buf[(Place(l, c) - offset) + 1]
               ELSE fs.block[GetBlockId(fs, i, l)][c]
  BY DEF Wrote
<1>9. /\ h \in Fs /\ h.ibits = g.ibits /\ h.dbits = g.dbits /\ h.inode = g.inode
      /\ h.block[B][d] = buf[k]
      /\ \A c \in CellIndex : c # d => h.block[B][c] = g.block[B][c]
      /\ \A b \in DataArea : b # B => h.block[b] = g.block[b]
  BY ONLY <1>3, <1>4, <1>6, <1>7, <1>8, SetCell
<1>10. ASSUME NEW b \in DataArea
       PROVE  h.block[b] = fs.block[b] \/ \E l \in Leaves(fs, i) : b = GetBlockId(fs, i, l)
  BY <1>5, <1>8, <1>9 DEF B
<1>11. ASSUME NEW l \in Leaves(fs, i), NEW c \in CellIndex
       PROVE  h.block[GetBlockId(fs, i, l)][c] =
                 IF offset =< Place(l, c) /\ Place(l, c) < offset + k
                 THEN buf[(Place(l, c) - offset) + 1]
                 ELSE fs.block[GetBlockId(fs, i, l)][c]
  <2>1. l \in Nat /\ Place(l, c) \in Nat
    BY <1>1, PlaceIs DEF Leaves
  <2>2. CASE l = a /\ c = d
    <3>1. Place(l, c) = offset + (k - 1)
      BY <1>2, <1>3, <2>2
    <3>2. offset =< Place(l, c) /\ Place(l, c) < offset + k /\ (Place(l, c) - offset) + 1 = k
      BY <2>1, <3>1
    <3>3. h.block[GetBlockId(fs, i, l)][c] = buf[k]
      BY <1>9, <2>2 DEF B
    <3>4. QED
      BY <3>2, <3>3
  <2>3. CASE ~(l = a /\ c = d)
    <3>1. Place(l, c) # o
      <4>1. Place(l, c) = Place(a, d) => l = a /\ c = d
        BY ONLY <1>3, <2>1, c \in CellIndex, PlaceApart
      <4>2. QED
        BY ONLY <1>3, <2>3, <4>1
    <3>2. Place(l, c) < offset + k <=> Place(l, c) < offset + (k - 1)
      BY <1>2, <2>1, <3>1
    <3>3. h.block[GetBlockId(fs, i, l)][c] = g.block[GetBlockId(fs, i, l)][c]
      BY <1>6, <1>9, <2>3
    <3>4. QED
      BY <1>8, <3>2, <3>3
  <2>4. QED
    BY <2>2, <2>3
<1>12. QED
  BY ONLY <1>8, <1>9, <1>10, <1>11 DEF Wrote

(* All of the cells.                                                       *)
LEMMA WriteAll ==
  ASSUME NEW fs, FsOK(fs), NEW i \in fs.ibits, NEW offset \in Nat, NEW buf \in Seq(Values),
         offset + Len(buf) =< fs.inode[i].size
  PROVE  Wrote(WriteAt(fs, i, offset, buf), fs, i, offset, buf, Len(buf))
<1> DEFINE N == Len(buf)
<1>0. N \in Nat
  OBVIOUS
<1>1. PICK f : /\ f[0] = fs /\ WriteAt(fs, i, offset, buf) = f[N]
               /\ \A k \in 1 .. N : f[k] = WriteNext(fs, i, offset, buf, f[k - 1], k)
  BY <1>0, WriteSteps
<1> DEFINE T == {k \in 0 .. N : ~Wrote(f[k], fs, i, offset, buf, k)}
<1>2. Wrote(f[0], fs, i, offset, buf, 0)
  <2>1. fs \in Fs
    BY DEF FsOK, FsShape
  <2>2. ASSUME NEW l \in Leaves(fs, i), NEW c \in CellIndex
        PROVE  ~(offset =< Place(l, c) /\ Place(l, c) < offset + 0)
    <3>1. DataBlocks(fs.inode[i].size) \in Nat
      BY SizesAre DEF FsOK
    <3>2. Place(l, c) \in Nat
      BY <3>1, PlaceIs DEF Leaves
    <3>3. QED
      BY <3>2
  <2>3. QED
    BY <1>1, <2>1, <2>2 DEF Wrote
<1>3. T = {}
  <2> SUFFICES ASSUME T # {} PROVE FALSE
    OBVIOUS
  <2>1. PICK k \in T : \A y \in T : k =< y
    <3>1. T \subseteq Nat
      OBVIOUS
    <3>2. QED
      BY <3>1, Least
  <2>2. k # 0
    BY <1>2, <2>1
  <2>3. k \in 1 .. N /\ k - 1 \in 0 .. N /\ ~(k =< k - 1)
    BY <1>0, <2>2
  <2>4. Wrote(f[k - 1], fs, i, offset, buf, k - 1) /\ f[k] = WriteNext(fs, i, offset, buf, f[k - 1], k)
    BY <1>1, <2>1, <2>3
  <2>5. Wrote(f[k], fs, i, offset, buf, k)
    BY <2>3, <2>4, WriteOne
  <2>6. QED
    BY <2>1, <2>5
<1>4. Wrote(f[N], fs, i, offset, buf, N)
  BY <1>0, <1>3
<1>5. QED
  BY <1>1, <1>4

(* write_at inside the size of a file changes the cells it writes and      *)
(* nothing else.                                                           *)
LEMMA WrittenCells ==
  ASSUME NEW fs, FsOK(fs), NEW i \in fs.ibits, NEW offset \in Nat, NEW N \in Nat, NEW buf,
         offset + N =< fs.inode[i].size, NEW g, Wrote(g, fs, i, offset, buf, N)
  PROVE  /\ FsOK(g) /\ g.ibits = fs.ibits /\ g.inode = fs.inode
         /\ \A j \in fs.ibits : \A o \in Nat :
                o < fs.inode[j].size =>
                   Cell(g, j, o) = IF j = i /\ offset =< o /\ o < offset + N
                                   THEN buf[(o - offset) + 1] ELSE Cell(fs, j, o)
<1>1. /\ FsShape(fs) /\ FsTrees(fs) /\ FsApart(fs) /\ FsNoLeak(fs) /\ FsZero(fs) /\ FsTail(fs)
      /\ fs \in Fs /\ Root \in fs.ibits /\ fs.dbits \subseteq DataArea /\ fs.ibits \subseteq Inodes
  BY FsParts DEF FsOK, FsShape
<1>2. /\ g \in Fs /\ g.ibits = fs.ibits /\ g.dbits = fs.dbits /\ g.inode = fs.inode
      /\ \A b \in DataArea : g.block[b] = fs.block[b] \/ \E l \in Leaves(fs, i) : b = GetBlockId(fs, i, l)
      /\ \A l \in Leaves(fs, i), c \in CellIndex :
            g.block[GetBlockId(fs, i, l)][c] =
               IF offset =< Place(l, c) /\ Place(l, c) < offset + N
               THEN buf[(Place(l, c) - offset) + 1]
               ELSE fs.block[GetBlockId(fs, i, l)][c]
  BY DEF Wrote
<1>3. \A j \in fs.ibits : SlotsIn(g, j) = SlotsIn(fs, j) /\ Leaves(g, j) = Leaves(fs, j)
  BY <1>2 DEF SlotsIn, Leaves
<1>4. ASSUME NEW j \in fs.ibits PROVE \A s \in SlotsIn(fs, j) : At(g, j, s) = At(fs, j, s)
  <2>1. Whole(SlotsIn(fs, j))
    BY <1>1, SizesAre
  <2>2. ASSUME NEW s \in SlotsIn(fs, j), Inner(s)
        PROVE  g.block[At(fs, j, s)] = fs.block[At(fs, j, s)]
    <3>1. At(fs, j, s) \in DataArea
      BY <1>1 DEF FsTrees
    <3>2. \A l \in Leaves(fs, i) : At(fs, j, s) # GetBlockId(fs, i, l)
      BY <2>2, LeavesApart
    <3>3. QED
      BY <1>2, <3>1, <3>2
  <2>3. g.inode[j].ptr = fs.inode[j].ptr
    BY <1>2
  <2>4. \A s \in SlotsIn(fs, j) : Inner(s) => g.block[At(fs, j, s)] = fs.block[At(fs, j, s)]
    BY <2>2
  <2>5. QED
    BY ONLY <2>1, <2>3, <2>4, AtStays
<1>5. ASSUME NEW j \in fs.ibits, NEW l \in Leaves(fs, j)
      PROVE  /\ l \in Nat /\ LeafSlot[l] \in SlotsIn(fs, j)
             /\ GetBlockId(g, j, l) = GetBlockId(fs, j, l)
  <2>1. DataBlocks(fs.inode[j].size) \in 0 .. INDIRECT2_BOUND
    BY <1>1, SizesAre
  <2>2. l \in Nat /\ l < DataBlocks(fs.inode[j].size)
    BY <2>1 DEF Leaves
  <2>3. LeafSlot[l] \in SlotsIn(fs, j)
    BY <2>1, <2>2, LeafIn DEF SlotsIn
  <2>4. QED
    BY <1>4, <2>2, <2>3 DEF GetBlockId
<1>6. ASSUME NEW j \in fs.ibits, NEW l \in Leaves(fs, j), NEW c \in CellIndex
      PROVE  g.block[GetBlockId(g, j, l)][c] =
                IF j = i /\ offset =< Place(l, c) /\ Place(l, c) < offset + N
                THEN buf[(Place(l, c) - offset) + 1]
                ELSE fs.block[GetBlockId(fs, j, l)][c]
  <2>1. CASE j = i
    BY <1>2, <1>5, <2>1
  <2>2. CASE j # i
    <3>1. GetBlockId(fs, j, l) \in DataArea
      BY LeavesApart
    <3>2. \A k \in Leaves(fs, i) : GetBlockId(fs, j, l) # GetBlockId(fs, i, k)
      BY <2>2, LeavesApart
    <3>3. QED
      BY <1>2, <1>5, <2>2, <3>1, <3>2
  <2>3. QED
    BY <2>1, <2>2
<1>7. FsShape(g) /\ FsTrees(g) /\ FsApart(g) /\ FsNoLeak(g)
  <2>1. FsShape(g)
    BY <1>1, <1>2 DEF FsShape
  <2>2. FsTrees(g)
    BY <1>1, <1>2, <1>3, <1>4 DEF FsTrees
  <2>3. FsApart(g)
    BY <1>1, <1>2, <1>3, <1>4 DEF FsApart
  <2>4. FsNoLeak(g)
    BY <1>1, <1>2, <1>3, <1>4 DEF FsNoLeak
  <2>5. QED
    BY <2>1, <2>2, <2>3, <2>4
<1>8. FsZero(g)
  <2>1. \A l \in Leaves(fs, i) : GetBlockId(fs, i, l) \in fs.dbits
    BY LeavesApart
  <2>2. QED
    BY <1>1, <1>2, <2>1 DEF FsZero
<1>9. FsTail(g)
  <2> SUFFICES ASSUME NEW j \in g.ibits, NEW k \in Nat, NEW c \in CellIndex,
                      k < DataBlocks(g.inode[j].size), k * Cells + c >= g.inode[j].size
               PROVE  g.block[At(g, j, LeafSlot[k])][c] = Zero
    BY DEF FsTail
  <2>0. fs.inode[j].size \in Nat /\ DataBlocks(fs.inode[j].size) \in Nat /\ j \in fs.ibits
    BY <1>1, <1>2, SizesAre
  <2>1. k \in Leaves(fs, j)
    BY <1>2, <2>0 DEF Leaves
  <2>2. Place(k, c) >= fs.inode[j].size /\ Place(k, c) \in Nat
    BY <1>2, PlaceIs DEF Place
  <2>3. ~(j = i /\ offset =< Place(k, c) /\ Place(k, c) < offset + N)
    BY <2>0, <2>2
  <2>4. g.block[GetBlockId(g, j, k)][c] = fs.block[GetBlockId(fs, j, k)][c]
    BY <1>6, <2>0, <2>1, <2>3
  <2>5. fs.block[At(fs, j, LeafSlot[k])][c] = Zero
    BY <1>1, <1>2, <2>0 DEF FsTail
  <2>6. QED
    BY <2>4, <2>5 DEF GetBlockId
<1>10. ASSUME NEW j \in fs.ibits, NEW o \in Nat, o < fs.inode[j].size
       PROVE  Cell(g, j, o) = IF j = i /\ offset =< o /\ o < offset + N
                              THEN buf[(o - offset) + 1] ELSE Cell(fs, j, o)
  <2> DEFINE k == o \div Cells
             c == o % Cells
  <2>1. fs.inode[j].size \in Nat /\ DataBlocks(fs.inode[j].size) \in Nat
    BY <1>1, SizesAre
  <2>2. k \in Nat /\ k < DataBlocks(fs.inode[j].size) /\ c \in CellIndex /\ Place(k, c) = o
    BY <1>10, <2>1, CellInside, PlaceIs
  <2>3. /\ Cell(g, j, o) = g.block[GetBlockId(g, j, k)][c]
        /\ Cell(fs, j, o) = fs.block[GetBlockId(fs, j, k)][c]
    BY DEF Cell
  <2> HIDE DEF k, c
  <2>4. k \in Leaves(fs, j)
    BY <2>1, <2>2 DEF Leaves
  <2>5. QED
    BY <1>6, <2>2, <2>3, <2>4
<1>11. FsOK(g)
  BY <1>7, <1>8, <1>9 DEF FsOK
<1>12. QED
  BY <1>2, <1>10, <1>11

(* An increase that is not stopped stays inside indirect2.                 *)
LEMMA GrownFits ==
  ASSUME NEW fs, FsShape(fs), NEW i \in fs.ibits, NEW size \in Nat,
         DataBlocks(size) =< INDIRECT2_BOUND \/ StopIncrease(fs, i, size) = "no"
  PROVE  size =< MaxCells
<1>1. fs.inode[i].size \in Nat /\ fs.inode[i].size =< MaxCells /\ MaxCells \in Nat
  BY SizesAre, Numbers DEF MaxCells
<1>2. CASE size < fs.inode[i].size
  BY <1>1, <1>2
<1>3. CASE ~(size < fs.inode[i].size)
  <2>1. DataBlocks(size) \in Nat /\ size =< DataBlocks(size) * Cells
    BY DataBlocksAre
  <2>2. DataBlocks(size) =< INDIRECT2_BOUND
    BY <1>3, <2>1, Numbers DEF StopIncrease
  <2> HIDE DEF MaxCells
  <2>3. DataBlocks(size) * Cells =< INDIRECT2_BOUND * Cells
    <3>1. PICK d \in Nat : INDIRECT2_BOUND = DataBlocks(size) + d
      <4>1. INDIRECT2_BOUND - DataBlocks(size) \in Nat
        BY <2>1, <2>2, Numbers
      <4>2. INDIRECT2_BOUND = DataBlocks(size) + (INDIRECT2_BOUND - DataBlocks(size))
        BY <2>1, Numbers
      <4>3. QED
        BY <4>1, <4>2
    <3>2. /\ INDIRECT2_BOUND * Cells = DataBlocks(size) * Cells + d * Cells
          /\ d * Cells \in Nat /\ DataBlocks(size) * Cells \in Nat
      BY <2>1, <3>1, Numbers
    <3>3. QED
      BY <3>2
  <2>4. QED
    BY <1>1, <2>1, <2>3, Numbers DEF MaxCells
<1>4. QED
  BY <1>2, <1>3

(* The list of new blocks is never used up before every slot has one.      *)
LEMMA IncreaseNeverShort ==
  ASSUME NEW fs, FsShape(fs), NEW i \in fs.ibits, NEW size \in Nat
  PROVE  StopIncrease(fs, i, size) # "assertion"
<1>1. fs.inode[i].size \in Nat
  BY SizesAre
<1>2. CASE size < fs.inode[i].size
  BY <1>2 DEF StopIncrease
<1>3. CASE ~(size < fs.inode[i].size) /\ DataBlocks(size) =< INDIRECT2_BOUND
  <2>1. fs.inode[i].size =< size /\ size =< MaxCells
    BY <1>1, <1>3, GrownFits
  <2>2. Len(NewSlots(fs, i, size)) = Needed(fs, i, size) /\ Needed(fs, i, size) \in Nat
    BY <2>1, NeededIs
  <2>3. ~(Needed(fs, i, size) < Len(NewSlots(fs, i, size)))
    BY <2>2
  <2>4. QED
    BY <1>3, <2>3 DEF StopIncrease, NewSlots
<1>4. CASE ~(DataBlocks(size) =< INDIRECT2_BOUND)
  <2>1. DataBlocks(size) \in Nat
    BY DataBlocksAre
  <2>2. DataBlocks(size) > INDIRECT2_BOUND
    BY <1>4, <2>1, Numbers
  <2>3. QED
    BY <2>2 DEF StopIncrease
<1>5. QED
  BY <1>2, <1>3, <1>4

(* g is fs with buf written to the file of i at offset.                    *)
WroteFile(fs, g, i, offset, buf) ==
    LET end == offset + Len(buf)
    IN  /\ FsOK(g) /\ g.ibits = fs.ibits
        /\ g.inode[i].size = IF fs.inode[i].size < end THEN end ELSE fs.inode[i].size
        /\ \A j \in Inodes : j # i => g.inode[j] = fs.inode[j]
        /\ \A j \in fs.ibits : \A o \in Nat :
              o < g.inode[j].size =>
                Cell(g, j, o) = IF j = i /\ offset =< o /\ o < end THEN buf[(o - offset) + 1]
                                ELSE IF o < fs.inode[j].size THEN Cell(fs, j, o) ELSE Zero

(* Inode::write_at.                                                        *)
LEMMA WriteGives ==
  ASSUME NEW fs, FsOK(fs), NEW i \in fs.ibits, NEW offset \in Nat, NEW buf \in Seq(Values),
         StopIncrease(fs, i, offset + Len(buf)) = "no"
  PROVE  WroteFile(fs, Write(fs, i, offset, buf), i, offset, buf)
<1> DEFINE N == Len(buf)
           end == offset + N
           h == IncreaseSize(fs, i, end)
           g == Write(fs, i, offset, buf)
<1>1. FsShape(fs) /\ fs.ibits \subseteq Inodes
  BY FsParts DEF FsOK, FsShape
<1>2. N \in Nat /\ end \in Nat
  OBVIOUS
<1>3. fs.inode[i].size \in Nat /\ \A j \in fs.ibits : fs.inode[j].size \in Nat
  BY <1>1, SizesAre
<1>4. g = WriteAt(h, i, offset, buf)
  BY DEF Write
<1> HIDE DEF h, g
<1>5. /\ FsOK(h) /\ h.ibits = fs.ibits
      /\ h.inode[i].size = IF fs.inode[i].size < end THEN end ELSE fs.inode[i].size
      /\ \A j \in Inodes : j # i => h.inode[j] = fs.inode[j]
      /\ \A j \in fs.ibits : \A o \in Nat : o < h.inode[j].size =>
            Cell(h, j, o) = IF o < fs.inode[j].size THEN Cell(fs, j, o) ELSE Zero
  <2>1. CASE end < fs.inode[i].size
    <3>1. h = fs
      BY <2>1 DEF h, IncreaseSize
    <3>2. ~(fs.inode[i].size < end)
      BY <1>2, <1>3, <2>1
    <3>3. QED
      BY <3>1, <3>2
  <2>2. CASE ~(end < fs.inode[i].size)
    <3>1. fs.inode[i].size =< end
      BY <1>2, <1>3, <2>2
    <3>0. end =< MaxCells
      BY <1>1, <1>2, GrownFits
    <3>2. Grown(fs, h, i, end)
      BY <1>2, <3>0, <3>1, IncreaseGrows DEF h
    <3>3. /\ FsOK(h)
          /\ \A j \in fs.ibits : \A o \in Nat :
                 o < fs.inode[j].size => Cell(h, j, o) = Cell(fs, j, o)
          /\ \A o \in Nat : fs.inode[i].size =< o /\ o < end => Cell(h, i, o) = Zero
      BY <1>2, <3>0, <3>1, <3>2, GrownCells
    <3>4. /\ h.ibits = fs.ibits /\ h.inode[i].size = end
          /\ \A j \in Inodes : j # i => h.inode[j] = fs.inode[j]
      BY <3>2 DEF Grown
    <3>5. h.inode[i].size = IF fs.inode[i].size < end THEN end ELSE fs.inode[i].size
      BY <1>2, <1>3, <3>1, <3>4
    <3>6. ASSUME NEW j \in fs.ibits, NEW o \in Nat, o < h.inode[j].size
          PROVE  Cell(h, j, o) = IF o < fs.inode[j].size THEN Cell(fs, j, o) ELSE Zero
      <4>1. CASE o < fs.inode[j].size
        BY <3>3, <4>1
      <4>2. CASE ~(o < fs.inode[j].size)
        <5>1. j = i
          BY <1>1, <3>4, <3>6, <4>2
        <5>2. fs.inode[i].size =< o /\ o < end
          BY <1>3, <3>4, <3>6, <4>2, <5>1
        <5>3. QED
          BY <3>3, <4>2, <5>1, <5>2
      <4>3. QED
        BY <4>1, <4>2
    <3>7. QED
      BY <3>3, <3>4, <3>5, <3>6
  <2>3. QED
    BY <2>1, <2>2
<1>6. end =< h.inode[i].size
  BY <1>2, <1>3, <1>5
<1>7. Wrote(g, h, i, offset, buf, N)
  BY <1>4, <1>5, <1>6, WriteAll
<1>8. /\ FsOK(g) /\ g.ibits = h.ibits /\ g.inode = h.inode
      /\ \A j \in h.ibits : \A o \in Nat :
             o < h.inode[j].size =>
                Cell(g, j, o) = IF j = i /\ offset =< o /\ o < end
                                THEN buf[(o - offset) + 1] ELSE Cell(h, j, o)
  BY <1>2, <1>5, <1>6, <1>7, WrittenCells
<1>9. ASSUME NEW j \in fs.ibits, NEW o \in Nat, o < g.inode[j].size
      PROVE  Cell(g, j, o) = IF j = i /\ offset =< o /\ o < end THEN buf[(o - offset) + 1]
                             ELSE IF o < fs.inode[j].size THEN Cell(fs, j, o) ELSE Zero
  <2>1. o < h.inode[j].size /\ j \in h.ibits
    BY <1>5, <1>8, <1>9
  <2>2. Cell(h, j, o) = IF o < fs.inode[j].size THEN Cell(fs, j, o) ELSE Zero
    BY <1>5, <2>1
  <2>3. Cell(g, j, o) = IF j = i /\ offset =< o /\ o < end
                        THEN buf[(o - offset) + 1] ELSE Cell(h, j, o)
    BY <1>8, <2>1
  <2>4. QED
    BY <2>2, <2>3
<1>10. QED
  BY ONLY <1>5, <1>8, <1>9 DEF WroteFile, g

-------------------------------------------------------------------------------
(* The blocks of a file.                                                   *)
Owned(fs, i) == {At(fs, i, s) : s \in SlotsIn(fs, i)}

(* clear_size collects every block of the file once, as many as            *)
(* total_blocks says.                                                      *)
LEMMA BlocksOfAre ==
  ASSUME NEW fs, FsOK(fs), NEW i \in fs.ibits
  PROVE  LET v == BlocksOf(fs, i) IN
         /\ ToSet(v) = Owned(fs, i) /\ ToSet(v) \subseteq fs.dbits
         /\ DOMAIN v = 1 .. Len(v) /\ Len(v) = TotalBlocks(fs.inode[i].size)
         /\ \A k, l \in DOMAIN v : k # l => v[k] # v[l]
         /\ Cardinality(ToSet(v)) = TotalBlocks(fs.inode[i].size)
<1> DEFINE n == DataBlocks(fs.inode[i].size)
           r == Slots(0, n)
           v == BlocksOf(fs, i)
<1>1. FsShape(fs) /\ FsTrees(fs) /\ FsApart(fs)
  BY DEF FsOK
<1>2. n \in 0 .. INDIRECT2_BOUND /\ 0 \in 0 .. INDIRECT2_BOUND /\ SlotsIn(fs, i) = SlotsFor(n)
  BY <1>1, SizesAre, Numbers DEF SlotsIn
<1>3. TotalBlocks(fs.inode[i].size) = Total(n)
  BY DEF TotalBlocks, Total
<1>4. v = [k \in DOMAIN r |-> At(fs, i, r[k])]
  BY DEF BlocksOf
<1> HIDE DEF n, v
<1>5. ListsBetween(r, 0, n)
  BY ONLY <1>2, SlotsBetween
<1> HIDE DEF r
<1>6. SlotsFor(0) = {}
  BY FrontFacts DEF SlotsFor
<1>7. Total(0) = 0
  BY Numbers DEF Total
<1>8. /\ r \in Seq(Slot) /\ Total(n) \in Nat /\ Len(r) = Total(n) /\ DOMAIN r = 1 .. Len(r)
      /\ \A s : (\E j \in 1 .. Len(r) : r[j] = s) <=> s \in SlotsFor(n)
      /\ \A k, l \in 1 .. Len(r) : r[k] = r[l] => k = l
  BY <1>5, <1>6, <1>7 DEF ListsBetween
<1>9. /\ DOMAIN v = 1 .. Total(n) /\ Len(v) = Total(n)
      /\ \A k \in 1 .. Total(n) : v[k] = At(fs, i, r[k]) /\ r[k] \in SlotsIn(fs, i)
  BY <1>2, <1>4, <1>8
<1>10. ToSet(v) = Owned(fs, i)
  <2>1. ASSUME NEW b \in ToSet(v) PROVE b \in Owned(fs, i)
    BY <1>9 DEF ToSet, Owned
  <2>2. ASSUME NEW b \in Owned(fs, i) PROVE b \in ToSet(v)
    <3>1. PICK s \in SlotsIn(fs, i) : b = At(fs, i, s)
      BY DEF Owned
    <3>2. PICK k \in 1 .. Len(r) : r[k] = s
      BY <1>2, <1>8, <3>1
    <3>3. QED
      BY <1>8, <1>9, <3>1, <3>2 DEF ToSet
  <2>3. QED
    BY <2>1, <2>2
<1>11. Owned(fs, i) \subseteq fs.dbits
  BY <1>1 DEF FsTrees, Owned
<1>12. ASSUME NEW k \in DOMAIN v, NEW l \in DOMAIN v, v[k] = v[l] PROVE k = l
  <2>1. r[k] = r[l]
    BY <1>1, <1>9, <1>12 DEF FsApart
  <2>2. QED
    BY <1>8, <1>9, <2>1
<1>13. Cardinality(ToSet(v)) = Total(n)
  <2>1. v \in [1 .. Total(n) -> ToSet(v)]
    BY <1>4, <1>8, <1>9 DEF ToSet
  <2>2. v \in Surjection(1 .. Total(n), ToSet(v))
    BY <1>9, <2>1 DEF ToSet, Surjection
  <2>3. v \in Injection(1 .. Total(n), ToSet(v))
    BY <1>9, <1>12, <2>1 DEF Injection, IsInjective
  <2>4. IsFiniteSet(1 .. Total(n)) /\ Cardinality(1 .. Total(n)) = Total(n)
    <3>1. 1 \in Int /\ Total(n) \in Int /\ Total(n) \in Nat
      BY <1>8
    <3> DEFINE t == Total(n)
    <3> HIDE DEF t
    <3>2. /\ IsFiniteSet(1 .. t)
          /\ Cardinality(1 .. t) = IF 1 > t THEN 0 ELSE t - 1 + 1
      BY ONLY <3>1, FS_Interval DEF t
    <3>3. QED
      BY <3>1, <3>2 DEF t
  <2>5. QED
    BY <2>2, <2>3, <2>4, FS_Surjection
<1>14. QED
  BY <1>3, <1>9, <1>10, <1>11, <1>12, <1>13 DEF v

(* The assertions of clear and of Bitmap::dealloc hold.                    *)
LEMMA ClearNeverStops ==
  ASSUME NEW fs, FsOK(fs), NEW i \in fs.ibits
  PROVE  StopClear(fs, i) = "no"
BY BlocksOfAre, SizesAre DEF StopClear, FsOK

(* g is fs with the file of i emptied.                                     *)
Cleared(fs, g, i) ==
    /\ FsOK(g) /\ g.ibits = fs.ibits /\ g.inode[i].size = 0
    /\ \A j \in Inodes : j # i => g.inode[j] = fs.inode[j]
    /\ \A j \in fs.ibits : \A o \in Nat :
          j # i /\ o < fs.inode[j].size => Cell(g, j, o) = Cell(fs, j, o)

(* The parts of the state after clear.                                     *)
LEMMA ClearParts ==
  ASSUME NEW fs \in Fs, NEW i \in Inodes, NEW V, ToSet(BlocksOf(fs, i)) = V,
         NEW g, g = Clear(fs, i)
  PROVE  /\ g \in Fs /\ g.ibits = fs.ibits /\ g.dbits = fs.dbits \ V
         /\ g.inode[i].size = 0
         /\ \A j \in Inodes : j # i => g.inode[j] = fs.inode[j]
         /\ \A b \in DataArea : g.block[b] = IF b \in V THEN ZeroBlock ELSE fs.block[b]
<1> DEFINE used == ToSet(Slots(0, DataBlocks(fs.inode[i].size)))
           inodes == [fs.inode EXCEPT ![i].size = 0,
                                      ![i].ptr = [r \in Pointers |-> IF <<r>> \in used
                                                                     THEN Zero ELSE @[r]]]
           ptrs == [r \in Pointers |-> IF <<r>> \in used THEN Zero ELSE fs.inode[i].ptr[r]]
           blocks == [b \in DataArea |-> IF b \in V THEN ZeroBlock ELSE fs.block[b]]
<1>1. /\ fs.ibits \subseteq Inodes /\ fs.dbits \subseteq DataArea
      /\ fs.inode \in [Inodes -> InodeType]
      /\ fs.block \in [DataArea -> [CellIndex -> Values]]
      /\ fs = [ibits |-> fs.ibits, dbits |-> fs.dbits, inode |-> fs.inode, block |-> fs.block]
  BY FsParts
<1>2. /\ g.ibits = fs.ibits /\ g.dbits = fs.dbits \ V /\ g.block = blocks /\ g.inode = inodes
      /\ g = [ibits |-> fs.ibits, dbits |-> fs.dbits \ V, inode |-> inodes, block |-> blocks]
  BY <1>1 DEF Clear, Dealloc
<1>3. /\ inodes[i].size = 0 /\ inodes[i].ptr = ptrs /\ inodes[i].dir = fs.inode[i].dir
      /\ inodes[i] = [size |-> 0, ptr |-> ptrs, dir |-> fs.inode[i].dir]
      /\ \A j \in Inodes : j # i => inodes[j] = fs.inode[j]
      /\ DOMAIN inodes = Inodes /\ inodes = [j \in Inodes |-> inodes[j]]
  BY <1>1 DEF InodeType
<1> HIDE DEF inodes
<1>4. ptrs \in [Pointers -> Values]
  <2>1. fs.inode[i].ptr \in [Pointers -> Values]
    BY <1>1 DEF InodeType
  <2>2. QED
    BY <2>1 DEF Values
<1> HIDE DEF ptrs, used
<1>5. inodes[i] \in InodeType
  BY <1>1, <1>3, <1>4 DEF InodeType
<1>6. inodes \in [Inodes -> InodeType]
  BY <1>1, <1>3, <1>5
<1>7. ZeroBlock \in [CellIndex -> Values]
  BY DEF ZeroBlock, CellIndex, Values
<1>8. blocks \in [DataArea -> [CellIndex -> Values]]
  BY <1>1, <1>7
<1>9. g \in Fs
  BY <1>1, <1>2, <1>6, <1>8 DEF Fs
<1>10. \A b \in DataArea : g.block[b] = IF b \in V THEN ZeroBlock ELSE fs.block[b]
  BY <1>2
<1>11. QED
  BY <1>2, <1>3, <1>9, <1>10

(* Inode::clear empties one file and keeps the file system sound.          *)
LEMMA ClearGives ==
  ASSUME NEW fs, FsOK(fs), NEW i \in fs.ibits
  PROVE  Cleared(fs, Clear(fs, i), i)
<1> DEFINE V == Owned(fs, i)
           g == Clear(fs, i)
<1>1. /\ FsShape(fs) /\ FsTrees(fs) /\ FsApart(fs) /\ FsNoLeak(fs) /\ FsZero(fs) /\ FsTail(fs)
      /\ fs \in Fs /\ Root \in fs.ibits /\ fs.dbits \subseteq DataArea /\ fs.ibits \subseteq Inodes
  BY FsParts DEF FsOK, FsShape
<1>2. ToSet(BlocksOf(fs, i)) = V
  BY BlocksOfAre
<1> HIDE DEF g
<1>3. /\ g \in Fs /\ g.ibits = fs.ibits /\ g.dbits = fs.dbits \ V
      /\ g.inode[i].size = 0
      /\ \A j \in Inodes : j # i => g.inode[j] = fs.inode[j]
      /\ \A b \in DataArea : g.block[b] = IF b \in V THEN ZeroBlock ELSE fs.block[b]
  BY <1>1, <1>2, ClearParts DEF g
<1>4. DataBlocks(g.inode[i].size) = 0 /\ SlotsIn(g, i) = {}
  <2>1. DataBlocks(0) \in Nat /\ DataBlocks(0) =< 0
    BY DataBlocksAre, Numbers
  <2>2. DataBlocks(0) = 0
    BY <2>1
  <2>3. SlotsFor(0) = {}
    BY FrontFacts DEF SlotsFor
  <2>4. QED
    BY <1>3, <2>2, <2>3 DEF SlotsIn
<1>5. ASSUME NEW j \in fs.ibits, j # i
      PROVE  /\ g.inode[j] = fs.inode[j] /\ SlotsIn(g, j) = SlotsIn(fs, j)
             /\ \A s \in SlotsIn(fs, j) :
                   /\ At(g, j, s) = At(fs, j, s) /\ At(fs, j, s) \notin V
                   /\ g.block[At(fs, j, s)] = fs.block[At(fs, j, s)]
  <2>1. g.inode[j] = fs.inode[j] /\ SlotsIn(g, j) = SlotsIn(fs, j)
    BY <1>1, <1>3, <1>5 DEF SlotsIn
  <2>2. Whole(SlotsIn(fs, j))
    BY <1>1, SizesAre
  <2>3. \A s \in SlotsIn(fs, j) : At(fs, j, s) \notin V /\ At(fs, j, s) \in DataArea
    BY <1>1, <1>5 DEF FsApart, FsTrees, Owned
  <2>4. \A s \in SlotsIn(fs, j) : g.block[At(fs, j, s)] = fs.block[At(fs, j, s)]
    BY <1>3, <2>3
  <2>5. \A s \in SlotsIn(fs, j) : Inner(s) => g.block[At(fs, j, s)] = fs.block[At(fs, j, s)]
    BY <2>4
  <2>6. g.inode[j].ptr = fs.inode[j].ptr
    BY <2>1
  <2>7. \A s \in SlotsIn(fs, j) : At(g, j, s) = At(fs, j, s)
    BY ONLY <2>2, <2>5, <2>6, AtStays
  <2>8. QED
    BY <2>1, <2>3, <2>4, <2>7
<1> HIDE DEF V
<1>6. FsShape(g)
  <2>1. 0 =< MaxCells
    BY Numbers DEF MaxCells
  <2>2. QED
    BY <1>1, <1>3, <1>5, <2>1 DEF FsShape
<1>7. FsTrees(g)
  BY <1>1, <1>3, <1>4, <1>5 DEF FsTrees
<1>8. FsApart(g)
  BY <1>1, <1>3, <1>4, <1>5 DEF FsApart
<1>9. FsNoLeak(g)
  <2> SUFFICES ASSUME NEW b \in fs.dbits \ V
               PROVE  \E j \in fs.ibits : \E s \in SlotsIn(g, j) : At(g, j, s) = b
    BY <1>3 DEF FsNoLeak
  <2>1. PICK j \in fs.ibits : \E s \in SlotsIn(fs, j) : At(fs, j, s) = b
    BY <1>1 DEF FsNoLeak
  <2>2. PICK s \in SlotsIn(fs, j) : At(fs, j, s) = b
    BY <2>1
  <2>3. j # i
    BY <2>2 DEF V, Owned
  <2>4. QED
    BY <1>5, <2>2, <2>3
<1>10. FsZero(g)
  <2> SUFFICES ASSUME NEW b \in DataArea \ g.dbits PROVE g.block[b] = ZeroBlock
    BY DEF FsZero
  <2>1. CASE b \in V
    BY <1>3, <2>1
  <2>2. CASE b \notin V
    BY <1>1, <1>3, <2>2 DEF FsZero
  <2>3. QED
    BY <2>1, <2>2
<1>11. ASSUME NEW j \in fs.ibits, j # i, NEW k \in Nat, k < DataBlocks(fs.inode[j].size)
       PROVE  /\ At(g, j, LeafSlot[k]) = At(fs, j, LeafSlot[k])
              /\ g.block[At(g, j, LeafSlot[k])] = fs.block[At(fs, j, LeafSlot[k])]
  <2>1. LeafSlot[k] \in SlotsIn(fs, j)
    BY <1>1, <1>11, LeafIn, SizesAre DEF SlotsIn
  <2>2. QED
    BY <1>5, <1>11, <2>1
<1>12. FsTail(g)
  <2> SUFFICES ASSUME NEW j \in g.ibits, NEW k \in Nat, NEW c \in CellIndex,
                      k < DataBlocks(g.inode[j].size), k * Cells + c >= g.inode[j].size
               PROVE  g.block[At(g, j, LeafSlot[k])][c] = Zero
    BY DEF FsTail
  <2>1. j # i
    BY <1>4
  <2>2. j \in fs.ibits /\ g.inode[j] = fs.inode[j]
    BY <1>3, <1>5, <2>1
  <2>3. fs.block[At(fs, j, LeafSlot[k])][c] = Zero
    BY <1>1, <2>2 DEF FsTail
  <2>4. QED
    BY <1>11, <2>1, <2>2, <2>3
<1>13. ASSUME NEW j \in fs.ibits, NEW o \in Nat, j # i, o < fs.inode[j].size
       PROVE  Cell(g, j, o) = Cell(fs, j, o)
  <2>1. fs.inode[j].size \in Nat
    BY <1>1, SizesAre
  <2>2. o \div Cells \in Nat /\ o \div Cells < DataBlocks(fs.inode[j].size)
    BY <1>13, <2>1, CellInside
  <2>3. QED
    BY <1>11, <1>13, <2>2 DEF Cell, GetBlockId
<1>14. FsOK(g)
  BY <1>6, <1>7, <1>8, <1>9, <1>10, <1>12 DEF FsOK
<1>15. QED
  BY <1>3, <1>13, <1>14 DEF Cleared, g

-------------------------------------------------------------------------------
(* A fresh inode.                                                          *)
LEMMA NewInodeType ==
  ASSUME NEW d \in BOOLEAN
  PROVE  NewInode(d) \in InodeType /\ NewInode(d).size = 0
BY DEF NewInode, InodeType, Values

(* No data block, no slot.                                                 *)
LEMMA EmptyFile == DataBlocks(0) = 0 /\ SlotsFor(0) = {}
<1>1. DataBlocks(0) \in Nat /\ DataBlocks(0) =< 0
  BY DataBlocksAre, Numbers
<1>2. DataBlocks(0) = 0
  BY <1>1
<1>3. SlotsFor(0) = {}
  BY FrontFacts DEF SlotsFor
<1>4. QED
  BY <1>2, <1>3

(* The file system as EasyFileSystem::create leaves it.                    *)
LEMMA FormattedOK == FsOK(Formatted)
<1> DEFINE f == Formatted
<1>1. /\ f.ibits = {Root} /\ f.dbits = {} /\ f.inode = [i \in Inodes |-> NewInode(i = Root)]
      /\ f.block = [b \in DataArea |-> ZeroBlock]
      /\ f = [ibits |-> f.ibits, dbits |-> f.dbits, inode |-> f.inode, block |-> f.block]
  BY DEF Formatted
<1> HIDE DEF f
<1>2. Root \in Inodes
  BY FsAssumption DEF Root, Inodes
<1>3. f.inode \in [Inodes -> InodeType] /\ f.inode[Root].size = 0
  <2>1. \A i \in Inodes : NewInode(i = Root) \in InodeType /\ NewInode(i = Root).size = 0
    BY NewInodeType
  <2>2. QED
    BY <1>1, <1>2, <2>1
<1>4. f.block \in [DataArea -> [CellIndex -> Values]]
  BY <1>1 DEF ZeroBlock, CellIndex, Values
<1>5. f \in Fs
  BY <1>1, <1>2, <1>3, <1>4 DEF Fs
<1>6. FsShape(f)
  <2>1. 0 =< MaxCells
    BY Numbers DEF MaxCells
  <2>2. QED
    BY <1>1, <1>3, <1>5, <2>1 DEF FsShape
<1>7. \A i \in f.ibits : DataBlocks(f.inode[i].size) = 0 /\ SlotsIn(f, i) = {}
  BY <1>1, <1>3, EmptyFile DEF SlotsIn
<1>8. FsTrees(f) /\ FsApart(f) /\ FsNoLeak(f)
  BY <1>1, <1>7 DEF FsTrees, FsApart, FsNoLeak
<1>9. FsZero(f) /\ FsTail(f)
  BY <1>1, <1>7 DEF FsZero, FsTail
<1>10. QED
  BY <1>6, <1>8, <1>9 DEF FsOK, f

(* alloc_inode and DiskInode::initialize.                                  *)
Added(fs, i) == [fs EXCEPT !.ibits = @ \cup {i}, !.inode[i] = NewInode(FALSE)]

(* A new inode has no block, and the others keep theirs.                   *)
LEMMA AddedOK ==
  ASSUME NEW fs, FsOK(fs), NEW i \in Inodes \ fs.ibits
  PROVE  /\ FsOK(Added(fs, i)) /\ Added(fs, i).ibits = fs.ibits \cup {i}
         /\ Added(fs, i).dbits = fs.dbits
         /\ Added(fs, i).inode[i].size = 0
         /\ \A j \in Inodes : j # i => Added(fs, i).inode[j] = fs.inode[j]
         /\ \A j \in fs.ibits : \A o \in Nat :
                o < fs.inode[j].size => Cell(Added(fs, i), j, o) = Cell(fs, j, o)
<1> DEFINE g == Added(fs, i)
<1>1. /\ FsShape(fs) /\ FsTrees(fs) /\ FsApart(fs) /\ FsNoLeak(fs) /\ FsZero(fs) /\ FsTail(fs)
      /\ fs \in Fs /\ Root \in fs.ibits /\ fs.dbits \subseteq DataArea /\ fs.ibits \subseteq Inodes
      /\ fs.inode \in [Inodes -> InodeType] /\ fs.block \in [DataArea -> [CellIndex -> Values]]
  BY FsParts DEF FsOK, FsShape
<1>2. /\ g.ibits = fs.ibits \cup {i} /\ g.dbits = fs.dbits /\ g.block = fs.block
      /\ g.inode = [fs.inode EXCEPT ![i] = NewInode(FALSE)]
      /\ g = [ibits |-> g.ibits, dbits |-> g.dbits, inode |-> g.inode, block |-> g.block]
  <2> DEFINE new == NewInode(FALSE)
  <2>1. g = [fs EXCEPT !.ibits = @ \cup {i}, !.inode[i] = new] /\ fs \in Fs
    BY <1>1 DEF Added
  <2> HIDE DEF new, g
  <2>2. /\ g.ibits = fs.ibits \cup {i} /\ g.dbits = fs.dbits /\ g.block = fs.block
        /\ g.inode = [fs.inode EXCEPT ![i] = new]
        /\ g = [ibits |-> fs.ibits \cup {i}, dbits |-> fs.dbits,
                inode |-> [fs.inode EXCEPT ![i] = new], block |-> fs.block]
    BY ONLY <2>1 DEF Fs
  <2>3. QED
    BY ONLY <2>2 DEF new
<1> HIDE DEF g
<1>3. /\ g.inode \in [Inodes -> InodeType] /\ g.inode[i].size = 0
      /\ \A j \in Inodes : j # i => g.inode[j] = fs.inode[j]
  BY <1>1, <1>2, NewInodeType
<1>4. g \in Fs
  BY <1>1, <1>2, <1>3 DEF Fs
<1>5. DataBlocks(g.inode[i].size) = 0 /\ SlotsIn(g, i) = {}
  BY <1>3, EmptyFile DEF SlotsIn
<1>6. ASSUME NEW j \in fs.ibits
      PROVE  /\ j # i /\ g.inode[j] = fs.inode[j] /\ SlotsIn(g, j) = SlotsIn(fs, j)
             /\ \A s \in SlotsIn(fs, j) : At(g, j, s) = At(fs, j, s)
  <2>1. j # i /\ g.inode[j] = fs.inode[j] /\ SlotsIn(g, j) = SlotsIn(fs, j)
    BY <1>1, <1>3 DEF SlotsIn
  <2>2. Whole(SlotsIn(fs, j))
    BY <1>1, SizesAre
  <2>3. g.inode[j].ptr = fs.inode[j].ptr
    BY <2>1
  <2>4. \A s \in SlotsIn(fs, j) : Inner(s) => g.block[At(fs, j, s)] = fs.block[At(fs, j, s)]
    BY <1>2
  <2>5. \A s \in SlotsIn(fs, j) : At(g, j, s) = At(fs, j, s)
    BY ONLY <2>2, <2>3, <2>4, AtStays
  <2>6. QED
    BY <2>1, <2>5
<1>7. FsShape(g)
  <2>1. 0 =< MaxCells
    BY Numbers DEF MaxCells
  <2>2. QED
    BY <1>1, <1>2, <1>3, <1>4, <1>6, <2>1 DEF FsShape
<1>8. FsTrees(g)
  BY <1>1, <1>2, <1>5, <1>6 DEF FsTrees
<1>9. FsApart(g)
  <2> SUFFICES ASSUME NEW j \in g.ibits, NEW l \in g.ibits,
                      NEW s \in SlotsIn(g, j), NEW t \in SlotsIn(g, l),
                      At(g, j, s) = At(g, l, t)
               PROVE  j = l /\ s = t
    BY DEF FsApart
  <2>1. j \in fs.ibits /\ l \in fs.ibits
    BY <1>2, <1>5
  <2>2. /\ s \in SlotsIn(fs, j) /\ t \in SlotsIn(fs, l)
        /\ At(fs, j, s) = At(fs, l, t)
    BY <1>6, <2>1
  <2>3. QED
    BY <1>1, <2>1, <2>2 DEF FsApart
<1>10. FsNoLeak(g)
  <2> SUFFICES ASSUME NEW b \in fs.dbits
               PROVE  \E j \in g.ibits : \E s \in SlotsIn(g, j) : At(g, j, s) = b
    BY <1>2 DEF FsNoLeak
  <2>1. PICK j \in fs.ibits : \E s \in SlotsIn(fs, j) : At(fs, j, s) = b
    BY <1>1 DEF FsNoLeak
  <2>2. \E s \in SlotsIn(g, j) : At(g, j, s) = b
    BY <1>6, <2>1
  <2>3. j \in g.ibits
    BY <1>2
  <2>4. QED
    BY <2>2, <2>3
<1>11. FsZero(g)
  BY <1>1, <1>2 DEF FsZero
<1>12. ASSUME NEW j \in fs.ibits, NEW k \in Nat, k < DataBlocks(fs.inode[j].size)
       PROVE  At(g, j, LeafSlot[k]) = At(fs, j, LeafSlot[k])
  <2>1. LeafSlot[k] \in SlotsIn(fs, j)
    BY <1>1, <1>12, LeafIn, SizesAre DEF SlotsIn
  <2>2. QED
    BY <1>6, <2>1
<1>13. FsTail(g)
  <2> SUFFICES ASSUME NEW j \in g.ibits, NEW k \in Nat, NEW c \in CellIndex,
                      k < DataBlocks(g.inode[j].size), k * Cells + c >= g.inode[j].size
               PROVE  g.block[At(g, j, LeafSlot[k])][c] = Zero
    BY DEF FsTail
  <2>1. j # i
    BY <1>5
  <2>2. j \in fs.ibits /\ g.inode[j] = fs.inode[j]
    BY <1>2, <1>6, <2>1
  <2>3. fs.block[At(fs, j, LeafSlot[k])][c] = Zero
    BY <1>1, <2>2 DEF FsTail
  <2>4. QED
    BY <1>2, <1>12, <2>2, <2>3
<1>14. ASSUME NEW j \in fs.ibits, NEW o \in Nat, o < fs.inode[j].size
       PROVE  Cell(g, j, o) = Cell(fs, j, o)
  <2>1. fs.inode[j].size \in Nat
    BY <1>1, SizesAre
  <2>2. o \div Cells \in Nat /\ o \div Cells < DataBlocks(fs.inode[j].size)
    BY <1>14, <2>1, CellInside
  <2>3. QED
    BY <1>2, <1>12, <2>2 DEF Cell, GetBlockId
<1>15. FsOK(g)
  BY <1>7, <1>8, <1>9, <1>10, <1>11, <1>13 DEF FsOK
<1>16. QED
  BY <1>2, <1>3, <1>14, <1>15 DEF g

(* g is fs with an empty file of inode i and the name.                     *)
Created(fs, g, name, i) ==
    /\ FsOK(g) /\ g.ibits = fs.ibits \cup {i} /\ g.inode[i].size = 0
    /\ g.inode[Root].size = fs.inode[Root].size + 1
    /\ \A j \in Inodes : j # i /\ j # Root => g.inode[j] = fs.inode[j]
    /\ \A j \in fs.ibits : \A o \in Nat :
          o < fs.inode[j].size => Cell(g, j, o) = Cell(fs, j, o)
    /\ Cell(g, Root, fs.inode[Root].size) = [name |-> name, inode |-> i]

(* Inode::create.                                                          *)
LEMMA CreateGives ==
  ASSUME NEW fs, FsOK(fs), NEW name \in Names, StopCreate(fs, name) = "no"
  PROVE  \E i \in Inodes \ fs.ibits : Created(fs, Create(fs, name), name, i)
<1> DEFINE i == Lowest(Inodes \ fs.ibits)
           h == Added(fs, i)
           n == fs.inode[Root].size
           e == [name |-> name, inode |-> i]
           buf == << e >>
           g == Create(fs, name)
<1>1. FsShape(fs) /\ Root \in fs.ibits /\ fs.ibits \subseteq Inodes
  BY FsParts DEF FsOK, FsShape
<1>2. n \in Nat /\ \A j \in fs.ibits : fs.inode[j].size \in Nat
  BY <1>1, SizesAre
<1>3. ~(Inodes \subseteq fs.ibits) /\ StopIncrease(fs, Root, n + 1) = "no"
  BY DEF StopCreate
<1>4. i \in Inodes \ fs.ibits
  <2>1. Inodes \ fs.ibits \subseteq Nat /\ Inodes \ fs.ibits # {}
    BY <1>3, AreaFinite
  <2>2. QED
    BY <2>1, LowestIn
<1>5. g = Write(h, Root, n, buf)
  BY DEF Create, Added
<1> HIDE DEF i, h, n, g
<1>6. /\ FsOK(h) /\ h.ibits = fs.ibits \cup {i} /\ h.dbits = fs.dbits
      /\ h.inode[i].size = 0
      /\ \A j \in Inodes : j # i => h.inode[j] = fs.inode[j]
      /\ \A j \in fs.ibits : \A o \in Nat :
             o < fs.inode[j].size => Cell(h, j, o) = Cell(fs, j, o)
  BY <1>4, AddedOK DEF h
<1>7. Root # i /\ h.inode[Root] = fs.inode[Root] /\ Root \in h.ibits
  BY <1>1, <1>4, <1>6
<1>8. e \in Values /\ buf \in Seq(Values) /\ Len(buf) = 1 /\ buf[1] = e
  BY <1>4 DEF Values
<1>9. StopIncrease(h, Root, n + 1) = "no"
  BY <1>3, <1>6, <1>7 DEF StopIncrease, Needed
<1> HIDE DEF e, buf
<1>10. WroteFile(h, g, Root, n, buf)
  <2>1. n + Len(buf) = n + 1
    BY <1>8
  <2>2. StopIncrease(h, Root, n + Len(buf)) = "no"
    BY <1>9, <2>1
  <2>3. QED
    BY ONLY <1>2, <1>5, <1>6, <1>7, <1>8, <2>1, <2>2, WriteGives
<1>11. /\ FsOK(g) /\ g.ibits = h.ibits
       /\ g.inode[Root].size = IF h.inode[Root].size < n + 1 THEN n + 1 ELSE h.inode[Root].size
       /\ \A j \in Inodes : j # Root => g.inode[j] = h.inode[j]
       /\ \A j \in h.ibits : \A o \in Nat :
             o < g.inode[j].size =>
               Cell(g, j, o) = IF j = Root /\ n =< o /\ o < n + 1 THEN buf[(o - n) + 1]
                               ELSE IF o < h.inode[j].size THEN Cell(h, j, o) ELSE Zero
  BY <1>8, <1>10 DEF WroteFile
<1>12. g.inode[Root].size = n + 1
  BY <1>2, <1>7, <1>11 DEF n
<1>13. Cell(g, Root, n) = e
  <2>1. n < g.inode[Root].size /\ n =< n /\ n < n + 1 /\ (n - n) + 1 = 1
    BY <1>2, <1>12
  <2>2. Cell(g, Root, n) = buf[(n - n) + 1]
    BY <1>2, <1>7, <1>11, <2>1
  <2>3. QED
    BY <1>8, <2>1, <2>2
<1>14. ASSUME NEW j \in fs.ibits, NEW o \in Nat, o < fs.inode[j].size
       PROVE  Cell(g, j, o) = Cell(fs, j, o)
  <2>1. j \in h.ibits /\ h.inode[j] = fs.inode[j]
    BY <1>1, <1>4, <1>6
  <2>2. o < g.inode[j].size /\ ~(j = Root /\ n =< o /\ o < n + 1)
    <3>1. CASE j = Root
      BY <1>2, <1>12, <1>14, <3>1 DEF n
    <3>2. CASE j # Root
      BY <1>1, <1>11, <1>14, <2>1, <3>2
    <3>3. QED
      BY <3>1, <3>2
  <2>3. Cell(g, j, o) = Cell(h, j, o)
    BY <1>11, <1>14, <2>1, <2>2
  <2>4. QED
    BY <1>6, <1>14, <2>3
<1>15. \A j \in Inodes : j # i /\ j # Root => g.inode[j] = fs.inode[j]
  BY <1>6, <1>11
<1>16. g.inode[i].size = 0
  BY <1>4, <1>6, <1>7, <1>11
<1>17. Created(fs, g, name, i)
  BY <1>6, <1>11, <1>12, <1>13, <1>14, <1>15, <1>16 DEF Created, n, e
<1>18. QED
  BY <1>4, <1>17 DEF g

-------------------------------------------------------------------------------
(* The directory lists every inode but its own once, under different       *)
(* names.                                                                  *)
Entry == [name : Names, inode : Inodes]
DirPlaces(fs) == 0 .. fs.inode[Root].size - 1

DirOK(fs) ==
    /\ \A o \in DirPlaces(fs) : /\ Cell(fs, Root, o) \in Entry
                                /\ Cell(fs, Root, o).inode \in fs.ibits \ {Root}
    /\ \A i \in fs.ibits \ {Root} : \E o \in DirPlaces(fs) : Cell(fs, Root, o).inode = i
    /\ \A o, u \in DirPlaces(fs) :
          o # u => /\ Cell(fs, Root, o).name # Cell(fs, Root, u).name
                   /\ Cell(fs, Root, o).inode # Cell(fs, Root, u).inode

(* A whole file read.                                                      *)
LEMMA ReadWhole ==
  ASSUME NEW fs, NEW i, fs.inode[i].size \in Nat
  PROVE  ReadAt(fs, i, 0, fs.inode[i].size) =
            [k \in 1 .. fs.inode[i].size |-> Cell(fs, i, k - 1)]
<1> DEFINE size == fs.inode[i].size
<1>1. /\ ~(0 + size < size) /\ size - 0 = size
      /\ \A k \in 1 .. size : 0 + k - 1 = k - 1
  OBVIOUS
<1>2. ReadAt(fs, i, 0, size) =
        [k \in 1 .. (IF 0 + size < size THEN 0 + size ELSE size) - 0 |->
           fs.block[GetBlockId(fs, i, (0 + k - 1) \div Cells)][(0 + k - 1) % Cells]]
  BY DEF ReadAt
<1> HIDE DEF size
<1>3. QED
  BY <1>1, <1>2 DEF Cell, size

(* The entries, and the search for a name.                                 *)
LEMMA EntriesAre ==
  ASSUME NEW fs, FsOK(fs)
  PROVE  /\ fs.inode[Root].size \in Nat
         /\ Entries(fs) = [k \in 1 .. fs.inode[Root].size |-> Cell(fs, Root, k - 1)]
         /\ \A o \in DirPlaces(fs) : o \in Nat /\ o < fs.inode[Root].size
<1>1. fs.inode[Root].size \in Nat
  BY SizesAre DEF FsOK, FsShape
<1>2. QED
  BY <1>1, ReadWhole DEF Entries, DirPlaces

(* find_inode_id finds the entry when there is one.                        *)
LEMMA FindIs ==
  ASSUME NEW fs, FsOK(fs), DirOK(fs), NEW n
  PROVE  /\ Exists(fs, n) <=> \E o \in DirPlaces(fs) : Cell(fs, Root, o).name = n
         /\ \A o \in DirPlaces(fs) : Cell(fs, Root, o).name = n => Find(fs, n) = Cell(fs, Root, o).inode
<1> DEFINE size == fs.inode[Root].size
           e == Entries(fs)
           P(k) == e[k].name = n /\ \A l \in DOMAIN e : e[l].name = n => k =< l
<1>1. size \in Nat /\ e = [k \in 1 .. size |-> Cell(fs, Root, k - 1)]
  BY EntriesAre
<1>2. Exists(fs, n) <=> \E k \in DOMAIN e : e[k].name = n
  BY DEF Exists
<1>3. Find(fs, n) = e[CHOOSE k \in DOMAIN e : P(k)].inode
  BY DEF Find
<1> HIDE DEF e, size
<1>4. /\ DOMAIN e = 1 .. size /\ \A k \in 1 .. size : e[k] = Cell(fs, Root, k - 1) /\ k - 1 \in DirPlaces(fs)
      /\ \A o \in DirPlaces(fs) : o \in Nat /\ o + 1 \in 1 .. size /\ (o + 1) - 1 = o /\ e[o + 1] = Cell(fs, Root, o)
  <2>1. \A o \in DirPlaces(fs) : o \in Nat /\ o + 1 \in 1 .. size /\ (o + 1) - 1 = o
    BY <1>1 DEF DirPlaces, size
  <2>2. \A k \in 1 .. size : k - 1 \in DirPlaces(fs)
    BY <1>1 DEF DirPlaces, size
  <2>3. QED
    BY <1>1, <2>1, <2>2
<1>5. Exists(fs, n) <=> \E o \in DirPlaces(fs) : Cell(fs, Root, o).name = n
  BY <1>2, <1>4
<1>6. ASSUME NEW o \in DirPlaces(fs), Cell(fs, Root, o).name = n
      PROVE  Find(fs, n) = Cell(fs, Root, o).inode
  <2>1. o + 1 \in DOMAIN e /\ e[o + 1] = Cell(fs, Root, o) /\ e[o + 1].name = n
    BY <1>4, <1>6
  <2>2. \A l \in DOMAIN e : e[l].name = n => l = o + 1
    <3> SUFFICES ASSUME NEW l \in 1 .. size, e[l].name = n PROVE l = o + 1
      BY <1>4
    <3>1. l - 1 \in DirPlaces(fs) /\ Cell(fs, Root, l - 1).name = n
      BY <1>4
    <3>2. l - 1 = o
      BY <1>6, <3>1 DEF DirOK
    <3>3. QED
      BY <1>4, <3>2
  <2>3. P(o + 1)
    <3>1. o + 1 =< o + 1
      BY <1>4
    <3>2. QED
      BY <2>1, <2>2, <3>1
  <2>4. PICK c : c = CHOOSE k \in DOMAIN e : P(k)
    OBVIOUS
  <2>5. c \in DOMAIN e /\ P(c)
    BY <2>1, <2>3, <2>4
  <2>6. c = o + 1
    BY <2>2, <2>5
  <2>7. QED
    BY <1>3, <2>1, <2>4, <2>6
<1>7. QED
  BY <1>5, <1>6

(* The directory is empty at first.                                        *)
LEMMA FormattedDir == DirOK(Formatted)
<1>1. Formatted.ibits = {Root} /\ Formatted.inode = [i \in Inodes |-> NewInode(i = Root)]
  BY DEF Formatted
<1>2. Root \in Inodes
  BY FsAssumption DEF Root, Inodes
<1>3. Formatted.inode[Root].size = 0
  BY <1>1, <1>2, NewInodeType
<1>4. DirPlaces(Formatted) = {}
  BY <1>3 DEF DirPlaces
<1>5. QED
  BY <1>1, <1>4 DEF DirOK

(* It stays while its cells and the inodes do, ...                         *)
LEMMA DirStays ==
  ASSUME NEW fs, FsOK(fs), DirOK(fs), NEW g, FsOK(g), g.ibits = fs.ibits,
         g.inode[Root].size = fs.inode[Root].size,
         \A o \in DirPlaces(fs) : Cell(g, Root, o) = Cell(fs, Root, o)
  PROVE  /\ DirOK(g)
         /\ \A n : Exists(g, n) <=> Exists(fs, n)
         /\ \A n : Exists(fs, n) => Find(g, n) = Find(fs, n)
<1>1. DirPlaces(g) = DirPlaces(fs)
  BY DEF DirPlaces
<1>2. DirOK(g)
  BY <1>1 DEF DirOK
<1>3. ASSUME NEW n PROVE Exists(g, n) <=> Exists(fs, n)
  <2>1. Exists(fs, n) <=> \E o \in DirPlaces(fs) : Cell(fs, Root, o).name = n
    BY FindIs
  <2>2. Exists(g, n) <=> \E o \in DirPlaces(g) : Cell(g, Root, o).name = n
    BY <1>2, FindIs
  <2>3. QED
    BY <1>1, <2>1, <2>2
<1>4. ASSUME NEW n, Exists(fs, n) PROVE Find(g, n) = Find(fs, n)
  <2>1. PICK o \in DirPlaces(fs) : Cell(fs, Root, o).name = n
    BY <1>4, FindIs
  <2>2. Find(fs, n) = Cell(fs, Root, o).inode
    BY <2>1, FindIs
  <2>3. o \in DirPlaces(g) /\ Cell(g, Root, o).name = n
    BY <1>1, <2>1
  <2>4. Find(g, n) = Cell(g, Root, o).inode
    BY <1>2, <2>3, FindIs
  <2>5. QED
    BY <2>2, <2>4
<1>5. QED
  BY <1>2, <1>3, <1>4

(* ... and create adds one name.                                           *)
LEMMA DirGrows ==
  ASSUME NEW fs, FsOK(fs), DirOK(fs), NEW n \in Names, ~Exists(fs, n),
         NEW i \in Inodes \ fs.ibits, NEW g, Created(fs, g, n, i)
  PROVE  /\ DirOK(g) /\ Exists(g, n) /\ Find(g, n) = i
         /\ \A m : m # n => (Exists(g, m) <=> Exists(fs, m))
         /\ \A m : m # n /\ Exists(fs, m) => Find(g, m) = Find(fs, m)
<1> DEFINE size == fs.inode[Root].size
           D == DirPlaces(fs)
<1>1. /\ FsOK(g) /\ g.ibits = fs.ibits \cup {i}
      /\ g.inode[Root].size = size + 1
      /\ \A o \in D : Cell(g, Root, o) = Cell(fs, Root, o)
      /\ Cell(g, Root, size) = [name |-> n, inode |-> i]
  <2>1. Root \in fs.ibits
    BY DEF FsOK, FsShape
  <2>2. \A o \in D : o \in Nat /\ o < size
    BY EntriesAre
  <2>3. QED
    BY <2>1, <2>2 DEF Created
<1>2. /\ size \in Nat /\ DirPlaces(g) = D \cup {size} /\ size \notin D
  <2>1. size \in Nat
    BY EntriesAre
  <2>2. QED
    BY <1>1, <2>1 DEF DirPlaces
<1>3. i # Root /\ Root \in fs.ibits /\ i \in Inodes
  BY DEF FsOK, FsShape
<1>4. \A o \in D : /\ Cell(fs, Root, o).name # n /\ Cell(fs, Root, o).inode \in fs.ibits \ {Root}
                   /\ Cell(fs, Root, o) \in Entry
  BY FindIs DEF DirOK
<1>5. Cell(g, Root, size).name = n /\ Cell(g, Root, size).inode = i /\ Cell(g, Root, size) \in Entry
  BY <1>1, <1>3 DEF Entry
<1> HIDE DEF size, D
<1>6. \A o \in DirPlaces(g) : /\ Cell(g, Root, o) \in Entry
                              /\ Cell(g, Root, o).inode \in g.ibits \ {Root}
  BY <1>1, <1>2, <1>3, <1>4, <1>5
<1>7. ASSUME NEW j \in g.ibits \ {Root} PROVE \E o \in DirPlaces(g) : Cell(g, Root, o).inode = j
  <2>1. CASE j = i
    BY <1>2, <1>5, <2>1
  <2>2. CASE j # i
    <3>1. PICK o \in D : Cell(fs, Root, o).inode = j
      BY <1>1, <2>2 DEF DirOK, D
    <3>2. QED
      BY <1>1, <1>2, <3>1
  <2>3. QED
    BY <2>1, <2>2
<1>8. ASSUME NEW o \in DirPlaces(g), NEW u \in DirPlaces(g), o # u
      PROVE  /\ Cell(g, Root, o).name # Cell(g, Root, u).name
             /\ Cell(g, Root, o).inode # Cell(g, Root, u).inode
  <2>1. CASE o \in D /\ u \in D
    BY <1>1, <1>8, <2>1 DEF DirOK, D
  <2>2. CASE o \in D /\ u = size
    BY <1>1, <1>4, <1>5, <2>2
  <2>3. CASE o = size /\ u \in D
    BY <1>1, <1>4, <1>5, <2>3
  <2>4. QED
    BY <1>2, <1>8, <2>1, <2>2, <2>3
<1>9. DirOK(g)
  BY <1>6, <1>7, <1>8 DEF DirOK
<1>10. Exists(g, n) /\ Find(g, n) = i
  BY <1>1, <1>2, <1>5, <1>9, FindIs
<1>11. ASSUME NEW m, m # n
       PROVE  /\ Exists(g, m) <=> Exists(fs, m)
              /\ Exists(fs, m) => Find(g, m) = Find(fs, m)
  <2>1. Exists(fs, m) <=> \E o \in D : Cell(fs, Root, o).name = m
    BY FindIs DEF D
  <2>2. Exists(g, m) <=> \E o \in DirPlaces(g) : Cell(g, Root, o).name = m
    BY <1>1, <1>9, FindIs
  <2>3. Exists(g, m) <=> Exists(fs, m)
    BY <1>1, <1>2, <1>5, <1>11, <2>1, <2>2
  <2>4. ASSUME Exists(fs, m) PROVE Find(g, m) = Find(fs, m)
    <3>1. PICK o \in D : Cell(fs, Root, o).name = m
      BY <2>1, <2>4
    <3>2. Find(fs, m) = Cell(fs, Root, o).inode
      BY <3>1, FindIs DEF D
    <3>3. o \in DirPlaces(g) /\ Cell(g, Root, o) = Cell(fs, Root, o)
      BY <1>1, <1>2
    <3>4. Find(g, m) = Cell(g, Root, o).inode
      BY <1>1, <1>9, <3>1, <3>3, FindIs
    <3>5. QED
      BY <3>2, <3>3, <3>4
  <2>5. QED
    BY <2>3, <2>4
<1>12. QED
  BY <1>9, <1>10, <1>11
===============================================================================
