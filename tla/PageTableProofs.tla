--------------------------- MODULE PageTableProofs ----------------------------
(***************************************************************************)
(* The page tables of all memory sets are sound, for every number of       *)
(* frames, entries, sets, programs and operations.                         *)
(*                                                                         *)
(* TablesInv is not inductive as it stands.  The invariant PagesInv says   *)
(* the same of any memory m in place of the variable pte, so that it can   *)
(* be followed through the intermediate memories of MapEntry, with         *)
(* disjoint sets of frames in place of their count, and adds what the      *)
(* loops rely on: the trampoline stays mapped, and what is left to do      *)
(* lies within the address space.                                          *)
(*                                                                         *)
(* In the second part the page tables implement AddressSpaces.  LoadInv is *)
(* what the loops have put into memory so far; Seen is what the pages of a *)
(* list of areas show.                                                     *)
(***************************************************************************)
EXTENDS PageTable, TLAPS, FiniteSetTheorems

Flags == {"V", "R", "W", "X", "U"}
Entries == [ppn : 0 .. FrameEnd, flags : SUBSET Flags]
Memories == [Frames -> [Indices -> Entries]]
Vpns == 0 .. VpnEnd - 1

(* The walk of find_pte in memory m.                                       *)
Mid(m, r, v) == m[r][Indexes(v)[1]].ppn
Low(m, r, v) == m[Mid(m, r, v)][Indexes(v)[2]].ppn
Pte(m, r, v) == m[Low(m, r, v)][Indexes(v)[3]]
Reaches(m, r, v) == /\ IsValid(m[r][Indexes(v)[1]])
                    /\ IsValid(m[Mid(m, r, v)][Indexes(v)[2]])
Maps(m, r, v) == Reaches(m, r, v) /\ IsValid(Pte(m, r, v))

(* The tables of the first two levels.                                     *)
Mids(m, r) == {m[r][i].ppn : i \in {i \in Indices : IsValid(m[r][i])}}
Inner(m, r) == {r} \cup Mids(m, r)

(* The tables r and T are a tree below r in memory m.                      *)
Tree(m, r, T) ==
    /\ r \in Frames /\ T \subseteq Frames /\ r \notin T
    /\ \A f \in Inner(m, r), i \in Indices : IsValid(m[f][i]) =>
            m[f][i].ppn \in T /\ m[f][i] = Entry(m[f][i].ppn, {})
    /\ \A f, g \in Inner(m, r), i, j \in Indices :
            IsValid(m[f][i]) /\ IsValid(m[g][j]) /\ m[f][i].ppn = m[g][j].ppn
                => f = g /\ i = j
    /\ \A t \in T : \E f \in Inner(m, r), i \in Indices :
            IsValid(m[f][i]) /\ m[f][i].ppn = t

(* The tables but the root.                                                *)
Rest(ts) == {ts[i] : i \in 2 .. Len(ts)}

Perms == {"R", "W", "X", "U"}
Bounds == 0 .. VpnEnd

(* Areas, mapped and still to be mapped.                                   *)
Trackers == UNION {[D -> Frames] : D \in SUBSET Vpns}
Area == {a \in [start : Bounds, end : Bounds, perm : SUBSET Perms, frames : Trackers] :
           DOMAIN a.frames = PagesOf(a)}
Todo == [start : Bounds, end : Bounds, perm : SUBSET Perms, file : Int]

(* The pages of the areas of a list, each with the place of its area.      *)
Owns(list, i, v) == i \in 1 .. Len(list) /\ v \in PagesOf(list[i])

(* The leaves below root r are the pages of the list and the trampoline.   *)
Leaves(m, r, list) ==
    /\ Maps(m, r, TrampolineVpn)
    /\ \A v \in Vpns : Maps(m, r, v) =>
            v = TrampolineVpn \/ \E i \in 1 .. Len(list) : Owns(list, i, v)
    /\ \A i, v : Owns(list, i, v) =>
            /\ v # TrampolineVpn /\ Maps(m, r, v)
            /\ Pte(m, r, v) = Entry(list[i].frames[v], list[i].perm)
    /\ \A i, j, v : Owns(list, i, v) /\ Owns(list, j, v) => i = j

(* The frames of the pages of a list, and all that a memory set holds.     *)
PageFrames(list) == {f \in Frames : \E i, v : Owns(list, i, v) /\ list[i].frames[v] = f}
Holds(ts, list) == ToSet(ts) \cup PageFrames(list)

(* No frame has two uses in one memory set.                                *)
Exclusive(ts, list) ==
    /\ IsInjective(ts) /\ ToSet(ts) \cap PageFrames(list) = {}
    /\ \A i, j, v, w : Owns(list, i, v) /\ Owns(list, j, w)
                         /\ list[i].frames[v] = list[j].frames[w] => i = j /\ v = w

(* Every frame below `next`, and no other, is recycled or held, once.      *)
Once(next, stack, H) ==
    /\ next \in 0 .. FrameEnd /\ stack \in Seq(Frames) /\ IsInjective(stack)
    /\ \A s \in Sets : H[s] \subseteq Frames /\ H[s] \cap ToSet(stack) = {}
    /\ \A s, t \in Sets : s # t => H[s] \cap H[t] = {}
    /\ \A f \in Frames : f < next <=> f \in ToSet(stack) \/ \E s \in Sets : f \in H[s]

(* The area a loop is mapping, and the areas of memory set s, which has    *)
(* the list A, while loop o runs.                                          *)
Growing(o) == MapArea([Head(o.todo) EXCEPT !.end = o.next], o.frames)
With(A, o, s) == A \o (IF o.set = s /\ o # Idle THEN <<Growing(o)>> ELSE <<>>)

(* The frames each memory set holds.                                       *)
Held(ts, A, o) == [s \in Sets |-> Holds(ts[s], With(A[s], o, s))]

(* The loop o is well formed.                                              *)
OpTyped(o) ==
    o # Idle =>
      /\ o = [set |-> o.set, from |-> o.from, todo |-> o.todo, next |-> o.next,
              frames |-> o.frames]
      /\ o.set \in Sets /\ o.from \in Sets
      /\ o.todo \in Seq(Todo) /\ o.todo # <<>>
      /\ o.next \in Bounds /\ o.next >= o.todo[1].start
      /\ o.frames \in [o.todo[1].start .. o.next - 1 -> Frames]

(* The loop that is running: its memory set exists, and so does the one    *)
(* that is copied.                                                         *)
OpOK ==
    /\ OpTyped(op)
    /\ op # Idle =>
      /\ status[op.set] \in {"building", "live"}
      /\ op.from # Kernel =>
            /\ op.from # op.set /\ status[op.from] = "live"
            /\ \A i \in 1 .. Len(op.todo) : \E k \in 1 .. Len(areas[op.from]) :
                 PagesOf(op.todo[i]) = PagesOf(areas[op.from][k])

StatusOK ==
    /\ status[Kernel] = "live"
    /\ \A s \in Sets : status[s] = "none" => tables[s] = <<>>
    /\ \A s \in Sets : status[s] \in {"none", "exited"} => areas[s] = <<>>
    /\ \A s \in UserSets : status[s] = "live" => areas[s] # <<>>

(* The inductive invariant.                                                *)
PagesInv ==
    /\ PageTypeOK /\ areas \in [Sets -> Seq(Area)] /\ OpOK /\ StatusOK
    /\ \A s \in Sets : status[s] # "none" =>
            tables[s] # <<>> /\ root[s] = tables[s][1] /\ Tree(pte, root[s], Rest(tables[s]))
    /\ \A s \in Sets : status[s] \in {"building", "live"} =>
            Leaves(pte, root[s], With(areas[s], op, s))
    /\ \A s \in Sets : Exclusive(tables[s], With(areas[s], op, s))
    /\ Once(fresh, recycled, Held(tables, areas, op))

-------------------------------------------------------------------------------
(* Arithmetic. *)

(* The sizes are positive numbers.                                         *)
LEMMA Sizes ==
  /\ Fan \in Nat /\ Fan > 0 /\ PageSize \in Nat /\ PageSize > 0
  /\ FrameEnd \in Nat /\ FrameEnd >= 3
  /\ VpnEnd \in Nat /\ VpnEnd > 0 /\ VaEnd \in Nat /\ VaEnd > 0
<1>1. Fan \in Nat /\ Fan > 0 /\ PageSize \in Nat /\ PageSize > 0
      /\ FrameEnd \in Nat /\ FrameEnd >= 3
  BY PageAssumption, FrameAssumption
<1>2. \A a, b \in Nat : a > 0 /\ b > 0 => a * b \in Nat /\ a * b > 0
  BY Z3
<1>3. VpnEnd \in Nat /\ VpnEnd > 0
  BY <1>1, <1>2 DEF VpnEnd
<1>4. VaEnd \in Nat /\ VaEnd > 0
  BY <1>1, <1>2, <1>3 DEF VaEnd
<1>5. QED
  BY <1>1, <1>3, <1>4

(* Division with rest.                                                     *)
LEMMA Division ==
  ASSUME NEW a \in Int, NEW d \in Nat, d > 0
  PROVE  /\ a \div d \in Int /\ a % d \in 0 .. d - 1 /\ a = (a \div d) * d + (a % d)
         /\ a >= 0 => a \div d \in Nat
<1>1. a \div d \in Int /\ a % d \in 0 .. d - 1
  BY Z3
<1>2. a = (a \div d) * d + (a % d)
  BY Z3
<1>3. a >= 0 => a \div d \in Nat
  BY Z3
<1>4. QED
  BY <1>1, <1>2, <1>3

(* Quotient and rest are unique.                                           *)
LEMMA DivisionUnique ==
  ASSUME NEW d \in Nat, NEW a \in Int, NEW b \in Int, NEW c \in 0 .. d - 1, NEW e \in 0 .. d - 1,
         a * d + c = b * d + e
  PROVE  a = b /\ c = e
<1>1. ASSUME NEW x \in Int, NEW y \in Int, NEW s \in 0 .. d - 1, NEW t \in 0 .. d - 1,
             x * d + s = y * d + t, x < y
      PROVE  FALSE
  <2>1. PICK k \in Nat : y = x + 1 + k
    <3>1. y - x - 1 \in Nat /\ y = x + 1 + (y - x - 1)
      BY <1>1
    <3>2. QED
      BY <3>1
  <2>2. y * d = x * d + d + k * d /\ k * d \in Nat /\ x * d \in Int
    BY <2>1
  <2>3. QED
    BY <1>1, <2>2
<1>2. a = b
  BY <1>1
<1>3. QED
  BY <1>2

(* A quotient is below q if the number is below q times the divisor.       *)
LEMMA QuotientBelow ==
  ASSUME NEW a \in Nat, NEW d \in Nat, d > 0, NEW q \in Nat, a < q * d
  PROVE  a \div d \in 0 .. q - 1
<1> DEFINE x == a \div d
           y == a % d
<1>1. x \in Nat /\ y \in 0 .. d - 1 /\ a = x * d + y
  BY Division
<1> HIDE DEF x, y
<1> SUFFICES ASSUME x >= q PROVE FALSE
  BY <1>1 DEF x
<1>2. PICK k \in Nat : x = q + k
  <2>1. x - q \in Nat /\ x = q + (x - q)
    BY <1>1
  <2>2. QED
    BY <2>1
<1>3. x * d = q * d + k * d /\ k * d \in Nat /\ q * d \in Nat
  BY <1>2
<1>4. QED
  BY <1>1, <1>3

(* The three indexes of a page, and the page they make up.                 *)
LEMMA IndexesOf ==
  ASSUME NEW v \in Vpns
  PROVE  /\ Indexes(v)[1] \in Indices /\ Indexes(v)[2] \in Indices /\ Indexes(v)[3] \in Indices
         /\ v = (Indexes(v)[1] * Fan + Indexes(v)[2]) * Fan + Indexes(v)[3]
<1> DEFINE c == v % Fan
           q == v \div Fan
           b == q % Fan
           p == q \div Fan
           a == v \div (Fan * Fan)
           e == v % (Fan * Fan)
<1>0. Fan \in Nat /\ Fan > 0 /\ v \in Nat /\ v < VpnEnd /\ Fan * Fan \in Nat
  BY Sizes DEF Vpns
<1>1. Fan * Fan > 0 /\ VpnEnd = Fan * (Fan * Fan)
  BY <1>0 DEF VpnEnd
<1>2. q \in Nat /\ c \in 0 .. Fan - 1 /\ v = q * Fan + c
  BY <1>0, Division
<1> HIDE DEF q, c
<1>3. p \in Nat /\ b \in 0 .. Fan - 1 /\ q = p * Fan + b
  BY <1>0, <1>2, Division
<1> HIDE DEF p, b
<1>4. a \in 0 .. Fan - 1
  BY <1>0, <1>1, QuotientBelow
<1>5. e \in 0 .. Fan * Fan - 1 /\ v = a * (Fan * Fan) + e
  BY <1>0, <1>1, Division
<1> HIDE DEF a, e
<1>6. a = p
  <2>1. v = p * (Fan * Fan) + (b * Fan + c)
    <3>1. v = (p * Fan + b) * Fan + c
      BY <1>2, <1>3
    <3>2. (p * Fan + b) * Fan = p * (Fan * Fan) + b * Fan
      BY <1>0, <1>3
    <3>3. p * (Fan * Fan) \in Nat /\ b * Fan \in Nat
      BY <1>0, <1>3
    <3>4. QED
      BY <1>2, <3>1, <3>2, <3>3
  <2>2. b * Fan + c \in 0 .. Fan * Fan - 1
    <3>1. PICK k \in Nat : Fan = b + 1 + k
      <4>1. Fan - b - 1 \in Nat /\ Fan = b + 1 + (Fan - b - 1)
        BY <1>0, <1>3
      <4>2. QED
        BY <4>1
    <3>2. Fan * Fan = b * Fan + Fan + k * Fan /\ k * Fan \in Nat /\ b * Fan \in Nat
      BY <1>0, <1>3, <3>1
    <3>3. QED
      BY <1>0, <1>2, <3>2
  <2> DEFINE d == Fan * Fan
             f == b * Fan + c
  <2>3. d \in Nat /\ a \in Int /\ p \in Int /\ e \in 0 .. d - 1 /\ f \in 0 .. d - 1
        /\ a * d + e = p * d + f
    BY <1>0, <1>3, <1>4, <1>5, <2>1, <2>2
  <2> HIDE DEF d, f
  <2>4. QED
    BY ONLY <2>3, DivisionUnique
<1>7. a % Fan = a
  <2>1. a \in Int /\ a \div Fan \in Int /\ a % Fan \in 0 .. Fan - 1 /\ a = (a \div Fan) * Fan + (a % Fan)
    BY <1>0, <1>4, Division
  <2> DEFINE x == a \div Fan
             y == a % Fan
  <2>2. Fan \in Nat /\ 0 \in Int /\ x \in Int /\ a \in 0 .. Fan - 1 /\ y \in 0 .. Fan - 1
        /\ 0 * Fan + a = x * Fan + y
    BY <1>0, <1>4, <2>1
  <2> HIDE DEF x, y
  <2>3. a = y
    BY ONLY <2>2, DivisionUnique
  <2>4. QED
    BY <2>3 DEF y
<1>8. Indexes(v) = <<a, b, c>>
  BY <1>7 DEF Indexes, a, b, c, q
<1>9. v = (a * Fan + b) * Fan + c
  BY <1>2, <1>3, <1>6
<1>10. QED
  BY <1>2, <1>3, <1>4, <1>8, <1>9 DEF Indices

(* Two pages with the same indexes are one.                                *)
LEMMA IndexesUnique ==
  ASSUME NEW v \in Vpns, NEW w \in Vpns, Indexes(v)[1] = Indexes(w)[1],
         Indexes(v)[2] = Indexes(w)[2], Indexes(v)[3] = Indexes(w)[3]
  PROVE  v = w
<1>1. v = (Indexes(v)[1] * Fan + Indexes(v)[2]) * Fan + Indexes(v)[3]
  BY IndexesOf
<1>2. w = (Indexes(w)[1] * Fan + Indexes(w)[2]) * Fan + Indexes(w)[3]
  BY IndexesOf
<1>3. QED
  BY <1>1, <1>2

(* The pages of an area lie within the address space.                      *)
LEMMA VpnBounds ==
  ASSUME NEW word \in Int
  PROVE  Floor(VirtAddr(word)) \in Vpns /\ Ceil(VirtAddr(word)) \in Bounds
<1> DEFINE va == VirtAddr(word)
<1>1. va \in 0 .. VaEnd - 1
  BY Sizes, Division DEF VirtAddr
<1> HIDE DEF va
<1>2. va \in Nat /\ va < VpnEnd * PageSize /\ VaEnd = VpnEnd * PageSize
  BY <1>1, Sizes DEF VaEnd
<1>3. va \div PageSize \in 0 .. VpnEnd - 1
  BY <1>2, Sizes, QuotientBelow
<1>4. (va - 1 + PageSize) \div PageSize \in 0 .. VpnEnd \/ va = 0
  <2> SUFFICES ASSUME va # 0 PROVE (va - 1 + PageSize) \div PageSize \in 0 .. VpnEnd
    OBVIOUS
  <2> DEFINE x == va - 1 + PageSize
             q == VpnEnd + 1
  <2>1. (VpnEnd + 1) * PageSize = VpnEnd * PageSize + PageSize /\ VpnEnd * PageSize \in Nat
    BY Sizes
  <2>2. x \in Nat /\ q \in Nat /\ x < q * PageSize
    BY <1>2, <2>1, Sizes
  <2> HIDE DEF x, q
  <2>3. x \div PageSize \in 0 .. q - 1
    BY ONLY <2>2, Sizes, QuotientBelow
  <2>4. QED
    BY <2>3, Sizes DEF x, q
<1>5. QED
  BY <1>3, <1>4, Sizes DEF Floor, Ceil, Vpns, Bounds, va

(* The trampoline is a page.                                               *)
LEMMA TrampolineIsPage == TrampolineVpn \in Vpns
<1>1. TRAMPOLINE \in Int
  BY Sizes DEF TRAMPOLINE, WordEnd
<1>2. QED
  BY <1>1, VpnBounds DEF TrampolineVpn

-------------------------------------------------------------------------------
(* The walk and the tree. *)

(* The tables of a tree, level by level.                                   *)
LEMMA TreeLevels ==
  ASSUME NEW m, NEW r, NEW T, Tree(m, r, T), NEW v \in Vpns, Reaches(m, r, v)
  PROVE  /\ Mid(m, r, v) \in Mids(m, r) /\ Mid(m, r, v) \in T
         /\ Low(m, r, v) \in T /\ Low(m, r, v) \notin Inner(m, r)
<1> DEFINE i == Indexes(v)[1]
           j == Indexes(v)[2]
           u == m[r][i].ppn
           x == m[u][j].ppn
<1>1. i \in Indices /\ j \in Indices
  BY IndexesOf
<1> HIDE DEF i, j
<1>2. IsValid(m[r][i]) /\ IsValid(m[u][j])
  BY DEF Reaches, Mid, i, j
<1>3. u \in Mids(m, r)
  BY <1>1, <1>2 DEF Mids
<1>4. r \in Inner(m, r) /\ u \in Inner(m, r)
  BY <1>3 DEF Inner
<1> HIDE DEF u, x
<1>5. x \in T
  BY <1>1, <1>2, <1>4 DEF Tree, x
<1>6. u \in T /\ r \notin T
  BY <1>1, <1>2, <1>4 DEF Tree, u
<1>7. ASSUME x \in Mids(m, r) PROVE FALSE
  <2>1. PICK k \in Indices : IsValid(m[r][k]) /\ m[r][k].ppn = x
    BY <1>7 DEF Mids
  <2>2. r = u
    BY <1>1, <1>2, <1>4, <2>1 DEF Tree, x
  <2>3. QED
    BY <1>6, <2>2
<1>8. x \notin Inner(m, r)
  BY <1>5, <1>6, <1>7 DEF Inner
<1>9. QED
  BY <1>3, <1>5, <1>6, <1>8 DEF Mid, Low, u, x, i, j

(* Two pages reached in the same leaf table have the same first indexes.   *)
LEMMA LeafPlace ==
  ASSUME NEW m, NEW r, NEW T, Tree(m, r, T), NEW v \in Vpns, NEW w \in Vpns,
         Reaches(m, r, v), Reaches(m, r, w), Low(m, r, v) = Low(m, r, w),
         Indexes(v)[3] = Indexes(w)[3]
  PROVE  v = w
<1>1. /\ Indexes(v)[1] \in Indices /\ Indexes(v)[2] \in Indices
      /\ Indexes(w)[1] \in Indices /\ Indexes(w)[2] \in Indices
  BY IndexesOf
<1>2. Mid(m, r, v) \in Inner(m, r) /\ Mid(m, r, w) \in Inner(m, r) /\ r \in Inner(m, r)
  BY TreeLevels DEF Inner
<1>3. /\ IsValid(m[r][Indexes(v)[1]]) /\ IsValid(m[Mid(m, r, v)][Indexes(v)[2]])
      /\ IsValid(m[r][Indexes(w)[1]]) /\ IsValid(m[Mid(m, r, w)][Indexes(w)[2]])
  BY DEF Reaches
<1>4. m[Mid(m, r, v)][Indexes(v)[2]].ppn = m[Mid(m, r, w)][Indexes(w)[2]].ppn
  BY DEF Low
<1>5. Mid(m, r, v) = Mid(m, r, w) /\ Indexes(v)[2] = Indexes(w)[2]
  BY <1>1, <1>2, <1>3, <1>4 DEF Tree
<1>6. m[r][Indexes(v)[1]].ppn = m[r][Indexes(w)[1]].ppn
  BY <1>5 DEF Mid
<1>7. Indexes(v)[1] = Indexes(w)[1]
  BY <1>1, <1>2, <1>3, <1>6 DEF Tree
<1>8. QED
  BY <1>5, <1>7, IndexesUnique

(* Two memories agree on the inner tables, and have the same tree.         *)
Agree(m, M, r) == \A f \in Inner(m, r) : M[f] = m[f]
SameTree(m, M, r, T) ==
    /\ Tree(M, r, T)
    /\ \A v \in Vpns : Reaches(M, r, v) <=> Reaches(m, r, v)
    /\ \A v \in Vpns : Reaches(m, r, v) => Low(M, r, v) = Low(m, r, v)

(* What changes below the inner tables leaves the tree as it is.           *)
LEMMA SameInner ==
  ASSUME NEW m, NEW M, NEW r, NEW T, Tree(m, r, T), Agree(m, M, r)
  PROVE  SameTree(m, M, r, T)
<1> USE DEF Agree
<1>1. r \in Inner(m, r) /\ M[r] = m[r]
  BY DEF Inner
<1>2. Mids(M, r) = Mids(m, r)
  BY <1>1 DEF Mids
<1>3. Inner(M, r) = Inner(m, r)
  BY <1>2 DEF Inner
<1>4. Tree(M, r, T)
  BY <1>3 DEF Tree
<1>5. ASSUME NEW v \in Vpns
      PROVE  /\ Reaches(M, r, v) <=> Reaches(m, r, v)
             /\ Reaches(m, r, v) => Low(M, r, v) = Low(m, r, v)
  <2>1. Mid(M, r, v) = Mid(m, r, v)
    BY <1>1 DEF Mid
  <2>2. Indexes(v)[1] \in Indices
    BY IndexesOf
  <2>3. IsValid(m[r][Indexes(v)[1]]) => Mid(m, r, v) \in Inner(m, r)
    BY <2>2 DEF Inner, Mids, Mid
  <2>4. QED
    BY <1>1, <2>1, <2>3 DEF Reaches, Low
<1>6. QED
  BY <1>4, <1>5 DEF SameTree

(* Two memories agree on the tables of a tree.                             *)
SameOn(m, M, r, T) == \A f \in {r} \cup T : M[f] = m[f]

(* A memory that agrees on all of a tree's tables has the same leaves.     *)
LEMMA SameTables ==
  ASSUME NEW m, NEW M, NEW r, NEW T, Tree(m, r, T), SameOn(m, M, r, T)
  PROVE  /\ Tree(M, r, T)
         /\ \A v \in Vpns : Reaches(M, r, v) <=> Reaches(m, r, v)
         /\ \A v \in Vpns : Maps(M, r, v) <=> Maps(m, r, v)
         /\ \A v \in Vpns : Maps(m, r, v) => Pte(M, r, v) = Pte(m, r, v)
<1>1. Inner(m, r) \subseteq {r} \cup T
  BY DEF Inner, Mids, Tree
<1>2. /\ Tree(M, r, T)
      /\ \A v \in Vpns : Reaches(M, r, v) <=> Reaches(m, r, v)
      /\ \A v \in Vpns : Reaches(m, r, v) => Low(M, r, v) = Low(m, r, v)
  <2>1. Agree(m, M, r)
    BY <1>1 DEF Agree, SameOn
  <2>2. QED
    BY <2>1, SameInner DEF SameTree
<1>3. \A v \in Vpns : Reaches(m, r, v) => Pte(M, r, v) = Pte(m, r, v)
  BY <1>2, TreeLevels DEF Pte, SameOn
<1>4. QED
  BY <1>2, <1>3 DEF Maps

(* The memory with one entry replaced.                                     *)
Store(m, f, i, e) == [m EXCEPT ![f][i] = e]

(* One entry of the memory is replaced.                                    *)
LEMMA StoreFacts ==
  ASSUME NEW m \in Memories, NEW f \in Frames, NEW i \in Indices, NEW e \in Entries
  PROVE  /\ Store(m, f, i, e) \in Memories
         /\ Store(m, f, i, e)[f][i] = e
         /\ \A g \in Frames, k \in Indices :
              ~(g = f /\ k = i) => Store(m, f, i, e)[g][k] = m[g][k]
         /\ \A g \in Frames : g # f => Store(m, f, i, e)[g] = m[g]
BY DEF Store, Memories

(* An entry is stored where it is already.                                 *)
LEMMA StoreSame ==
  ASSUME NEW m \in Memories, NEW f \in Frames, NEW i \in Indices
  PROVE  Store(m, f, i, m[f][i]) = m
<1> DEFINE M == Store(m, f, i, m[f][i])
<1>1. m[f][i] \in Entries
  BY DEF Memories
<1>2. M \in Memories /\ \A g \in Frames, k \in Indices : M[g][k] = m[g][k]
  BY <1>1, StoreFacts
<1> HIDE DEF M
<1>3. \A g \in Frames : M[g] = m[g]
  BY <1>2 DEF Memories
<1>4. M = m
  BY <1>2, <1>3 DEF Memories
<1>5. QED
  BY <1>4 DEF M

(* A table entry is an entry.                                              *)
LEMMA EntryFacts ==
  /\ \A t \in 0 .. FrameEnd, p \in SUBSET Flags :
        Entry(t, p) \in Entries /\ IsValid(Entry(t, p)) /\ Entry(t, p).ppn = t
  /\ ~IsValid(Empty) /\ Empty \in Entries
BY Sizes DEF Entry, Entries, IsValid, Flags, Empty

(* The blank frame t can become a table below entry i of the inner table f. *)
Addable(m, r, T, f, i, t) ==
    /\ m \in Memories /\ Tree(m, r, T)
    /\ f \in Inner(m, r) /\ i \in Indices /\ ~IsValid(m[f][i])
    /\ t \in Frames /\ t \notin T /\ t # r /\ \A k \in Indices : m[t][k] = Empty

(* Memory M has it there, and maps what m maps.                            *)
Added(m, M, r, T, f, i, t) ==
    /\ M \in Memories /\ Tree(M, r, T \cup {t})
    /\ \A v \in Vpns : Maps(M, r, v) <=> Maps(m, r, v)
    /\ \A v \in Vpns : Maps(m, r, v) => Pte(M, r, v) = Pte(m, r, v)
    /\ \A v \in Vpns : f = r /\ i = Indexes(v)[1] => Mid(M, r, v) = t /\ t \in Inner(M, r)
    /\ \A v \in Vpns : f = Mid(m, r, v) /\ f # r /\ i = Indexes(v)[2]
                         => Low(M, r, v) = t /\ Mid(M, r, v) = f

(* A table is added; nothing is mapped by that.                            *)
LEMMA AddTable ==
  ASSUME NEW m, NEW r, NEW T, NEW f, NEW i, NEW t, Addable(m, r, T, f, i, t)
  PROVE  Added(m, Store(m, f, i, Entry(t, {})), r, T, f, i, t)
<1>a. /\ m \in Memories /\ Tree(m, r, T)
      /\ f \in Inner(m, r) /\ i \in Indices /\ ~IsValid(m[f][i])
      /\ t \in Frames /\ t \notin T /\ t # r /\ \A k \in Indices : m[t][k] = Empty
  BY DEF Addable
<1> USE <1>a
<1> DEFINE M == Store(m, f, i, Entry(t, {}))
<1>0. /\ Entry(t, {}) \in Entries /\ IsValid(Entry(t, {})) /\ Entry(t, {}).ppn = t
      /\ ~IsValid(Empty)
  BY EntryFacts, Sizes DEF Frames
<1>1. r \in Frames /\ T \subseteq Frames /\ r \notin T
  BY DEF Tree
<1>2. Inner(m, r) \subseteq {r} \cup T /\ r \in Inner(m, r)
  BY DEF Inner, Mids, Tree
<1>3. f \in Frames /\ f # t
  BY <1>1, <1>2
<1>4. /\ M \in Memories /\ M[f][i] = Entry(t, {})
      /\ \A g \in Frames, k \in Indices : ~(g = f /\ k = i) => M[g][k] = m[g][k]
      /\ \A g \in Frames : g # f => M[g] = m[g]
  BY <1>0, <1>3, StoreFacts
<1> HIDE DEF M
<1>5. Inner(M, r) = IF f = r THEN Inner(m, r) \cup {t} ELSE Inner(m, r)
  <2>1. CASE f # r
    <3>1. M[r] = m[r]
      BY <1>1, <1>4, <2>1
    <3>2. QED
      BY <2>1, <3>1 DEF Inner, Mids
  <2>2. CASE f = r
    <3>1. \A k \in Indices : IsValid(M[r][k]) <=> k = i \/ IsValid(m[r][k])
      BY <1>0, <1>1, <1>4, <2>2
    <3>2. \A k \in Indices : IsValid(M[r][k]) => M[r][k].ppn = IF k = i THEN t ELSE m[r][k].ppn
      BY <1>0, <1>1, <1>4, <2>2
    <3>3. \A x : x \in Mids(M, r) <=> x = t \/ x \in Mids(m, r)
      BY <2>2, <3>1, <3>2 DEF Mids
    <3>4. QED
      BY <2>2, <3>3 DEF Inner
  <2>3. QED
    BY <2>1, <2>2
<1>6. ASSUME NEW g \in Inner(M, r), NEW k \in Indices, IsValid(M[g][k])
      PROVE  \/ g = f /\ k = i /\ M[g][k] = Entry(t, {})
             \/ ~(g = f /\ k = i) /\ g \in Inner(m, r) /\ M[g][k] = m[g][k]
  <2>1. CASE g = t
    BY <1>0, <1>3, <1>4, <1>6, <2>1
  <2>2. CASE g # t
    <3>1. g \in Inner(m, r) /\ g \in Frames
      BY <1>1, <1>2, <1>5, <2>2
    <3>2. QED
      BY <1>4, <3>1
  <2>3. QED
    BY <2>1, <2>2
<1>7. \A g \in Inner(m, r), k \in Indices : IsValid(m[g][k]) =>
        g \in Inner(M, r) /\ M[g][k] = m[g][k]
  BY <1>1, <1>2, <1>4, <1>5
<1>8. f \in Inner(M, r)
  BY <1>5
<1>9. Tree(M, r, T \cup {t})
  <2>1. r \in Frames /\ T \cup {t} \subseteq Frames /\ r \notin T \cup {t}
    BY <1>1
  <2>2. ASSUME NEW g \in Inner(M, r), NEW k \in Indices, IsValid(M[g][k])
        PROVE  M[g][k].ppn \in T \cup {t} /\ M[g][k] = Entry(M[g][k].ppn, {})
    <3>1. CASE M[g][k] = Entry(t, {})
      BY <1>0, <3>1
    <3>2. CASE g \in Inner(m, r) /\ M[g][k] = m[g][k]
      BY <2>2, <3>2 DEF Tree
    <3>3. QED
      BY <1>6, <2>2, <3>1, <3>2
  <2>3. ASSUME NEW g \in Inner(M, r), NEW h \in Inner(M, r), NEW k \in Indices, NEW l \in Indices,
               IsValid(M[g][k]), IsValid(M[h][l]), M[g][k].ppn = M[h][l].ppn
        PROVE  g = h /\ k = l
    <3>1. CASE g = f /\ k = i
      <4>1. M[h][l].ppn = t
        BY <1>0, <1>4, <2>3, <3>1
      <4>2. ~(h \in Inner(m, r) /\ M[h][l] = m[h][l])
        BY <2>3, <4>1 DEF Tree
      <4>3. QED
        BY <1>6, <2>3, <3>1, <4>2
    <3>2. CASE h = f /\ l = i
      <4>1. M[g][k].ppn = t
        BY <1>0, <1>4, <2>3, <3>2
      <4>2. ~(g \in Inner(m, r) /\ M[g][k] = m[g][k])
        BY <2>3, <4>1 DEF Tree
      <4>3. QED
        BY <1>6, <2>3, <3>2, <4>2
    <3>3. CASE ~(g = f /\ k = i) /\ ~(h = f /\ l = i)
      <4>1. g \in Inner(m, r) /\ M[g][k] = m[g][k] /\ h \in Inner(m, r) /\ M[h][l] = m[h][l]
        BY <1>6, <2>3, <3>3
      <4>2. QED
        BY <2>3, <4>1 DEF Tree
    <3>4. QED
      BY <3>1, <3>2, <3>3
  <2>4. ASSUME NEW x \in T \cup {t}
        PROVE  \E g \in Inner(M, r), k \in Indices : IsValid(M[g][k]) /\ M[g][k].ppn = x
    <3>1. CASE x = t
      BY <1>0, <1>4, <1>8, <3>1
    <3>2. CASE x \in T
      <4>1. PICK g \in Inner(m, r), k \in Indices : IsValid(m[g][k]) /\ m[g][k].ppn = x
        BY <3>2 DEF Tree
      <4>2. QED
        BY <1>7, <4>1
    <3>3. QED
      BY <3>1, <3>2
  <2>5. QED
    BY <2>1, <2>2, <2>3, <2>4 DEF Tree
<1>10. ASSUME NEW v \in Vpns, Maps(m, r, v)
       PROVE  Maps(M, r, v) /\ Pte(M, r, v) = Pte(m, r, v)
  <2>1. Indexes(v)[1] \in Indices /\ Indexes(v)[2] \in Indices /\ Indexes(v)[3] \in Indices
    BY IndexesOf
  <2>2. Reaches(m, r, v) /\ IsValid(Pte(m, r, v))
    BY <1>10 DEF Maps
  <2>3. /\ Mid(m, r, v) \in Inner(m, r) /\ Low(m, r, v) \in T /\ Low(m, r, v) \notin Inner(m, r)
    BY <2>2, TreeLevels DEF Inner
  <2>4. M[r][Indexes(v)[1]] = m[r][Indexes(v)[1]]
    BY <1>2, <1>7, <2>1, <2>2 DEF Reaches
  <2>5. Mid(M, r, v) = Mid(m, r, v)
    BY <2>4 DEF Mid
  <2>6. M[Mid(m, r, v)][Indexes(v)[2]] = m[Mid(m, r, v)][Indexes(v)[2]]
    BY <1>7, <2>1, <2>2, <2>3 DEF Reaches
  <2>7. Low(M, r, v) = Low(m, r, v)
    BY <2>5, <2>6 DEF Low
  <2>8. M[Low(m, r, v)] = m[Low(m, r, v)]
    BY <1>1, <1>4, <2>3
  <2>9. QED
    BY <2>2, <2>4, <2>5, <2>6, <2>7, <2>8 DEF Maps, Reaches, Pte
<1>11. ASSUME NEW v \in Vpns, Maps(M, r, v) PROVE Maps(m, r, v)
  <2>1. Indexes(v)[1] \in Indices /\ Indexes(v)[2] \in Indices /\ Indexes(v)[3] \in Indices
    BY IndexesOf
  <2>2. Reaches(M, r, v) /\ IsValid(Pte(M, r, v))
    BY <1>11 DEF Maps
  <2>3. /\ Mid(M, r, v) \in Inner(M, r) /\ Low(M, r, v) \in T \cup {t}
        /\ Low(M, r, v) \notin Inner(M, r)
    BY <1>9, <2>2, TreeLevels DEF Inner
  <2>4. \A k \in Indices : ~IsValid(M[t][k])
    BY <1>0, <1>3, <1>4
  <2>5. Low(M, r, v) # t
    BY <2>1, <2>2, <2>4 DEF Pte
  <2>6. Mid(M, r, v) # t
    BY <2>1, <2>2, <2>4 DEF Reaches
  <2>7. IsValid(M[r][Indexes(v)[1]]) /\ M[r][Indexes(v)[1]].ppn # t
    BY <2>2, <2>6 DEF Reaches, Mid
  <2>8. M[r][Indexes(v)[1]] = m[r][Indexes(v)[1]]
    BY <1>0, <1>1, <1>4, <2>1, <2>7
  <2>9. Mid(M, r, v) = Mid(m, r, v)
    BY <2>8 DEF Mid
  <2>10. /\ IsValid(M[Mid(m, r, v)][Indexes(v)[2]])
         /\ M[Mid(m, r, v)][Indexes(v)[2]].ppn # t
    BY <2>2, <2>5, <2>9 DEF Reaches, Low
  <2>11. M[Mid(m, r, v)][Indexes(v)[2]] = m[Mid(m, r, v)][Indexes(v)[2]]
    <3>1. Mid(m, r, v) \in Frames
      BY <1>1, <1>2, <1>5, <2>3, <2>9
    <3>2. QED
      BY <1>0, <1>4, <2>1, <2>10, <3>1
  <2>12. Low(M, r, v) = Low(m, r, v)
    BY <2>9, <2>11 DEF Low
  <2>13. M[Low(m, r, v)] = m[Low(m, r, v)]
    BY <1>1, <1>4, <1>8, <2>3, <2>12
  <2>14. QED
    BY <2>2, <2>8, <2>9, <2>11, <2>12, <2>13 DEF Maps, Reaches, Pte
<1>12. ASSUME NEW v \in Vpns, f = r, i = Indexes(v)[1]
       PROVE  Mid(M, r, v) = t /\ t \in Inner(M, r)
  BY <1>0, <1>4, <1>5, <1>12 DEF Mid
<1>13. ASSUME NEW v \in Vpns, f = Mid(m, r, v), f # r, i = Indexes(v)[2]
       PROVE  Low(M, r, v) = t /\ Mid(M, r, v) = f
  BY <1>0, <1>1, <1>4, <1>13 DEF Mid, Low
<1>14. QED
  BY <1>4, <1>9, <1>10, <1>11, <1>12, <1>13 DEF M, Added

(* The tables that are missing on the way to v in memory m.                *)
Lacks(m, r, v) == IF ~IsValid(m[r][Indexes(v)[1]]) THEN 2
                  ELSE IF ~IsValid(m[Mid(m, r, v)][Indexes(v)[2]]) THEN 1 ELSE 0

(* The frames `new` can be the tables that are missing on the way to v.    *)
Suits(m, r, T, v, new) ==
    /\ new \in Seq(Frames) /\ Len(new) = Lacks(m, r, v) /\ IsInjective(new)
    /\ \A n \in 1 .. Len(new) : /\ new[n] \notin T /\ new[n] # r
                                /\ \A k \in Indices : m[new[n]][k] = Empty

(* The memory once find_pte_create has added them, and the tables on the   *)
(* way to v in it.                                                         *)
Top(m, r, v, new) == IF Len(new) = 2 THEN new[1] ELSE Mid(m, r, v)
Bottom(m, r, v, new) == IF Len(new) >= 1 THEN new[Len(new)]
                        ELSE m[Top(m, r, v, new)][Indexes(v)[2]].ppn
Upper(m, r, v, new) == Store(m, r, Indexes(v)[1], Entry(Top(m, r, v, new), {}))
Way(m, r, v, new) == Store(Upper(m, r, v, new), Top(m, r, v, new), Indexes(v)[2],
                           Entry(Bottom(m, r, v, new), {}))

(* MapEntry is find_pte_create and one store.                              *)
LEMMA MapEntrySteps ==
  ASSUME NEW m, NEW r, NEW v, NEW e, NEW new
  PROVE  MapEntry(m, r, v, e, new)
           = Store(Way(m, r, v, new), Bottom(m, r, v, new), Indexes(v)[3], e)
BY DEF MapEntry, Store, Way, Upper, Top, Bottom, Mid

(* find_pte_create leaves a tree with the new tables in it, in which v is  *)
(* reached and everything that was mapped is mapped as before.             *)
LEMMA FindPteCreate ==
  ASSUME NEW m \in Memories, NEW r, NEW T, Tree(m, r, T), NEW v \in Vpns, NEW new,
         Suits(m, r, T, v, new)
  PROVE  LET M == Way(m, r, v, new) IN
         /\ M \in Memories /\ Tree(M, r, T \cup ToSet(new))
         /\ \A w \in Vpns : Maps(M, r, w) <=> Maps(m, r, w)
         /\ \A w \in Vpns : Maps(m, r, w) => Pte(M, r, w) = Pte(m, r, w)
         /\ Reaches(M, r, v) /\ Low(M, r, v) = Bottom(m, r, v, new)
         /\ \A f \in Frames \ ({r} \cup T \cup ToSet(new)) : M[f] = m[f]
<1> DEFINE i == Indexes(v)[1]
           j == Indexes(v)[2]
           t == Top(m, r, v, new)
           b == Bottom(m, r, v, new)
           U == Upper(m, r, v, new)
           M == Way(m, r, v, new)
<1>0. i \in Indices /\ j \in Indices
  BY IndexesOf
<1>1. /\ r \in Frames /\ T \subseteq Frames /\ r \notin T /\ r \in Inner(m, r)
      /\ Inner(m, r) \subseteq {r} \cup T
  BY DEF Tree, Inner, Mids
<1>2. /\ new \in Seq(Frames) /\ Len(new) = Lacks(m, r, v)
      /\ \A n \in 1 .. Len(new) : /\ new[n] \in Frames /\ new[n] \notin T /\ new[n] # r
                                  /\ \A k \in Indices : m[new[n]][k] = Empty
  BY DEF Suits
<1>3. /\ \A x \in Frames : /\ Entry(x, {}) \in Entries /\ IsValid(Entry(x, {}))
                           /\ Entry(x, {}).ppn = x
      /\ ~IsValid(Empty)
  BY EntryFacts, Sizes DEF Frames
<1>4. U = Store(m, r, i, Entry(t, {})) /\ M = Store(U, t, j, Entry(b, {}))
  BY DEF Upper, Way
<1>5. CASE Lacks(m, r, v) = 2
  <2>1. ~IsValid(m[r][i])
    BY <1>5 DEF Lacks
  <2> DEFINE n1 == new[1]
             n2 == new[2]
  <2>2. Len(new) = 2 /\ t = n1 /\ b = n2
    BY <1>2, <1>5 DEF Top, Bottom
  <2>3. /\ n1 \in Frames /\ n1 \notin T /\ n1 # r /\ \A k \in Indices : m[n1][k] = Empty
        /\ n2 \in Frames /\ n2 \notin T /\ n2 # r /\ \A k \in Indices : m[n2][k] = Empty
    BY <1>2, <2>2
  <2>4. n1 # n2
    BY <1>2, <2>2 DEF Suits, IsInjective
  <2>5. ToSet(new) = {n1, n2}
    <3>1. DOMAIN new = {1, 2}
      BY <1>2, <2>2
    <3>2. QED
      BY <3>1 DEF ToSet
  <2>e. Entry(n1, {}) \in Entries /\ Entry(n2, {}) \in Entries
    BY <1>3, <2>3
  <2>u. U = Store(m, r, i, Entry(n1, {})) /\ M = Store(U, n1, j, Entry(n2, {}))
    BY <1>4, <2>2
  <2> HIDE DEF n1, n2, U, M, t, b, i, j
  <2>6. /\ U \in Memories /\ Tree(U, r, T \cup {n1})
        /\ \A w \in Vpns : Maps(U, r, w) <=> Maps(m, r, w)
        /\ \A w \in Vpns : Maps(m, r, w) => Pte(U, r, w) = Pte(m, r, w)
        /\ Mid(U, r, v) = n1 /\ n1 \in Inner(U, r)
    <3>1. Addable(m, r, T, r, i, n1)
      BY <1>0, <1>1, <2>1, <2>3 DEF Addable
    <3>2. Added(m, U, r, T, r, i, n1)
      BY <2>u, <3>1, AddTable
    <3>3. QED
      BY <3>2 DEF i, Added
  <2>7. \A g \in Frames : g # r => U[g] = m[g]
    BY <1>0, <1>1, <2>u, <2>e, StoreFacts
  <2>8. ~IsValid(U[n1][j]) /\ \A k \in Indices : U[n2][k] = Empty
    BY <1>0, <1>3, <2>3, <2>7
  <2>9. U[r][i] = Entry(n1, {})
    BY <1>0, <1>1, <2>u, <2>e, StoreFacts
  <2>10. /\ M \in Memories /\ Tree(M, r, (T \cup {n1}) \cup {n2})
         /\ \A w \in Vpns : Maps(M, r, w) <=> Maps(U, r, w)
         /\ \A w \in Vpns : Maps(U, r, w) => Pte(M, r, w) = Pte(U, r, w)
         /\ Low(M, r, v) = n2 /\ Mid(M, r, v) = n1
    <3>1. Addable(U, r, T \cup {n1}, n1, j, n2)
      BY <1>0, <1>1, <2>3, <2>4, <2>6, <2>8 DEF Addable
    <3>2. Added(U, M, r, T \cup {n1}, n1, j, n2)
      BY <2>u, <3>1, AddTable
    <3>3. QED
      BY <2>3, <2>6, <3>2 DEF j, Added
  <2>11. /\ M[n1][j] = Entry(n2, {}) /\ \A g \in Frames : g # n1 => M[g] = U[g]
    <3>1. /\ U \in Memories /\ n1 \in Frames /\ j \in Indices /\ Entry(n2, {}) \in Entries
          /\ M = Store(U, n1, j, Entry(n2, {}))
      BY <1>0, <2>u, <2>e, <2>3, <2>6
    <3> DEFINE e == Entry(n2, {})
    <3> HIDE DEF e
    <3>2. /\ U \in Memories /\ n1 \in Frames /\ j \in Indices /\ e \in Entries
          /\ M = Store(U, n1, j, e)
      BY <3>1 DEF e
    <3>3. M[n1][j] = e /\ \A g \in Frames : g # n1 => M[g] = U[g]
      BY ONLY <3>2, StoreFacts
    <3>4. QED
      BY <3>3 DEF e
  <2>12. IsValid(M[r][i]) /\ IsValid(M[n1][j])
    BY <1>1, <1>3, <2>3, <2>9, <2>11
  <2>13. Reaches(M, r, v)
    BY <2>10, <2>12 DEF Reaches, i, j
  <2>14. (T \cup {n1}) \cup {n2} = T \cup ToSet(new)
    BY <2>5
  <2>15. \A f \in Frames \ ({r} \cup T \cup ToSet(new)) : M[f] = m[f]
    BY <2>5, <2>7, <2>11
  <2>16. QED
    BY <2>2, <2>6, <2>10, <2>13, <2>14, <2>15 DEF M, b
<1>6. CASE Lacks(m, r, v) # 2
  <2>1. IsValid(m[r][i])
    BY <1>6 DEF Lacks, i
  <2>2. t = Mid(m, r, v) /\ m[r][i] = Entry(t, {}) /\ t \in Inner(m, r) /\ t \in T
    <3>1. t = Mid(m, r, v)
      BY <1>2, <1>6 DEF Top
    <3>2. m[r][i].ppn = t
      BY <3>1 DEF Mid
    <3> HIDE DEF t, i
    <3>3. t \in Inner(m, r)
      BY <1>0, <2>1, <3>2 DEF Inner, Mids
    <3>4. t \in T /\ m[r][i] = Entry(t, {})
      BY <1>0, <1>1, <2>1, <3>2 DEF Tree
    <3>5. QED
      BY <3>1, <3>3, <3>4
  <2>3. U = m
    BY <1>0, <1>1, <1>4, <2>2, StoreSame
  <2>4. CASE Lacks(m, r, v) = 1
    <3>1. ~IsValid(m[t][j])
      BY <2>1, <2>2, <2>4 DEF Lacks
    <3> DEFINE n1 == new[1]
    <3>2. Len(new) = 1 /\ b = n1 /\ n1 \in Frames /\ n1 \notin T /\ n1 # r
          /\ \A k \in Indices : m[n1][k] = Empty
      BY <1>2, <2>4 DEF Bottom
    <3>3. ToSet(new) = {n1}
      <4>1. DOMAIN new = {1}
        BY <1>2, <3>2
      <4>2. QED
        BY <4>1 DEF ToSet
    <3>u. M = Store(m, t, j, Entry(n1, {})) /\ Entry(n1, {}) \in Entries /\ t \in Frames
      BY <1>1, <1>3, <1>4, <2>2, <2>3, <3>2
    <3> HIDE DEF n1, U, M, t, b, i, j
    <3>4. /\ M \in Memories /\ Tree(M, r, T \cup {n1})
          /\ \A w \in Vpns : Maps(M, r, w) <=> Maps(m, r, w)
          /\ \A w \in Vpns : Maps(m, r, w) => Pte(M, r, w) = Pte(m, r, w)
          /\ Low(M, r, v) = n1 /\ Mid(M, r, v) = t
      <4>1. Addable(m, r, T, t, j, n1)
        BY <1>0, <1>1, <2>2, <3>1, <3>2 DEF Addable
      <4>2. t # r
        BY <1>1, <2>2
      <4>3. Added(m, M, r, T, t, j, n1)
        BY <3>u, <4>1, AddTable
      <4>4. QED
        BY <2>2, <4>2, <4>3 DEF j, Added
    <3>5. /\ M[t][j] = Entry(n1, {}) /\ \A g \in Frames : g # t => M[g] = m[g]
      BY <1>0, <3>u, StoreFacts
    <3>6. IsValid(M[r][i]) /\ IsValid(M[t][j])
      BY <1>1, <1>3, <2>1, <2>2, <3>2, <3>5
    <3>7. Reaches(M, r, v)
      BY <3>4, <3>6 DEF Reaches, i, j
    <3>8. \A f \in Frames \ ({r} \cup T \cup ToSet(new)) : M[f] = m[f]
      BY <2>2, <3>5
    <3>9. QED
      BY <3>2, <3>3, <3>4, <3>7, <3>8 DEF M, b
  <2>5. CASE Lacks(m, r, v) # 1
    <3>1. IsValid(m[t][j])
      BY <2>1, <2>2, <2>5 DEF Lacks
    <3>2. Len(new) = 0
      BY <1>2, <1>6, <2>5 DEF Lacks
    <3>3. b = m[t][j].ppn
      BY <3>2 DEF Bottom
    <3>4. m[t][j] = Entry(b, {})
      <4> HIDE DEF t, b, j
      <4>1. QED
        BY <1>0, <2>2, <3>1, <3>3 DEF Tree
    <3>5. M = m
      BY <1>0, <1>1, <1>4, <2>2, <2>3, <3>4, StoreSame
    <3>6. Reaches(m, r, v) /\ Low(m, r, v) = b
      BY <2>1, <2>2, <3>1, <3>3 DEF Reaches, Low
    <3>7. ToSet(new) = {}
      BY <1>2, <3>2 DEF ToSet
    <3> HIDE DEF M
    <3>8. T \cup ToSet(new) = T
      BY <3>7
    <3>9. QED
      BY <3>5, <3>6, <3>8 DEF M
  <2>6. QED
    BY <2>4, <2>5
<1>7. QED
  BY <1>5, <1>6

(* Memory M maps what m maps and v, which has entry e; T are the tables    *)
(* below root r of M.                                                      *)
Extended(m, M, r, T, v, e) ==
    /\ M \in Memories /\ Tree(M, r, T)
    /\ \A w \in Vpns : Maps(M, r, w) <=> w = v \/ Maps(m, r, w)
    /\ Pte(M, r, v) = e
    /\ \A w \in Vpns : Maps(m, r, w) => Pte(M, r, w) = Pte(m, r, w)
    /\ \A f \in Frames \ ({r} \cup T) : M[f] = m[f]

(* PageTable::map maps one page and leaves the others alone.               *)
LEMMA MapEntryMaps ==
  ASSUME NEW m \in Memories, NEW r, NEW T, Tree(m, r, T), NEW v \in Vpns, NEW new,
         Suits(m, r, T, v, new), ~Maps(m, r, v), NEW e \in Entries, IsValid(e)
  PROVE  Extended(m, MapEntry(m, r, v, e, new), r, T \cup ToSet(new), v, e)
<1> DEFINE W == Way(m, r, v, new)
           b == Bottom(m, r, v, new)
           k == Indexes(v)[3]
           M == MapEntry(m, r, v, e, new)
           S == T \cup ToSet(new)
<1>1. /\ W \in Memories /\ Tree(W, r, S)
      /\ \A w \in Vpns : Maps(W, r, w) <=> Maps(m, r, w)
      /\ \A w \in Vpns : Maps(m, r, w) => Pte(W, r, w) = Pte(m, r, w)
      /\ Reaches(W, r, v) /\ Low(W, r, v) = b
      /\ \A f \in Frames \ ({r} \cup S) : W[f] = m[f]
  <2>1. LET X == Way(m, r, v, new) IN
        /\ X \in Memories /\ Tree(X, r, T \cup ToSet(new))
        /\ \A w \in Vpns : Maps(X, r, w) <=> Maps(m, r, w)
        /\ \A w \in Vpns : Maps(m, r, w) => Pte(X, r, w) = Pte(m, r, w)
        /\ Reaches(X, r, v) /\ Low(X, r, v) = Bottom(m, r, v, new)
        /\ \A f \in Frames \ ({r} \cup T \cup ToSet(new)) : X[f] = m[f]
    BY FindPteCreate
  <2>2. QED
    BY <2>1
<1>2. M = Store(W, b, k, e)
  BY MapEntrySteps
<1>3. k \in Indices
  BY IndexesOf
<1> HIDE DEF W, b, M, S
<1>4. b \in S /\ b \notin Inner(W, r)
  BY <1>1, TreeLevels
<1>5. S \subseteq Frames
  BY <1>1 DEF Tree
<1>6. /\ M \in Memories /\ M[b][k] = e
      /\ \A g \in Frames, l \in Indices : ~(g = b /\ l = k) => M[g][l] = W[g][l]
      /\ \A g \in Frames : g # b => M[g] = W[g]
  BY <1>1, <1>2, <1>3, <1>4, <1>5, StoreFacts
<1>7. Inner(W, r) \subseteq Frames
  BY <1>1, <1>5 DEF Inner, Mids, Tree
<1>8. \A f \in Inner(W, r) : M[f] = W[f]
  BY <1>4, <1>6, <1>7
<1>9. /\ Tree(M, r, S)
      /\ \A w \in Vpns : Reaches(M, r, w) <=> Reaches(W, r, w)
      /\ \A w \in Vpns : Reaches(W, r, w) => Low(M, r, w) = Low(W, r, w)
  <2>1. Tree(W, r, S) /\ Agree(W, M, r)
    BY <1>1, <1>8 DEF Agree
  <2>2. QED
    BY <2>1, SameInner DEF SameTree
<1>10. Pte(M, r, v) = e /\ Maps(M, r, v)
  BY <1>1, <1>6, <1>9 DEF Pte, Maps, k
<1>11. ASSUME NEW w \in Vpns, w # v, Reaches(W, r, w)
       PROVE  Pte(M, r, w) = Pte(W, r, w)
  <2>1. ~(Low(W, r, w) = b /\ Indexes(w)[3] = k)
    BY <1>1, <1>11, LeafPlace DEF k
  <2>2. Low(W, r, w) \in Frames /\ Indexes(w)[3] \in Indices
    BY <1>1, <1>5, <1>11, TreeLevels, IndexesOf
  <2>3. QED
    BY <1>6, <1>9, <1>11, <2>1, <2>2 DEF Pte
<1>12. \A w \in Vpns : w # v => (Maps(M, r, w) <=> Maps(m, r, w))
  BY <1>1, <1>9, <1>11 DEF Maps
<1>13. \A w \in Vpns : Maps(m, r, w) => Pte(M, r, w) = Pte(m, r, w)
  BY <1>1, <1>11 DEF Maps
<1>14. \A f \in Frames \ ({r} \cup S) : M[f] = m[f]
  BY <1>1, <1>4, <1>6
<1>15. QED
  BY <1>6, <1>9, <1>10, <1>12, <1>13, <1>14 DEF Extended, M, S

(* The memory after the entries of the pages V were cleared.               *)
Unmapped(m, r, V) ==
    [f \in Frames |-> [k \in Indices |->
        IF \E v \in V : <<Low(m, r, v), Indexes(v)[3]>> = <<f, k>> THEN Empty ELSE m[f][k]]]

(* PageTable::unmap, for the pages V, leaves the others alone.             *)
LEMMA UnmapClears ==
  ASSUME NEW m \in Memories, NEW r, NEW T, Tree(m, r, T), NEW V, V \subseteq Vpns,
         \A v \in V : Maps(m, r, v)
  PROVE  LET M == Unmapped(m, r, V) IN
         /\ M \in Memories /\ Tree(M, r, T)
         /\ \A w \in Vpns : Maps(M, r, w) <=> Maps(m, r, w) /\ w \notin V
         /\ \A w \in Vpns : Maps(M, r, w) => Pte(M, r, w) = Pte(m, r, w)
         /\ \A f \in Frames \ T : M[f] = m[f]
<1> DEFINE M == Unmapped(m, r, V)
           Gone(f, k) == \E v \in V : Low(m, r, v) = f /\ Indexes(v)[3] = k
<1>1. \A f \in Frames, k \in Indices : M[f][k] = IF Gone(f, k) THEN Empty ELSE m[f][k]
  BY DEF Unmapped
<1>2. M \in Memories
  <2>1. \A f \in Frames, k \in Indices : (IF Gone(f, k) THEN Empty ELSE m[f][k]) \in Entries
    BY EntryFacts DEF Memories
  <2>2. QED
    BY <2>1 DEF Unmapped, Memories
<1>3. \A f \in Frames : (\A k \in Indices : ~Gone(f, k)) => M[f] = m[f]
  <2> SUFFICES ASSUME NEW f \in Frames, \A k \in Indices : ~Gone(f, k) PROVE M[f] = m[f]
    OBVIOUS
  <2> HIDE DEF M, Gone
  <2>1. M[f] \in [Indices -> Entries] /\ m[f] \in [Indices -> Entries]
    BY <1>2 DEF Memories
  <2>2. \A k \in Indices : M[f][k] = m[f][k]
    BY <1>1
  <2>3. QED
    BY <2>1, <2>2
<1>4. \A v \in V : v \in Vpns /\ Reaches(m, r, v) /\ Low(m, r, v) \in T /\ Low(m, r, v) \notin Inner(m, r)
  BY TreeLevels DEF Maps
<1> HIDE DEF M
<1>5. \A f, k : Gone(f, k) => f \in T /\ f \notin Inner(m, r)
  BY <1>4
<1>6. T \subseteq Frames /\ Inner(m, r) \subseteq Frames
  BY DEF Tree, Inner, Mids
<1>7. \A f \in Inner(m, r) : M[f] = m[f]
  BY <1>3, <1>5, <1>6
<1>8. /\ Tree(M, r, T)
      /\ \A w \in Vpns : Reaches(M, r, w) <=> Reaches(m, r, w)
      /\ \A w \in Vpns : Reaches(m, r, w) => Low(M, r, w) = Low(m, r, w)
  <2>1. Agree(m, M, r)
    BY <1>7 DEF Agree
  <2>2. QED
    BY <2>1, SameInner DEF SameTree
<1>9. ASSUME NEW w \in Vpns, Reaches(m, r, w)
      PROVE  Pte(M, r, w) = IF w \in V THEN Empty ELSE Pte(m, r, w)
  <2>1. Low(m, r, w) \in Frames /\ Indexes(w)[3] \in Indices
    BY <1>6, <1>9, TreeLevels, IndexesOf
  <2>2. Gone(Low(m, r, w), Indexes(w)[3]) <=> w \in V
    BY <1>4, <1>9, LeafPlace
  <2>3. Pte(M, r, w) = M[Low(m, r, w)][Indexes(w)[3]]
    BY <1>8, <1>9 DEF Pte
  <2> HIDE DEF Gone
  <2>4. QED
    BY <1>1, <2>1, <2>2, <2>3 DEF Pte
<1>10. \A w \in Vpns : Maps(M, r, w) <=> Maps(m, r, w) /\ w \notin V
  BY <1>8, <1>9, EntryFacts DEF Maps
<1>11. \A w \in Vpns : Maps(M, r, w) => Pte(M, r, w) = Pte(m, r, w)
  BY <1>9, <1>10 DEF Maps
<1>12. \A f \in Frames \ T : M[f] = m[f]
  BY <1>3, <1>5
<1>13. QED
  BY <1>2, <1>8, <1>10, <1>11, <1>12 DEF M

-------------------------------------------------------------------------------
(* Sequences of frames and the allocator. *)

(* The frames of a sequence, by index.                                     *)
LEMMA InSeq ==
  ASSUME NEW S, NEW s \in Seq(S), NEW f
  PROVE  f \in ToSet(s) <=> \E i \in 1 .. Len(s) : s[i] = f
BY DEF ToSet

(* A segment of a sequence.                                                *)
LEMMA CutSeq ==
  ASSUME NEW S, NEW s \in Seq(S), NEW l \in Nat \ {0}, NEW m \in Nat,
         l =< m + 1, m =< Len(s)
  PROVE  /\ SubSeq(s, l, m) \in Seq(S)
         /\ Len(SubSeq(s, l, m)) = m + 1 - l
         /\ \A i \in 1 .. m + 1 - l : SubSeq(s, l, m)[i] = s[l + i - 1]
         /\ \A f : f \in ToSet(SubSeq(s, l, m)) <=> \E i \in l .. m : s[i] = f
         /\ IsInjective(s) => IsInjective(SubSeq(s, l, m))
<1> DEFINE c == SubSeq(s, l, m)
<1>1. /\ Len(c) = m + 1 - l
      /\ \A i \in 1 .. m + 1 - l : c[i] = s[l + i - 1]
  OBVIOUS
<1>2. c \in Seq(S)
  OBVIOUS
<1> HIDE DEF c
<1>3. ASSUME NEW f PROVE f \in ToSet(c) <=> \E i \in l .. m : s[i] = f
  <2>1. ASSUME f \in ToSet(c) PROVE \E i \in l .. m : s[i] = f
    <3>1. PICK i \in 1 .. m + 1 - l : c[i] = f
      BY <1>1, <1>2, <2>1, InSeq
    <3>2. l + i - 1 \in l .. m /\ s[l + i - 1] = f
      BY <1>1, <3>1
    <3>3. QED
      BY <3>2
  <2>2. ASSUME NEW i \in l .. m, s[i] = f PROVE f \in ToSet(c)
    <3>1. i + 1 - l \in 1 .. m + 1 - l /\ l + (i + 1 - l) - 1 = i
      OBVIOUS
    <3>2. c[i + 1 - l] = f
      BY <1>1, <2>2, <3>1
    <3>3. QED
      BY <1>1, <1>2, <3>1, <3>2, InSeq
  <2>3. QED
    BY <2>1, <2>2
<1>4. ASSUME IsInjective(s) PROVE IsInjective(c)
  <2> SUFFICES ASSUME NEW i \in 1 .. m + 1 - l, NEW j \in 1 .. m + 1 - l, c[i] = c[j]
               PROVE  i = j
    BY <1>1, <1>2 DEF IsInjective
  <2>0. s[l + i - 1] = s[l + j - 1]
    BY <1>1
  <2>1. s[l + i - 1] = s[l + j - 1] /\ l + i - 1 \in 1 .. Len(s) /\ l + j - 1 \in 1 .. Len(s)
    BY <2>0
  <2>2. l + i - 1 = l + j - 1
    BY <1>4, <2>1 DEF IsInjective
  <2>3. QED
    BY <2>2
<1>5. QED
  BY <1>1, <1>2, <1>3, <1>4 DEF c

(* Two sequences joined.                                                   *)
LEMMA JoinSeq ==
  ASSUME NEW S, NEW s \in Seq(S), NEW t \in Seq(S)
  PROVE  /\ s \o t \in Seq(S)
         /\ Len(s \o t) = Len(s) + Len(t)
         /\ ToSet(s \o t) = ToSet(s) \cup ToSet(t)
         /\ IsInjective(s) /\ IsInjective(t) /\ ToSet(s) \cap ToSet(t) = {} => IsInjective(s \o t)
<1> DEFINE j == s \o t
<1>1. /\ j \in Seq(S)
      /\ Len(j) = Len(s) + Len(t)
      /\ \A i \in 1 .. Len(s) : j[i] = s[i]
      /\ \A i \in Len(s) + 1 .. Len(s) + Len(t) : j[i] = t[i - Len(s)]
  OBVIOUS
<1>0. Len(s) \in Nat /\ Len(t) \in Nat
  OBVIOUS
<1> HIDE DEF j
<1>2. ASSUME NEW f PROVE f \in ToSet(j) <=> f \in ToSet(s) \/ f \in ToSet(t)
  <2>1. ASSUME f \in ToSet(j) PROVE f \in ToSet(s) \/ f \in ToSet(t)
    <3>1. PICK i \in 1 .. Len(s) + Len(t) : j[i] = f
      BY <1>1, <2>1, InSeq
    <3>2. CASE i =< Len(s)
      BY <1>0, <1>1, <3>1, <3>2, InSeq
    <3>3. CASE i > Len(s)
      <4>1. i - Len(s) \in 1 .. Len(t) /\ t[i - Len(s)] = f
        BY <1>0, <1>1, <3>1, <3>3
      <4>2. QED
        BY <4>1, InSeq
    <3>4. QED
      BY <1>0, <3>2, <3>3
  <2>2. ASSUME f \in ToSet(s) PROVE f \in ToSet(j)
    <3>1. PICK i \in 1 .. Len(s) : s[i] = f
      BY <2>2, InSeq
    <3>2. i \in 1 .. Len(j) /\ j[i] = f
      BY <1>0, <1>1, <3>1
    <3>3. QED
      BY <1>1, <3>2, InSeq
  <2>3. ASSUME f \in ToSet(t) PROVE f \in ToSet(j)
    <3>1. PICK i \in 1 .. Len(t) : t[i] = f
      BY <2>3, InSeq
    <3>2. /\ i + Len(s) \in Len(s) + 1 .. Len(s) + Len(t)
          /\ (i + Len(s)) - Len(s) = i
          /\ i + Len(s) \in 1 .. Len(j)
      BY <1>0, <1>1
    <3>3. j[i + Len(s)] = t[(i + Len(s)) - Len(s)]
      BY <1>1, <3>2
    <3>4. QED
      BY <1>1, <3>1, <3>2, <3>3, InSeq
  <2>4. QED
    BY <2>1, <2>2, <2>3
<1>3. ASSUME IsInjective(s), IsInjective(t), ToSet(s) \cap ToSet(t) = {} PROVE IsInjective(j)
  <2> SUFFICES ASSUME NEW a \in 1 .. Len(s) + Len(t), NEW b \in 1 .. Len(s) + Len(t),
                      j[a] = j[b]
               PROVE  a = b
    BY <1>1 DEF IsInjective
  <2>1. CASE a =< Len(s) /\ b =< Len(s)
    BY <1>0, <1>1, <1>3, <2>1 DEF IsInjective
  <2>2. CASE a > Len(s) /\ b > Len(s)
    <3>1. a - Len(s) \in 1 .. Len(t) /\ b - Len(s) \in 1 .. Len(t)
      BY <1>0, <2>2
    <3>2. t[a - Len(s)] = t[b - Len(s)]
      BY <1>0, <1>1, <2>2
    <3>3. a - Len(s) = b - Len(s)
      BY <1>3, <3>1, <3>2 DEF IsInjective
    <3>4. QED
      BY <1>0, <3>3
  <2>3. ASSUME NEW x \in 1 .. Len(s), NEW y \in Len(s) + 1 .. Len(s) + Len(t), j[x] = j[y]
        PROVE  FALSE
    <3>1. j[x] \in ToSet(s)
      BY <1>1, InSeq
    <3>2. y - Len(s) \in 1 .. Len(t) /\ j[y] = t[y - Len(s)]
      BY <1>0, <1>1
    <3>3. j[y] \in ToSet(t)
      BY <3>2, InSeq
    <3>4. QED
      BY <1>3, <2>3, <3>1, <3>3
  <2>4. QED
    BY <1>0, <2>1, <2>2, <2>3
<1>4. QED
  BY <1>1, <1>2, <1>3 DEF j

-------------------------------------------------------------------------------
(* The frames below `fresh` are recycled, once, or in U.                   *)
Apart(U) ==
    /\ IsInjective(recycled) /\ U \cap ToSet(recycled) = {}
    /\ \A f \in Frames : f < fresh <=> f \in ToSet(recycled) \/ f \in U

(* What n calls of alloc() return and what they leave: the frames are      *)
(* distinct, nobody holds them, and the allocator keeps the others.        *)
LEMMA AllocFacts ==
  ASSUME fresh \in 0 .. FrameEnd, recycled \in Seq(Frames), NEW U, Apart(U),
         NEW n \in Nat, Fits(n),
         NEW old \in Nat, old =< n, old =< Len(recycled), old < n => old = Len(recycled)
  PROVE  /\ Alloc(n) \in Seq(Frames) /\ Len(Alloc(n)) = n /\ IsInjective(Alloc(n))
         /\ SubSeq(recycled, 1, Len(recycled) - old) \in Seq(Frames)
         /\ IsInjective(SubSeq(recycled, 1, Len(recycled) - old))
         /\ ToSet(SubSeq(recycled, 1, Len(recycled) - old)) \subseteq ToSet(recycled)
         /\ ToSet(SubSeq(recycled, 1, Len(recycled) - old)) \cap ToSet(Alloc(n)) = {}
         /\ U \cap ToSet(Alloc(n)) = {}
         /\ fresh + (n - old) \in 0 .. FrameEnd
         /\ \A f \in Frames : f < fresh + (n - old) <=>
                \/ f \in ToSet(SubSeq(recycled, 1, Len(recycled) - old)) \cup ToSet(Alloc(n))
                \/ f \in U
<1> DEFINE L == Len(recycled)
           a == Alloc(n)
           kept == SubSeq(recycled, 1, L - old)
<1>0. L \in Nat /\ old \in 0 .. n /\ old \in 0 .. L /\ (old < n => old = L) /\ FrameEnd \in Nat
      /\ fresh \in Nat /\ fresh =< FrameEnd
  BY FrameAssumption
<1>1. n =< L + (FrameEnd - fresh)
  BY DEF Fits
<1>2. /\ DOMAIN a = 1 .. n
      /\ \A i \in 1 .. n : a[i] = IF i =< L THEN recycled[L + 1 - i] ELSE fresh + (i - L) - 1
      /\ a = [i \in 1 .. n |-> a[i]]
  BY DEF Alloc
<1>3. /\ kept \in Seq(Frames)
      /\ \A f : f \in ToSet(kept) <=> \E i \in 1 .. L - old : recycled[i] = f
      /\ IsInjective(kept)
  <2>1. 1 \in Nat \ {0} /\ L - old \in Nat /\ 1 =< (L - old) + 1 /\ L - old =< Len(recycled)
    BY <1>0
  <2>2. IsInjective(recycled)
    BY DEF Apart
  <2> DEFINE m == L - old
  <2> HIDE DEF L, m
  <2>3. m \in Nat /\ 1 =< m + 1 /\ m =< Len(recycled)
    BY <2>1 DEF m
  <2>4. LET c == SubSeq(recycled, 1, m) IN
          /\ c \in Seq(Frames) /\ IsInjective(c)
          /\ \A f : f \in ToSet(c) <=> \E i \in 1 .. m : recycled[i] = f
    <3>1. recycled \in Seq(Frames) /\ 1 \in Nat \ {0}
      OBVIOUS
    <3>2. SubSeq(recycled, 1, m) \in Seq(Frames) /\ IsInjective(SubSeq(recycled, 1, m))
      BY ONLY <3>1, <2>2, <2>3, CutSeq
    <3>3. \A f : f \in ToSet(SubSeq(recycled, 1, m)) <=> \E i \in 1 .. m : recycled[i] = f
      BY ONLY <3>1, <2>3, CutSeq
    <3>4. QED
      BY <3>2, <3>3
  <2>5. QED
    BY <2>4 DEF m
<1> HIDE DEF a, kept
<1>4. fresh + (n - old) \in 0 .. FrameEnd
  BY <1>0, <1>1
<1>5. ASSUME NEW i \in 1 .. n, i =< L
      PROVE  /\ L + 1 - i \in L - old + 1 .. L
             /\ a[i] = recycled[L + 1 - i]
             /\ a[i] \in ToSet(recycled) /\ a[i] \in Frames
  <2>1. L + 1 - i \in L - old + 1 .. L
    BY <1>0, <1>5
  <2>2. a[i] = recycled[L + 1 - i]
    BY <1>2, <1>5
  <2>3. L + 1 - i \in 1 .. L
    BY <1>0, <1>5
  <2>4. QED
    BY <2>1, <2>2, <2>3, InSeq
<1>6. ASSUME NEW i \in 1 .. n, i > L
      PROVE  /\ a[i] = fresh + (i - L) - 1
             /\ a[i] \in fresh .. fresh + (n - old) - 1
             /\ a[i] \in Frames /\ a[i] \notin ToSet(recycled)
  <2>1. a[i] = fresh + (i - L) - 1
    BY <1>0, <1>2, <1>6
  <2>2. a[i] \in fresh .. fresh + (n - old) - 1 /\ a[i] \in Frames /\ ~(a[i] < fresh)
    BY <1>0, <1>1, <1>6, <2>1 DEF Frames
  <2>3. QED
    BY <2>1, <2>2 DEF Apart
<1>7. a \in Seq(Frames) /\ Len(a) = n
  <2>1. \A i \in 1 .. n : a[i] \in Frames
    BY <1>0, <1>5, <1>6
  <2>2. a \in [1 .. n -> Frames]
    BY <1>2, <2>1
  <2>3. QED
    BY <2>2
<1>8. IsInjective(a)
  <2> SUFFICES ASSUME NEW i \in 1 .. n, NEW j \in 1 .. n, a[i] = a[j] PROVE i = j
    BY <1>2 DEF IsInjective
  <2>1. CASE i =< L /\ j =< L
    <3>1. recycled[L + 1 - i] = recycled[L + 1 - j]
      BY <1>5, <2>1
    <3>2. L + 1 - i \in 1 .. L /\ L + 1 - j \in 1 .. L
      BY <1>0, <2>1
    <3>3. L + 1 - i = L + 1 - j
      BY <3>1, <3>2 DEF Apart, IsInjective
    <3>4. QED
      BY <1>0, <3>3
  <2>2. CASE i > L /\ j > L
    BY <1>0, <1>6, <2>2
  <2>3. CASE ~(i > L <=> j > L)
    BY <1>0, <1>5, <1>6, <2>3
  <2>4. QED
    BY <1>0, <2>1, <2>2, <2>3
<1>9. ToSet(kept) \subseteq ToSet(recycled)
  <2>1. 1 .. L - old \subseteq 1 .. L
    BY <1>0
  <2>2. QED
    BY <1>3, <2>1, InSeq
<1>10. ToSet(kept) \cap ToSet(a) = {}
  <2> SUFFICES ASSUME NEW f \in ToSet(kept), f \in ToSet(a) PROVE FALSE
    OBVIOUS
  <2>1. PICK i \in 1 .. L - old : recycled[i] = f
    BY <1>3
  <2>2. PICK j \in 1 .. n : a[j] = f
    BY <1>7, InSeq
  <2>3. j =< L
    BY <1>0, <1>6, <1>9, <2>2
  <2>4. recycled[L + 1 - j] = f /\ L + 1 - j \in L - old + 1 .. L
    BY <1>5, <2>2, <2>3
  <2>5. i \in 1 .. L /\ L + 1 - j \in 1 .. L /\ i # L + 1 - j
    BY <1>0, <2>4
  <2>6. QED
    BY <2>1, <2>4, <2>5 DEF Apart, IsInjective
<1>11. U \cap ToSet(a) = {}
  <2> SUFFICES ASSUME NEW f \in ToSet(a), f \in U PROVE FALSE
    OBVIOUS
  <2>1. PICK j \in 1 .. n : a[j] = f
    BY <1>7, InSeq
  <2>2. f \in Frames
    BY <1>0, <1>5, <1>6, <2>1
  <2>3. f < fresh /\ f \notin ToSet(recycled)
    BY <2>2 DEF Apart
  <2>4. j > L
    BY <1>0, <1>5, <2>1, <2>3
  <2>5. QED
    BY <1>0, <1>6, <2>1, <2>3, <2>4
<1>12. ASSUME NEW f \in ToSet(recycled) PROVE f \in ToSet(kept) \cup ToSet(a)
  <2>1. PICK i \in 1 .. L : recycled[i] = f
    BY InSeq
  <2>2. CASE i =< L - old
    BY <1>0, <1>3, <2>1, <2>2
  <2>3. CASE i > L - old
    <3>1. L + 1 - i \in 1 .. n /\ L + 1 - i =< L /\ L + 1 - (L + 1 - i) = i
      BY <1>0, <2>3
    <3>2. a[L + 1 - i] = f
      BY <1>5, <2>1, <3>1
    <3>3. QED
      BY <1>7, <3>1, <3>2, InSeq
  <2>4. QED
    BY <1>0, <2>2, <2>3
<1>13. ASSUME NEW f \in Frames, f >= fresh, f < fresh + (n - old) PROVE f \in ToSet(a)
  <2>1. f - fresh + L + 1 \in 1 .. n /\ f - fresh + L + 1 > L
    BY <1>0, <1>13 DEF Frames
  <2>2. a[f - fresh + L + 1] = f
    BY <1>0, <1>6, <2>1 DEF Frames
  <2>3. QED
    BY <1>7, <2>1, <2>2, InSeq
<1>14. ASSUME NEW f \in Frames
       PROVE  f < fresh + (n - old) <=> \/ f \in ToSet(kept) \cup ToSet(a)
                                        \/ f \in U
  <2>0. f \in Nat /\ fresh \in Nat /\ fresh =< fresh + (n - old)
    BY <1>0, FrameAssumption DEF Frames
  <2>1. ASSUME f < fresh PROVE \/ f \in ToSet(kept) \cup ToSet(a)
                               \/ f \in U
    BY <1>12, <2>1 DEF Apart
  <2>2. ASSUME f \in ToSet(a) PROVE f < fresh + (n - old)
    <3>1. PICK j \in 1 .. n : a[j] = f
      BY <1>7, <2>2, InSeq
    <3>2. CASE j =< L
      <4>1. f < fresh
        BY <1>5, <3>1, <3>2 DEF Apart
      <4>2. QED
        BY <1>0, <2>0, <4>1
    <3>3. CASE j > L
      BY <1>0, <1>6, <2>0, <3>1, <3>3
    <3>4. QED
      BY <1>0, <3>2, <3>3
  <2>3. ASSUME f \in ToSet(recycled) \/ f \in U
        PROVE  f < fresh + (n - old)
    <3>1. f < fresh
      BY <2>3 DEF Apart
    <3>2. QED
      BY <1>0, <2>0, <3>1
  <2>4. CASE f < fresh
    BY <1>0, <2>0, <2>1, <2>4
  <2>5. CASE f >= fresh
    BY <1>9, <1>13, <2>2, <2>3, <2>5
  <2>6. QED
    BY <2>0, <2>4, <2>5
<1>15. QED
  BY <1>3, <1>4, <1>7, <1>8, <1>9, <1>10, <1>11, <1>14 DEF a, kept

(* What alloc() returns is held by nobody.                                 *)
LEMMA AllocApart ==
  ASSUME NEW H, Once(fresh, recycled, H), NEW n \in Nat, Fits(n)
  PROVE  /\ Alloc(n) \in Seq(Frames) /\ Len(Alloc(n)) = n /\ IsInjective(Alloc(n))
         /\ \A s \in Sets : H[s] \cap ToSet(Alloc(n)) = {}
<1> DEFINE old == IF n < Len(recycled) THEN n ELSE Len(recycled)
           U == UNION {H[s] : s \in Sets}
<1>1. fresh \in 0 .. FrameEnd /\ recycled \in Seq(Frames)
  BY DEF Once
<1>2. old \in Nat /\ old =< n /\ old =< Len(recycled) /\ (old < n => old = Len(recycled))
  BY <1>1
<1>3. Apart(U)
  BY DEF Apart, Once
<1> HIDE DEF old, U
<1>4. /\ Alloc(n) \in Seq(Frames) /\ Len(Alloc(n)) = n /\ IsInjective(Alloc(n))
      /\ U \cap ToSet(Alloc(n)) = {}
  BY <1>1, <1>2, <1>3, AllocFacts
<1>5. QED
  BY <1>4 DEF U

(* Memory set c gives the frames `dropped` back and keeps or takes the     *)
(* others.  Every frame still has one use.                                 *)
LEMMA Exchange ==
  ASSUME NEW H, NEW K, Once(fresh, recycled, H), NEW c \in Sets, NEW n \in Nat, Fits(n),
         NEW dropped \in Seq(Frames), AllocAndFree(n, dropped), IsInjective(dropped),
         \A s \in Sets \ {c} : K[s] = H[s],
         K[c] \cap ToSet(dropped) = {},
         K[c] \cup ToSet(dropped) = H[c] \cup ToSet(Alloc(n))
  PROVE  Once(fresh', recycled', K)
<1> DEFINE old == IF n < Len(recycled) THEN n ELSE Len(recycled)
           kept == SubSeq(recycled, 1, Len(recycled) - old)
           a == Alloc(n)
           U == UNION {H[s] : s \in Sets}
<1>1. /\ fresh \in 0 .. FrameEnd /\ recycled \in Seq(Frames)
      /\ \A s \in Sets : H[s] \subseteq Frames /\ H[s] \cap ToSet(recycled) = {}
      /\ \A s, t \in Sets : s # t => H[s] \cap H[t] = {}
  BY DEF Once
<1>2. old \in Nat /\ old =< n /\ old =< Len(recycled) /\ (old < n => old = Len(recycled))
  BY <1>1
<1>3. recycled' = kept \o dropped /\ fresh' = fresh + (n - old)
  BY DEF AllocAndFree
<1>4. Apart(U)
  BY DEF Apart, Once
<1> HIDE DEF old, U
<1>5. /\ kept \in Seq(Frames) /\ IsInjective(kept)
      /\ ToSet(kept) \subseteq ToSet(recycled)
      /\ ToSet(kept) \cap ToSet(a) = {}
      /\ U \cap ToSet(a) = {}
      /\ fresh' \in 0 .. FrameEnd
      /\ a \in Seq(Frames)
      /\ \A f \in Frames : f < fresh' <=> f \in ToSet(kept) \cup ToSet(a) \/ f \in U
  BY <1>1, <1>2, <1>3, <1>4, AllocFacts
<1> HIDE DEF kept, a
<1>6. K[c] \cup ToSet(dropped) = H[c] \cup ToSet(a)
  BY DEF a
<1>7. \A s \in Sets : H[s] \cap ToSet(a) = {}
  BY <1>5 DEF U
<1>8. ToSet(dropped) \cap ToSet(kept) = {} /\ K[c] \cap ToSet(kept) = {}
  BY <1>1, <1>5, <1>6
<1>9. /\ recycled' \in Seq(Frames) /\ ToSet(recycled') = ToSet(kept) \cup ToSet(dropped)
      /\ IsInjective(recycled')
  BY <1>3, <1>5, <1>8, JoinSeq
<1>10. \A s \in Sets \ {c} : H[s] \cap K[c] = {} /\ H[s] \cap ToSet(dropped) = {}
  BY <1>1, <1>6, <1>7
<1>11. \A s \in Sets : K[s] \cap ToSet(recycled') = {}
  <2>1. K[c] \cap ToSet(recycled') = {}
    BY <1>8, <1>9
  <2>2. \A s \in Sets \ {c} : K[s] \cap ToSet(recycled') = {}
    BY <1>1, <1>5, <1>9, <1>10
  <2>3. QED
    BY <2>1, <2>2
<1>12. \A s \in Sets : K[s] \subseteq Frames
  <2>1. ToSet(a) \subseteq Frames
    BY <1>5, InSeq
  <2>2. QED
    BY <1>1, <1>6, <2>1
<1>13. \A s, t \in Sets : s # t => K[s] \cap K[t] = {}
  BY <1>1, <1>10
<1>14. ASSUME NEW f \in Frames
       PROVE  f < fresh' <=> f \in ToSet(recycled') \/ \E s \in Sets : f \in K[s]
  <2>1. (\E s \in Sets : f \in K[s]) <=> f \in K[c] \/ \E s \in Sets \ {c} : f \in H[s]
    OBVIOUS
  <2>2. f \in U <=> f \in H[c] \/ \E s \in Sets \ {c} : f \in H[s]
    BY DEF U
  <2>3. QED
    BY <1>5, <1>6, <1>9, <2>1, <2>2
<1>15. QED
  BY <1>5, <1>9, <1>11, <1>12, <1>13, <1>14 DEF Once

(* A set of natural numbers that is not empty has a least element.         *)
LEMMA Least ==
  ASSUME NEW T, T \subseteq Nat, T # {}
  PROVE  \E x \in T : \A y \in T : x =< y
<1> DEFINE R == OpToRel(<, Nat)
<1>1. IsWellFoundedOn(R, Nat)
  BY NatLessThanWellFounded
<1>2. \A x, y \in Nat : <<x, y>> \in R <=> x < y
  BY DEF OpToRel
<1> HIDE DEF R
<1>3. PICK x \in T : \A y \in T : ~(<<y, x>> \in R)
  BY <1>1, WFMin
<1>4. ASSUME NEW y \in T PROVE x =< y
  <2>1. x \in Nat /\ y \in Nat /\ ~(y < x)
    BY <1>2, <1>3
  <2>2. QED
    BY <2>1
<1>5. QED
  BY <1>4

(* f[n] is the first n sequences of q, joined.                             *)
Joins(f, q, n) ==
    /\ DOMAIN f = 1 .. n
    /\ \A k \in 1 .. n : f[k] = IF k = 1 THEN q[k] ELSE f[k - 1] \o q[k]

(* The recursion of FlattenSeq has a solution.                             *)
LEMMA FlattenDef ==
  ASSUME NEW q, Len(q) \in Nat, Len(q) # 0
  PROVE  \E f : Joins(f, q, Len(q)) /\ FlattenSeq(q) = f[Len(q)]
<1> DEFINE L == Len(q)
           T == {n \in 1 .. L : ~\E f : Joins(f, q, n)}
<1>0. L \in Nat /\ L # 0
  OBVIOUS
<1> HIDE DEF L
<1>1. T = {}
  <2> SUFFICES ASSUME T # {} PROVE FALSE
    OBVIOUS
  <2>1. T \subseteq Nat
    BY <1>0
  <2>2. PICK n \in T : \A y \in T : n =< y
    BY <2>1, Least
  <2>3. CASE n = 1
    <3>1. Joins([k \in 1 .. 1 |-> q[1]], q, 1)
      BY DEF Joins
    <3>2. QED
      BY <2>2, <2>3, <3>1
  <2>4. CASE n # 1
    <3>1. n \in Nat /\ n - 1 \in 1 .. L /\ ~(n =< n - 1)
      BY <1>0, <2>4
    <3>2. n - 1 \notin T
      BY <2>2, <3>1
    <3>3. PICK f : Joins(f, q, n - 1)
      BY <3>1, <3>2
    <3> DEFINE g == [k \in 1 .. n |-> IF k = n THEN f[n - 1] \o q[n] ELSE f[k]]
    <3>4. DOMAIN g = 1 .. n
      OBVIOUS
    <3>5. ASSUME NEW k \in 1 .. n PROVE g[k] = IF k = 1 THEN q[k] ELSE g[k - 1] \o q[k]
      <4>1. CASE k = n
        <5>1. k - 1 \in 1 .. n /\ k - 1 # n /\ k # 1
          BY <2>4, <3>1, <4>1
        <5>2. g[k - 1] = f[n - 1] /\ g[k] = f[n - 1] \o q[n]
          BY <4>1, <5>1
        <5>3. QED
          BY <4>1, <5>1, <5>2
      <4>2. CASE k # n
        <5>1. k \in 1 .. n - 1 /\ (k # 1 => k - 1 \in 1 .. n /\ k - 1 # n)
          BY <3>1, <4>2
        <5>2. g[k] = f[k] /\ (k # 1 => g[k - 1] = f[k - 1])
          BY <4>2, <5>1
        <5>3. f[k] = IF k = 1 THEN q[k] ELSE f[k - 1] \o q[k]
          BY <3>3, <5>1 DEF Joins
        <5>4. QED
          BY <5>2, <5>3
      <4>3. QED
        BY <4>1, <4>2
    <3>6. Joins(g, q, n)
      BY <3>4, <3>5 DEF Joins
    <3>7. QED
      BY <2>2, <3>6
  <2>5. QED
    BY <2>3, <2>4
<1>2. PICK f : Joins(f, q, L)
  <2>1. L \in 1 .. L
    BY <1>0
  <2>2. L \notin T
    BY <1>1, Zenon
  <2>3. QED
    BY <2>1, <2>2
<1> DEFINE h == [k \in 1 .. L |-> f[k]]
<1>3. h = [k \in 1 .. L |-> IF k = 1 THEN q[k] ELSE h[k - 1] \o q[k]]
  <2>1. ASSUME NEW k \in 1 .. L PROVE f[k] = IF k = 1 THEN q[k] ELSE h[k - 1] \o q[k]
    <3>1. k # 1 => k - 1 \in 1 .. L
      BY <1>0
    <3>2. k # 1 => h[k - 1] = f[k - 1]
      BY <3>1
    <3>3. f[k] = IF k = 1 THEN q[k] ELSE f[k - 1] \o q[k]
      BY <1>2 DEF Joins
    <3>4. QED
      BY <3>2, <3>3
  <2>2. QED
    BY <2>1
<1> DEFINE c == CHOOSE c : c = [k \in 1 .. L |-> IF k = 1 THEN q[k] ELSE c[k - 1] \o q[k]]
<1>4. FlattenSeq(q) = c[L]
  BY <1>0 DEF FlattenSeq, L
<1>5. c = [k \in 1 .. L |-> IF k = 1 THEN q[k] ELSE c[k - 1] \o q[k]]
  <2>1. \E s : s = [k \in 1 .. L |-> IF k = 1 THEN q[k] ELSE s[k - 1] \o q[k]]
    BY <1>3
  <2>2. QED
    BY <2>1
<1> HIDE DEF c, h
<1>6. Joins(c, q, L)
  <2>1. DOMAIN c = 1 .. L
    BY <1>5
  <2>2. \A k \in 1 .. L : c[k] = IF k = 1 THEN q[k] ELSE c[k - 1] \o q[k]
    BY <1>5
  <2>3. QED
    BY <2>1, <2>2 DEF Joins
<1>7. QED
  BY <1>4, <1>6 DEF L

(* The sequence u is made of the first n sequences of q.                   *)
JoinOf(u, q, n, S) ==
    /\ u \in Seq(S)
    /\ \A x : x \in ToSet(u) <=> \E i \in 1 .. n : x \in ToSet(q[i])
    /\ (\A i \in 1 .. n : IsInjective(q[i]))
         /\ (\A i, j \in 1 .. n : i # j => ToSet(q[i]) \cap ToSet(q[j]) = {})
       => IsInjective(u)

(* What FlattenSeq returns.                                                *)
LEMMA Flatten ==
  ASSUME NEW S, NEW q \in Seq(Seq(S))
  PROVE  JoinOf(FlattenSeq(q), q, Len(q), S)
<1> DEFINE L == Len(q)
<1>0. L \in Nat /\ \A i \in 1 .. L : q[i] \in Seq(S)
  OBVIOUS
<1>1. CASE L = 0
  <2>1. q = <<>> /\ FlattenSeq(q) = q
    BY <1>1 DEF FlattenSeq
  <2>2. <<>> \in Seq(S) /\ ToSet(<<>>) = {} /\ IsInjective(<<>>)
    BY DEF ToSet, IsInjective
  <2>3. \A i : i \notin 1 .. Len(q)
    BY <1>1
  <2>4. FlattenSeq(q) \in Seq(S) /\ ToSet(FlattenSeq(q)) = {} /\ IsInjective(FlattenSeq(q))
    BY <2>1, <2>2
  <2>5. QED
    BY <2>3, <2>4 DEF JoinOf
<1>2. CASE L # 0
  <2>1. PICK f : Joins(f, q, L) /\ FlattenSeq(q) = f[L]
    BY <1>0, <1>2, FlattenDef
  <2> HIDE DEF L
  <2> DEFINE T == {n \in 1 .. L : ~JoinOf(f[n], q, n, S)}
  <2>2. T = {}
    <3> SUFFICES ASSUME T # {} PROVE FALSE
      OBVIOUS
    <3>1. T \subseteq Nat
      BY <1>0
    <3>2. PICK n \in T : \A y \in T : n =< y
      BY <3>1, Least
    <3>3. n \in 1 .. L /\ ~JoinOf(f[n], q, n, S) /\ n \in Nat
      BY <1>0, <3>2
    <3>4. CASE n = 1
      <4>1. f[1] = q[1] /\ q[1] \in Seq(S)
        BY <1>0, <3>3, <3>4, <2>1 DEF Joins
      <4>2. \A i : i \in 1 .. 1 <=> i = 1
        OBVIOUS
      <4>3. QED
        BY <3>3, <3>4, <4>1, <4>2 DEF JoinOf
    <3>5. CASE n # 1
      <4>1. n - 1 \in 1 .. L /\ ~(n =< n - 1)
        BY <1>0, <3>3, <3>5
      <4> DEFINE u == f[n - 1]
                 w == q[n]
      <4>2. JoinOf(u, q, n - 1, S)
        BY <3>2, <4>1
      <4>3. f[n] = u \o w /\ w \in Seq(S)
        BY <1>0, <2>1, <3>3, <3>5 DEF Joins
      <4>4. u \in Seq(S) /\ \A x : x \in ToSet(u) <=> \E i \in 1 .. n - 1 : x \in ToSet(q[i])
        BY <4>2 DEF JoinOf
      <4>5. \A i : i \in 1 .. n <=> i \in 1 .. n - 1 \/ i = n
        BY <3>3
      <4> HIDE DEF u, w
      <4>6. /\ u \o w \in Seq(S) /\ ToSet(u \o w) = ToSet(u) \cup ToSet(w)
            /\ IsInjective(u) /\ IsInjective(w) /\ ToSet(u) \cap ToSet(w) = {} => IsInjective(u \o w)
        BY <4>3, <4>4, JoinSeq
      <4>7. \A x : x \in ToSet(u \o w) <=> \E i \in 1 .. n : x \in ToSet(q[i])
        BY <4>4, <4>5, <4>6 DEF w
      <4>8. ASSUME \A i \in 1 .. n : IsInjective(q[i]),
                   \A i, j \in 1 .. n : i # j => ToSet(q[i]) \cap ToSet(q[j]) = {}
            PROVE  IsInjective(u \o w)
        <5>1. IsInjective(u)
          BY <4>2, <4>5, <4>8 DEF JoinOf
        <5>2. IsInjective(w)
          BY <4>5, <4>8 DEF w
        <5>3. \A i \in 1 .. n - 1 : i # n
          BY <3>3
        <5>4. ToSet(u) \cap ToSet(w) = {}
          BY <4>4, <4>5, <4>8, <5>3 DEF w
        <5>5. QED
          BY <4>6, <5>1, <5>2, <5>4
      <4>9. JoinOf(f[n], q, n, S)
        BY <4>3, <4>6, <4>7, <4>8 DEF JoinOf
      <4>10. QED
        BY <3>3, <4>9
    <3>6. QED
      BY <3>4, <3>5
  <2>3. L \in 1 .. L
    BY <1>0, <1>2
  <2>4. JoinOf(f[L], q, L, S)
    BY <2>2, <2>3
  <2>5. QED
    BY <2>1, <2>4 DEF L
<1>3. QED
  BY <1>1, <1>2

-------------------------------------------------------------------------------
(* Areas and their frames. *)

(* The fields of an area.                                                  *)
LEMMA AreaFields ==
  ASSUME NEW a \in Area
  PROVE  /\ a.start \in Bounds /\ a.end \in Bounds /\ a.perm \in SUBSET Perms
         /\ a.frames \in [PagesOf(a) -> Frames]
         /\ PagesOf(a) \subseteq Vpns
         /\ \A v \in PagesOf(a) : v \in Vpns /\ a.frames[v] \in Frames
<1>1. /\ a.start \in Bounds /\ a.end \in Bounds /\ a.perm \in SUBSET Perms
      /\ a.frames \in Trackers /\ DOMAIN a.frames = PagesOf(a)
  BY DEF Area
<1>2. PICK D \in SUBSET Vpns : a.frames \in [D -> Frames]
  BY <1>1 DEF Trackers
<1>3. D = PagesOf(a)
  BY <1>1, <1>2
<1>4. QED
  BY <1>1, <1>2, <1>3

(* An area made of its fields.                                             *)
LEMMA AreaMade ==
  ASSUME NEW b \in Bounds, NEW e \in Bounds, NEW p \in SUBSET Perms,
         NEW fr \in [b .. e - 1 -> Frames]
  PROVE  [start |-> b, end |-> e, perm |-> p, frames |-> fr] \in Area
<1> DEFINE a == [start |-> b, end |-> e, perm |-> p, frames |-> fr]
<1>1. b .. e - 1 \in SUBSET Vpns
  BY Sizes DEF Bounds, Vpns
<1>2. fr \in Trackers
  BY <1>1 DEF Trackers
<1>3. DOMAIN a.frames = PagesOf(a)
  BY DEF PagesOf
<1>4. QED
  BY <1>2, <1>3 DEF Area

(* The frames of an area, in the order of its pages.                       *)
LEMMA FramesOfArea ==
  ASSUME NEW a \in Area
  PROVE  /\ FramesOf(a) \in Seq(Frames)
         /\ \A f : f \in ToSet(FramesOf(a)) <=> \E v \in PagesOf(a) : a.frames[v] = f
         /\ (\A v, w \in PagesOf(a) : a.frames[v] = a.frames[w] => v = w)
              => IsInjective(FramesOf(a))
<1> DEFINE b == a.start
           e == a.end
           n == IF e >= b THEN e - b ELSE 0
           q == FramesOf(a)
<1>1. b \in Nat /\ e \in Nat /\ \A v \in PagesOf(a) : a.frames[v] \in Frames
  BY AreaFields DEF Bounds
<1>2. n \in Nat /\ 1 .. n = 1 .. e - b
  BY <1>1
<1>3. PagesOf(a) = b .. e - 1 /\ q = [i \in 1 .. e - b |-> a.frames[b + i - 1]]
  BY DEF PagesOf, FramesOf
<1>4. \A i \in 1 .. n : b + i - 1 \in PagesOf(a)
  BY <1>1, <1>3
<1>5. \A v \in PagesOf(a) : v - b + 1 \in 1 .. n /\ b + (v - b + 1) - 1 = v
  <2>1. b \in Nat /\ e \in Nat /\ PagesOf(a) = b .. e - 1
    BY <1>1, <1>3
  <2> HIDE DEF b, e, q
  <2>2. \A v \in b .. e - 1 : v - b + 1 \in 1 .. n /\ b + (v - b + 1) - 1 = v
    BY ONLY <2>1
  <2>3. QED
    BY <2>1, <2>2
<1> HIDE DEF n, q, b
<1>6. DOMAIN q = 1 .. n /\ \A i \in 1 .. n : q[i] = a.frames[b + i - 1]
  BY <1>2, <1>3
<1>7. q \in [1 .. n -> Frames]
  <2>1. q = [i \in 1 .. n |-> a.frames[b + i - 1]]
    BY <1>2, <1>3
  <2>2. QED
    BY <1>1, <1>4, <2>1
<1>8. q \in Seq(Frames)
  BY <1>2, <1>7
<1>9. ASSUME NEW f PROVE f \in ToSet(q) <=> \E v \in PagesOf(a) : a.frames[v] = f
  <2>1. ASSUME f \in ToSet(q) PROVE \E v \in PagesOf(a) : a.frames[v] = f
    BY <1>4, <1>6, <2>1 DEF ToSet
  <2>2. ASSUME NEW v \in PagesOf(a), a.frames[v] = f PROVE f \in ToSet(q)
    <3>1. q[v - b + 1] = f
      BY <1>5, <1>6, <2>2
    <3>2. QED
      BY <1>5, <1>6, <3>1 DEF ToSet
  <2>3. QED
    BY <2>1, <2>2
<1>10. ASSUME \A v, w \in PagesOf(a) : a.frames[v] = a.frames[w] => v = w
       PROVE  IsInjective(q)
  <2> SUFFICES ASSUME NEW i \in 1 .. n, NEW j \in 1 .. n, q[i] = q[j] PROVE i = j
    BY <1>6 DEF IsInjective
  <2>1. b + i - 1 = b + j - 1
    BY <1>4, <1>6, <1>10
  <2>2. QED
    BY <1>1, <2>1
<1>11. QED
  BY <1>8, <1>9, <1>10 DEF q

(* No two pages of the list have the same frame.                           *)
OneFrame(list) ==
    \A i, j, v, w : Owns(list, i, v) /\ Owns(list, j, w)
                      /\ list[i].frames[v] = list[j].frames[w] => i = j /\ v = w

(* The frames a list of areas returns.                                     *)
LEMMA DataFramesOf ==
  ASSUME NEW list \in Seq(Area)
  PROVE  /\ DataFrames(list) \in Seq(Frames)
         /\ ToSet(DataFrames(list)) = PageFrames(list)
         /\ OneFrame(list) => IsInjective(DataFrames(list))
<1> DEFINE q == [i \in 1 .. Len(list) |-> FramesOf(list[i])]
           d == DataFrames(list)
<1>1. Len(list) \in Nat /\ \A i \in 1 .. Len(list) : list[i] \in Area
  OBVIOUS
<1>2. q \in Seq(Seq(Frames)) /\ Len(q) = Len(list) /\ \A i \in 1 .. Len(list) : q[i] = FramesOf(list[i])
  <2>1. \A i \in 1 .. Len(list) : FramesOf(list[i]) \in Seq(Frames)
    BY <1>1, FramesOfArea
  <2>2. q \in [1 .. Len(list) -> Seq(Frames)]
    BY <2>1
  <2>3. QED
    BY <1>1, <2>2
<1>3. d = FlattenSeq(q)
  BY DEF DataFrames
<1> HIDE DEF q, d
<1>4. JoinOf(d, q, Len(list), Frames)
  BY <1>2, <1>3, Flatten
<1>5. \A i \in 1 .. Len(list) : \A f :
        f \in ToSet(q[i]) <=> \E v \in PagesOf(list[i]) : list[i].frames[v] = f
  BY <1>1, <1>2, FramesOfArea
<1>6. \A i, v : Owns(list, i, v) => list[i].frames[v] \in Frames
  BY <1>1, AreaFields DEF Owns
<1>7. ToSet(d) = PageFrames(list)
  <2>1. ASSUME NEW f PROVE f \in ToSet(d) <=> f \in PageFrames(list)
    <3>1. f \in ToSet(d) <=> \E i \in 1 .. Len(list) : f \in ToSet(q[i])
      BY <1>4 DEF JoinOf
    <3>2. f \in ToSet(d) <=> \E i, v : Owns(list, i, v) /\ list[i].frames[v] = f
      <4>1. ASSUME f \in ToSet(d) PROVE \E i, v : Owns(list, i, v) /\ list[i].frames[v] = f
        <5>1. PICK i \in 1 .. Len(list) : f \in ToSet(q[i])
          BY <3>1, <4>1
        <5>2. PICK v \in PagesOf(list[i]) : list[i].frames[v] = f
          BY <1>5, <5>1
        <5>3. QED
          BY <5>1, <5>2 DEF Owns
      <4>2. ASSUME NEW i, NEW v, Owns(list, i, v), list[i].frames[v] = f PROVE f \in ToSet(d)
        <5>1. i \in 1 .. Len(list) /\ v \in PagesOf(list[i])
          BY <4>2 DEF Owns
        <5>2. f \in ToSet(q[i])
          BY <1>5, <4>2, <5>1
        <5>3. QED
          BY <3>1, <5>1, <5>2
      <4>3. QED
        BY <4>1, <4>2
    <3>3. QED
      BY <1>6, <3>2 DEF PageFrames
  <2>2. QED
    BY <2>1
<1>8. ASSUME OneFrame(list) PROVE IsInjective(d)
  <2>1. ASSUME NEW i \in 1 .. Len(list) PROVE IsInjective(q[i])
    <3>1. \A v, w \in PagesOf(list[i]) : list[i].frames[v] = list[i].frames[w] => v = w
      BY <1>8 DEF OneFrame, Owns
    <3>2. QED
      BY <1>1, <1>2, <3>1, FramesOfArea
  <2>2. \A i, j \in 1 .. Len(list) : i # j => ToSet(q[i]) \cap ToSet(q[j]) = {}
    <3> SUFFICES ASSUME NEW i \in 1 .. Len(list), NEW j \in 1 .. Len(list), i # j,
                        NEW f, f \in ToSet(q[i]), f \in ToSet(q[j])
                 PROVE  FALSE
      OBVIOUS
    <3>1. PICK v \in PagesOf(list[i]) : list[i].frames[v] = f
      BY <1>5
    <3>2. PICK w \in PagesOf(list[j]) : list[j].frames[w] = f
      BY <1>5
    <3>3. Owns(list, i, v) /\ Owns(list, j, w)
      BY DEF Owns
    <3>4. QED
      BY <1>8, <3>1, <3>2, <3>3 DEF OneFrame
  <2>3. QED
    BY <1>4, <2>1, <2>2 DEF JoinOf
<1>9. QED
  BY <1>4, <1>7, <1>8 DEF d, JoinOf

(* The list of one more element.                                           *)
LEMMA OneMore ==
  ASSUME NEW S, NEW s \in Seq(S), NEW x \in S
  PROVE  /\ s \o <<x>> \in Seq(S) /\ Len(s \o <<x>>) = Len(s) + 1
         /\ \A i \in 1 .. Len(s) : (s \o <<x>>)[i] = s[i]
         /\ (s \o <<x>>)[Len(s) + 1] = x
         /\ Append(s, x) = s \o <<x>>
<1>1. Append(s, x) = s \o <<x>>
  OBVIOUS
<1>2. QED
  OBVIOUS

(* The list of areas while a loop runs.                                    *)
LEMMA WithIs ==
  ASSUME NEW A \in Seq(Area), NEW o, OpTyped(o), NEW s
  PROVE  /\ o = Idle \/ o.set # s => With(A, o, s) = A
         /\ o # Idle /\ o.set = s => With(A, o, s) = A \o <<Growing(o)>>
         /\ o # Idle => /\ Growing(o) \in Area
                        /\ Growing(o).perm = o.todo[1].perm
                        /\ Growing(o).frames = o.frames
                        /\ PagesOf(Growing(o)) = o.todo[1].start .. o.next - 1
         /\ With(A, o, s) \in Seq(Area)
<1>1. A \o <<>> = A
  OBVIOUS
<1>2. o = Idle \/ o.set # s => With(A, o, s) = A
  BY <1>1 DEF With
<1>3. o # Idle /\ o.set = s => With(A, o, s) = A \o <<Growing(o)>>
  BY DEF With
<1>4. ASSUME o # Idle
      PROVE  /\ Growing(o) \in Area
             /\ Growing(o).perm = o.todo[1].perm
             /\ Growing(o).frames = o.frames
             /\ PagesOf(Growing(o)) = o.todo[1].start .. o.next - 1
  <2>1. /\ o.todo \in Seq(Todo) /\ o.todo # <<>> /\ o.next \in Bounds
        /\ o.frames \in [o.todo[1].start .. o.next - 1 -> Frames]
    BY <1>4 DEF OpTyped
  <2> DEFINE h == o.todo[1]
  <2>2. Head(o.todo) = h /\ h \in Todo
    BY <2>1
  <2> HIDE DEF h
  <2>3. [h EXCEPT !.end = o.next] = [start |-> h.start, end |-> o.next, perm |-> h.perm, file |-> h.file]
    BY <2>2 DEF Todo
  <2>4. Growing(o) = [start |-> h.start, end |-> o.next, perm |-> h.perm, frames |-> o.frames]
    BY <2>2, <2>3 DEF Growing, MapArea
  <2>5. h.start \in Bounds /\ h.perm \in SUBSET Perms
    BY <2>2 DEF Todo
  <2>6. Growing(o) \in Area
    BY <2>1, <2>4, <2>5, AreaMade DEF h
  <2>7. QED
    BY <2>4, <2>6 DEF PagesOf, h
<1>5. With(A, o, s) \in Seq(Area)
  BY <1>2, <1>3, <1>4, OneMore
<1>6. QED
  BY <1>2, <1>3, <1>4, <1>5

(* It is a list of areas.                                                  *)
LEMMA WithSeq ==
  ASSUME NEW A \in Seq(Area), NEW o, OpTyped(o), NEW s
  PROVE  With(A, o, s) \in Seq(Area)
BY WithIs

(* The pages with one area more.                                           *)
LEMMA OwnsMore ==
  ASSUME NEW A \in Seq(Area), NEW a \in Area
  PROVE  /\ \A i, v : Owns(A \o <<a>>, i, v) <=> \/ Owns(A, i, v)
                                                 \/ i = Len(A) + 1 /\ v \in PagesOf(a)
         /\ \A i \in 1 .. Len(A) : (A \o <<a>>)[i] = A[i]
         /\ (A \o <<a>>)[Len(A) + 1] = a
         /\ \A i, v : Owns(A, i, v) => i \in 1 .. Len(A) /\ i # Len(A) + 1
<1> DEFINE B == A \o <<a>>
<1>1. /\ Len(B) = Len(A) + 1 /\ \A i \in 1 .. Len(A) : B[i] = A[i]
      /\ B[Len(A) + 1] = a /\ Len(A) \in Nat
  BY OneMore
<1> HIDE DEF B
<1>2. \A i : i \in 1 .. Len(B) <=> i \in 1 .. Len(A) \/ i = Len(A) + 1
  BY <1>1
<1>3. \A i, v : Owns(B, i, v) <=> Owns(A, i, v) \/ (i = Len(A) + 1 /\ v \in PagesOf(a))
  BY <1>1, <1>2 DEF Owns
<1>4. \A i \in 1 .. Len(A) : i # Len(A) + 1
  BY <1>1
<1>5. QED
  BY <1>1, <1>3, <1>4 DEF B, Owns

-------------------------------------------------------------------------------
(* The invariant implies what the run checks. *)

(* As many elements as places.                                             *)
LEMMA CountInjective ==
  ASSUME NEW S, NEW s \in Seq(S), IsInjective(s)
  PROVE  IsFiniteSet(ToSet(s)) /\ Cardinality(ToSet(s)) = Len(s)
<1>1. Len(s) \in Nat /\ DOMAIN s = 1 .. Len(s) /\ s \in [1 .. Len(s) -> S]
  OBVIOUS
<1>2. s \in Bijection(1 .. Len(s), ToSet(s))
  <2>1. s \in [1 .. Len(s) -> ToSet(s)]
    BY <1>1 DEF ToSet
  <2>2. \A t \in ToSet(s) : \E i \in 1 .. Len(s) : s[i] = t
    BY <1>1 DEF ToSet
  <2>3. QED
    BY <2>1, <2>2 DEF Bijection, Injection, Surjection
<1>3. ExistsBijection(1 .. Len(s), ToSet(s))
  BY <1>2 DEF ExistsBijection
<1>4. IsFiniteSet(1 .. Len(s)) /\ Cardinality(1 .. Len(s)) = Len(s)
  <2>1. 1 \in Int /\ Len(s) \in Int
    BY <1>1
  <2>2. /\ IsFiniteSet(1 .. Len(s))
        /\ Cardinality(1 .. Len(s)) = IF 1 > Len(s) THEN 0 ELSE Len(s) - 1 + 1
    BY <2>1, FS_Interval
  <2>3. QED
    BY <1>1, <2>2
<1>5. QED
  BY <1>3, <1>4, FS_Bijection

(* The number of tables but the root.                                      *)
LEMMA CountRest ==
  ASSUME NEW S, NEW s \in Seq(S), s # <<>>, IsInjective(s)
  PROVE  /\ IsFiniteSet(Rest(s)) /\ Cardinality(Rest(s)) = Len(s) - 1
         /\ ToSet(s) = {s[1]} \cup Rest(s) /\ s[1] \notin Rest(s)
<1>1. Len(s) \in Nat /\ Len(s) > 0 /\ DOMAIN s = 1 .. Len(s)
  OBVIOUS
<1>2. \A i : i \in 1 .. Len(s) <=> i = 1 \/ i \in 2 .. Len(s)
  BY <1>1
<1>3. ToSet(s) = {s[1]} \cup Rest(s)
  BY <1>1, <1>2 DEF ToSet, Rest
<1>4. s[1] \notin Rest(s)
  BY <1>1, <1>2 DEF Rest, IsInjective
<1>5. IsFiniteSet(ToSet(s)) /\ Cardinality(ToSet(s)) = Len(s)
  BY CountInjective
<1>6. Rest(s) = ToSet(s) \ {s[1]} /\ s[1] \in ToSet(s)
  BY <1>3, <1>4
<1>7. QED
  BY <1>3, <1>4, <1>5, <1>6, FS_RemoveElement

(* The entries that point to tables are those of the inner tables.         *)
LEMMA LinksAre ==
  ASSUME NEW s
  PROVE  \A l : l \in Links(s) <=> \E f \in Inner(pte, root[s]), i \in Indices :
                                      l = <<f, i>> /\ IsValid(pte[f][i])
<1> DEFINE r == root[s]
           upper == {<<r, i>> : i \in {i \in Indices : IsValid(pte[r][i])}}
           lower == {l \in {<<pte[u[1]][u[2]].ppn, i>> : u \in upper, i \in Indices} :
                       IsValid(pte[l[1]][l[2]])}
<1>1. Links(s) = upper \cup lower
  BY DEF Links
<1>2. \A l : l \in upper <=> \E i \in Indices : l = <<r, i>> /\ IsValid(pte[r][i])
  OBVIOUS
<1>3. \A l : l \in lower <=> \E f \in Mids(pte, r), i \in Indices : l = <<f, i>> /\ IsValid(pte[f][i])
  <2> SUFFICES ASSUME NEW l
               PROVE  l \in lower <=> \E f \in Mids(pte, r), i \in Indices :
                                        l = <<f, i>> /\ IsValid(pte[f][i])
    OBVIOUS
  <2>1. ASSUME l \in lower
        PROVE  \E f \in Mids(pte, r), i \in Indices : l = <<f, i>> /\ IsValid(pte[f][i])
    <3>1. PICK u \in upper, i \in Indices : l = <<pte[u[1]][u[2]].ppn, i>>
      BY <2>1
    <3>2. PICK j \in Indices : u = <<r, j>> /\ IsValid(pte[r][j])
      BY <1>2
    <3>3. l = <<pte[r][j].ppn, i>> /\ pte[r][j].ppn \in Mids(pte, r)
      BY <3>1, <3>2 DEF Mids
    <3>4. IsValid(pte[l[1]][l[2]])
      BY <2>1
    <3>5. QED
      BY <3>3, <3>4
  <2>2. ASSUME NEW f \in Mids(pte, r), NEW i \in Indices, l = <<f, i>>, IsValid(pte[f][i])
        PROVE  l \in lower
    <3>1. PICK j \in Indices : IsValid(pte[r][j]) /\ pte[r][j].ppn = f
      BY DEF Mids
    <3>2. <<r, j>> \in upper /\ <<r, j>>[1] = r /\ <<r, j>>[2] = j
      BY <1>2, <3>1
    <3> DEFINE u == <<r, j>>
    <3>3. u \in upper /\ l = <<pte[u[1]][u[2]].ppn, i>>
      BY <2>2, <3>1, <3>2
    <3>4. IsValid(pte[l[1]][l[2]])
      BY <2>2
    <3> DEFINE base == {<<pte[x[1]][x[2]].ppn, k>> : x \in upper, k \in Indices}
    <3>5. l \in base
      <4> HIDE DEF upper, u
      <4>1. QED
        BY <3>3
    <3>6. QED
      BY <3>4, <3>5
  <2>3. QED
    BY <2>1, <2>2
<1> HIDE DEF upper, lower
<1>4. QED
  BY <1>1, <1>2, <1>3 DEF Inner

(* The tables form trees.                                                  *)
LEMMA TreesSound == PagesInv => TablesFormTree
<1> SUFFICES ASSUME PagesInv, NEW s \in Sets, status[s] # "none"
             PROVE  /\ root[s] = tables[s][1]
                    /\ Cardinality(Links(s)) = Len(tables[s]) - 1
                    /\ {pte[l[1]][l[2]].ppn : l \in Links(s)}
                         = {tables[s][i] : i \in 2 .. Len(tables[s])}
  BY DEF TablesFormTree
<1> DEFINE r == root[s]
           R == Rest(tables[s])
           K == Links(s)
           g == [l \in K |-> pte[l[1]][l[2]].ppn]
<1>1. tables[s] # <<>> /\ r = tables[s][1] /\ Tree(pte, r, R) /\ tables[s] \in Seq(Frames)
  BY DEF PagesInv, PageTypeOK
<1>2. IsInjective(tables[s])
  BY DEF PagesInv, Exclusive
<1>3. IsFiniteSet(R) /\ Cardinality(R) = Len(tables[s]) - 1
  BY <1>1, <1>2, CountRest
<1>4. \A l : l \in K <=> \E f \in Inner(pte, r), i \in Indices : l = <<f, i>> /\ IsValid(pte[f][i])
  BY LinksAre
<1> HIDE DEF r, R, K
<1>5. ASSUME NEW l \in K PROVE pte[l[1]][l[2]].ppn \in R
  <2>1. PICK f \in Inner(pte, r), i \in Indices : l = <<f, i>> /\ IsValid(pte[f][i])
    BY <1>4
  <2>2. QED
    BY <1>1, <2>1 DEF Tree
<1>6. ASSUME NEW k \in K, NEW l \in K, pte[k[1]][k[2]].ppn = pte[l[1]][l[2]].ppn PROVE k = l
  <2>1. PICK f \in Inner(pte, r), i \in Indices : k = <<f, i>> /\ IsValid(pte[f][i])
    BY <1>4
  <2>2. PICK h \in Inner(pte, r), j \in Indices : l = <<h, j>> /\ IsValid(pte[h][j])
    BY <1>4
  <2>3. pte[f][i].ppn = pte[h][j].ppn
    BY <1>6, <2>1, <2>2
  <2>4. f = h /\ i = j
    BY <1>1, <2>1, <2>2, <2>3 DEF Tree
  <2>5. QED
    BY <2>1, <2>2, <2>4
<1>7. ASSUME NEW t \in R PROVE \E l \in K : pte[l[1]][l[2]].ppn = t
  <2>1. PICK f \in Inner(pte, r), i \in Indices : IsValid(pte[f][i]) /\ pte[f][i].ppn = t
    BY <1>1 DEF Tree
  <2>2. <<f, i>> \in K /\ pte[<<f, i>>[1]][<<f, i>>[2]].ppn = t
    BY <1>4, <2>1
  <2>3. QED
    BY <2>2
<1>8. g \in Injection(K, R) /\ g \in Surjection(K, R)
  BY <1>5, <1>6, <1>7 DEF Injection, Surjection, IsInjective
<1>9. Cardinality(K) = Cardinality(R)
  BY <1>3, <1>8, FS_Injection
<1>10. {pte[l[1]][l[2]].ppn : l \in K} = R
  BY <1>5, <1>7
<1>11. QED
  BY <1>1, <1>3, <1>9, <1>10 DEF Rest, r, R, K

(* The walk of the model is the walk in memory pte.                        *)
LEMMA WalkIs ==
  ASSUME NEW r, NEW v
  PROVE  /\ Missing(r, v) = Lacks(pte, r, v) /\ Missing(r, v) \in 0 .. 2
         /\ FindPte(r, v) = Pte(pte, r, v)
         /\ HasPte(r, v) <=> Reaches(pte, r, v)
         /\ IsMapped(r, v) <=> Maps(pte, r, v)
<1>1. Missing(r, v) = Lacks(pte, r, v)
  BY DEF Missing, Lacks, Mid
<1>2. FindPte(r, v) = Pte(pte, r, v)
  BY DEF FindPte, Pte, Low, Mid
<1>3. Lacks(pte, r, v) \in 0 .. 2 /\ (Lacks(pte, r, v) = 0 <=> Reaches(pte, r, v))
  BY DEF Lacks, Reaches
<1>4. QED
  BY <1>1, <1>2, <1>3 DEF HasPte, IsMapped, Maps

(* The leaves are the pages of the areas.                                  *)
LEMMA LeavesSound == PagesInv => LeavesMatchAreas
<1> SUFFICES ASSUME PagesInv, NEW s \in Sets, status[s] \in {"building", "live"}
             PROVE  LET current == Current(s) IN
                    /\ {v \in 0 .. VpnEnd - 1 : IsMapped(root[s], v)} \ {TrampolineVpn} =
                         UNION {PagesOf(current[i]) : i \in 1 .. Len(current)}
                    /\ \A i \in 1 .. Len(current) :
                        /\ \A j \in 1 .. i - 1 : PagesOf(current[i]) \cap PagesOf(current[j]) = {}
                        /\ \A v \in PagesOf(current[i]) :
                            FindPte(root[s], v) = Entry(current[i].frames[v], current[i].perm)
  BY DEF LeavesMatchAreas
<1> DEFINE c == Current(s)
           r == root[s]
<1>1. c = With(areas[s], op, s)
  BY DEF Current, With, Growing
<1>2. Leaves(pte, r, c)
  BY <1>1 DEF PagesInv
<1>3. c \in Seq(Area)
  <2>1. areas[s] \in Seq(Area) /\ OpTyped(op)
    BY DEF PagesInv, OpOK
  <2>2. With(areas[s], op, s) \in Seq(Area)
    BY ONLY <2>1, WithSeq
  <2>3. QED
    BY <1>1, <2>2
<1> HIDE DEF c
<1>4. \A i \in 1 .. Len(c) : PagesOf(c[i]) \subseteq Vpns
  BY <1>3, AreaFields
<1>5. \A v \in Vpns : IsMapped(r, v) <=> Maps(pte, r, v)
  BY WalkIs
<1>6. ASSUME NEW v
      PROVE  v \in {w \in 0 .. VpnEnd - 1 : IsMapped(r, w)} \ {TrampolineVpn}
               <=> v \in UNION {PagesOf(c[i]) : i \in 1 .. Len(c)}
  <2>1. v \in UNION {PagesOf(c[i]) : i \in 1 .. Len(c)} <=> \E i : Owns(c, i, v)
    BY DEF Owns
  <2>2. \A i : Owns(c, i, v) => v \in Vpns /\ v # TrampolineVpn /\ Maps(pte, r, v)
    BY <1>2, <1>4 DEF Leaves, Owns
  <2>3. v \in Vpns /\ Maps(pte, r, v) /\ v # TrampolineVpn => \E i : Owns(c, i, v)
    BY <1>2 DEF Leaves, Owns
  <2>4. v \in {w \in 0 .. VpnEnd - 1 : IsMapped(r, w)} <=> v \in Vpns /\ Maps(pte, r, v)
    BY <1>5 DEF Vpns
  <2>5. QED
    BY ONLY <2>1, <2>2, <2>3, <2>4
<1>7. ASSUME NEW i \in 1 .. Len(c), NEW j \in 1 .. i - 1
      PROVE  PagesOf(c[i]) \cap PagesOf(c[j]) = {}
  <2>1. j \in 1 .. Len(c) /\ i # j
    BY <1>3
  <2>2. QED
    BY <1>2, <2>1 DEF Leaves, Owns
<1>8. ASSUME NEW i \in 1 .. Len(c), NEW v \in PagesOf(c[i])
      PROVE  FindPte(r, v) = Entry(c[i].frames[v], c[i].perm)
  BY <1>2, WalkIs DEF Leaves, Owns
<1>9. QED
  BY <1>6, <1>7, <1>8 DEF c

(* The memory sets, one after the other.                                   *)
LEMMA SetsListed ==
  LET q == SetToSeq(Sets) IN
  /\ q \in Seq(Sets) /\ IsInjective(q) /\ \A s \in Sets : \E i \in 1 .. Len(q) : q[i] = s
<1> DEFINE n == Cardinality(Sets)
           q == SetToSeq(Sets)
<1>1. IsFiniteSet(Sets)
  BY PageAssumption, FS_AddElement DEF Sets
<1>2. n \in Nat /\ ExistsBijection(1 .. n, Sets)
  BY <1>1, FS_CardinalityType
<1>3. \E f \in [1 .. n -> Sets] : IsInjective(f)
  BY <1>2 DEF ExistsBijection, Bijection, Injection
<1>4. q \in [1 .. n -> Sets] /\ IsInjective(q)
  <2>1. q = CHOOSE f \in [1 .. n -> Sets] : IsInjective(f)
    BY DEF SetToSeq
  <2> HIDE DEF q, n
  <2>2. QED
    BY <1>3, <2>1
<1> HIDE DEF q, n
<1>5. q \in Seq(Sets) /\ Len(q) = n
  BY <1>2, <1>4
<1>6. Cardinality(1 .. n) = n
  <2>1. Cardinality(1 .. n) = IF 1 > n THEN 0 ELSE n - 1 + 1
    BY <1>2, FS_Interval
  <2>2. QED
    BY <1>2, <2>1
<1>7. q \in Injection(1 .. n, Sets)
  BY <1>4 DEF Injection
<1>8. q \in Surjection(1 .. n, Sets)
  BY <1>1, <1>6, <1>7, FS_Injection DEF n
<1>9. \A s \in Sets : \E i \in 1 .. n : q[i] = s
  BY <1>8 DEF Surjection
<1>10. QED
  BY <1>4, <1>5, <1>9 DEF q

(* Every frame is used once.                                               *)
LEMMA FramesSound == PagesInv => FramesUsedOnce
<1> SUFFICES ASSUME PagesInv PROVE FramesUsedOnce
  OBVIOUS
<1> DEFINE sets == SetToSeq(Sets)
           H == Held(tables, areas, op)
           part(s) == tables[s] \o DataFrames(Current(s))
           q == [i \in 1 .. Len(sets) |-> part(sets[i])]
           d == FlattenSeq(q)
<1>1. sets \in Seq(Sets) /\ IsInjective(sets) /\ \A s \in Sets : \E i \in 1 .. Len(sets) : sets[i] = s
  BY SetsListed
<1> HIDE DEF sets
<1>2. Len(sets) \in Nat /\ \A i \in 1 .. Len(sets) : sets[i] \in Sets
  BY <1>1
<1>3. Once(fresh, recycled, H)
  BY DEF PagesInv
<1>4. ASSUME NEW s \in Sets
      PROVE  part(s) \in Seq(Frames) /\ ToSet(part(s)) = H[s] /\ IsInjective(part(s))
  <2> DEFINE c == Current(s)
             ts == tables[s]
  <2>1. areas[s] \in Seq(Area) /\ OpTyped(op) /\ ts \in Seq(Frames)
    BY DEF PagesInv, OpOK, PageTypeOK
  <2>2. c = With(areas[s], op, s)
    BY DEF Current, With, Growing
  <2>3. c \in Seq(Area)
    <3>1. With(areas[s], op, s) \in Seq(Area)
      BY ONLY <2>1, WithSeq
    <3>2. QED
      BY <2>2, <3>1
  <2>4. Exclusive(ts, c)
    BY <2>2 DEF PagesInv
  <2>5. H[s] = Holds(ts, c)
    BY <2>2 DEF Held
  <2> HIDE DEF c, ts
  <2> DEFINE e == DataFrames(c)
  <2>6. OneFrame(c)
    BY <2>4 DEF Exclusive, OneFrame
  <2>7. e \in Seq(Frames) /\ ToSet(e) = PageFrames(c) /\ IsInjective(e)
    BY <2>3, <2>6, DataFramesOf
  <2> HIDE DEF e
  <2>8. IsInjective(ts) /\ ToSet(ts) \cap ToSet(e) = {}
    BY <2>4, <2>7 DEF Exclusive
  <2>9. ts \o e \in Seq(Frames) /\ ToSet(ts \o e) = ToSet(ts) \cup ToSet(e) /\ IsInjective(ts \o e)
    BY <2>1, <2>7, <2>8, JoinSeq
  <2>10. QED
    BY <2>5, <2>7, <2>9 DEF Holds, c, ts, e
<1> HIDE DEF part, H
<1>5. /\ q \in Seq(Seq(Frames)) /\ Len(q) = Len(sets)
      /\ \A i \in 1 .. Len(sets) : q[i] = part(sets[i])
  <2>1. q \in [1 .. Len(sets) -> Seq(Frames)]
    BY <1>2, <1>4
  <2>2. QED
    BY <1>2, <2>1
<1> HIDE DEF q
<1>6. JoinOf(d, q, Len(sets), Frames)
  BY <1>5, Flatten
<1> HIDE DEF d
<1>7. \A i \in 1 .. Len(sets) : IsInjective(q[i]) /\ ToSet(q[i]) = H[sets[i]]
  BY <1>2, <1>4, <1>5
<1>8. \A i, j \in 1 .. Len(sets) : i # j => sets[i] # sets[j]
  <2>1. IsInjective(sets) /\ DOMAIN sets = 1 .. Len(sets)
    BY <1>1
  <2>2. QED
    BY ONLY <2>1 DEF IsInjective
<1>9. \A s, t \in Sets : s # t => H[s] \cap H[t] = {}
  BY <1>3 DEF Once
<1>10. \A i, j \in 1 .. Len(sets) : i # j => ToSet(q[i]) \cap ToSet(q[j]) = {}
  BY <1>2, <1>7, <1>8, <1>9
<1>11. d \in Seq(Frames) /\ IsInjective(d)
  BY <1>6, <1>7, <1>10 DEF JoinOf
<1>12. \A x : x \in ToSet(d) <=> \E s \in Sets : x \in H[s]
  <2>1. \A x : x \in ToSet(d) <=> \E i \in 1 .. Len(sets) : x \in ToSet(q[i])
    BY <1>6 DEF JoinOf
  <2>2. ASSUME NEW x, NEW s \in Sets, x \in H[s] PROVE \E i \in 1 .. Len(sets) : x \in ToSet(q[i])
    <3>1. PICK i \in 1 .. Len(sets) : sets[i] = s
      BY <1>1
    <3>2. QED
      BY <1>7, <2>2, <3>1
  <2>3. \A x : (\E i \in 1 .. Len(sets) : x \in ToSet(q[i])) => \E s \in Sets : x \in H[s]
    BY <1>2, <1>7
  <2>4. QED
    BY <2>1, <2>2, <2>3
<1>13. /\ fresh \in 0 .. FrameEnd /\ recycled \in Seq(Frames) /\ IsInjective(recycled)
       /\ \A s \in Sets : H[s] \subseteq Frames /\ H[s] \cap ToSet(recycled) = {}
       /\ \A f \in Frames : f < fresh <=> f \in ToSet(recycled) \/ \E s \in Sets : f \in H[s]
  BY <1>3 DEF Once
<1> DEFINE used == recycled \o d
<1>14. ToSet(recycled) \cap ToSet(d) = {}
  BY <1>12, <1>13
<1>15. used \in Seq(Frames) /\ ToSet(used) = ToSet(recycled) \cup ToSet(d) /\ IsInjective(used)
  BY <1>11, <1>13, <1>14, JoinSeq
<1>16. InUse = used
  BY DEF InUse, d, q, part, sets
<1> HIDE DEF used
<1>17. ToSet(used) \subseteq Frames
  BY <1>15, InSeq
<1>18. ToSet(used) = 0 .. fresh - 1
  <2>1. 0 .. fresh - 1 = {f \in Frames : f < fresh}
    BY <1>13, Sizes DEF Frames
  <2>2. \A f \in Frames : f \in ToSet(used) <=> f < fresh
    BY <1>12, <1>13, <1>15
  <2>3. QED
    BY <1>17, <2>1, <2>2
<1>19. Len(used) = fresh
  <2>1. Cardinality(ToSet(used)) = Len(used)
    BY <1>15, CountInjective
  <2>2. fresh \in Nat
    BY <1>13
  <2>3. Cardinality(0 .. fresh - 1) = IF 0 > fresh - 1 THEN 0 ELSE (fresh - 1) - 0 + 1
    BY <2>2, FS_Interval
  <2>4. QED
    BY <1>18, <2>1, <2>2, <2>3
<1>20. QED
  BY <1>16, <1>18, <1>19 DEF FramesUsedOnce

(* The invariant says what the run checks.                                 *)
LEMMA PagesInvSound == PagesInv => TablesInv
BY TreesSound, LeavesSound, FramesSound DEF PagesInv, TablesInv

-------------------------------------------------------------------------------
(* What a step does to the leaves and the frames of a list of areas. *)

(* A page of a list is a page, and has a frame.                            *)
LEMMA OwnedPages ==
  ASSUME NEW A \in Seq(Area), NEW i, NEW v, Owns(A, i, v)
  PROVE  v \in Vpns /\ A[i].frames[v] \in Frames /\ A[i].perm \in SUBSET Perms
<1>1. A[i] \in Area /\ v \in PagesOf(A[i])
  BY DEF Owns
<1>2. QED
  BY <1>1, AreaFields

(* A memory that agrees on the tables has the same leaves.                 *)
LEMMA SameLeaves ==
  ASSUME NEW m, NEW M, NEW r, NEW T, Tree(m, r, T), SameOn(m, M, r, T),
         NEW A \in Seq(Area), Leaves(m, r, A)
  PROVE  Leaves(M, r, A)
<1>0. Tree(m, r, T) /\ SameOn(m, M, r, T)
  OBVIOUS
<1>1. /\ Tree(M, r, T)
      /\ \A v \in Vpns : Reaches(M, r, v) <=> Reaches(m, r, v)
      /\ \A v \in Vpns : Maps(M, r, v) <=> Maps(m, r, v)
      /\ \A v \in Vpns : Maps(m, r, v) => Pte(M, r, v) = Pte(m, r, v)
  BY ONLY <1>0, SameTables
<1>2. \A i, v : Owns(A, i, v) => v \in Vpns
  BY OwnedPages
<1>3. QED
  BY <1>1, <1>2, TrampolineIsPage DEF Leaves

(* It lacks the same tables.                                               *)
LEMMA SameLacks ==
  ASSUME NEW m, NEW M, NEW r, NEW T, Tree(m, r, T), \A f \in {r} \cup T : M[f] = m[f],
         NEW v \in Vpns
  PROVE  Lacks(M, r, v) = Lacks(m, r, v)
<1>1. M[r] = m[r] /\ Mid(M, r, v) = Mid(m, r, v)
  BY DEF Mid
<1>2. IsValid(m[r][Indexes(v)[1]]) => Mid(m, r, v) \in T
  <2>1. Indexes(v)[1] \in Indices /\ r \in Inner(m, r)
    BY IndexesOf DEF Inner
  <2>2. QED
    BY <2>1 DEF Tree, Mid
<1>3. QED
  BY <1>1, <1>2 DEF Lacks

(* List B has the pages of list A.                                         *)
SamePages(A, B) ==
    /\ \A i, v : Owns(B, i, v) <=> Owns(A, i, v)
    /\ \A i, v : Owns(A, i, v) => /\ B[i].frames[v] = A[i].frames[v]
                                  /\ B[i].perm = A[i].perm

(* Such a list has the same leaves and frames.                             *)
LEMMA SamePagesFacts ==
  ASSUME NEW A, NEW B, SamePages(A, B)
  PROVE  /\ \A m, r : Leaves(m, r, A) => Leaves(m, r, B)
         /\ PageFrames(B) = PageFrames(A)
         /\ \A ts : Exclusive(ts, A) => Exclusive(ts, B)
         /\ \A ts : Holds(ts, B) = Holds(ts, A)
<1>1. ASSUME NEW m, NEW r, Leaves(m, r, A) PROVE Leaves(m, r, B)
  <2>1. \A v \in Vpns : Maps(m, r, v) =>
            v = TrampolineVpn \/ \E i \in 1 .. Len(B) : Owns(B, i, v)
    <3> SUFFICES ASSUME NEW v \in Vpns, Maps(m, r, v), v # TrampolineVpn
                 PROVE  \E i \in 1 .. Len(B) : Owns(B, i, v)
      OBVIOUS
    <3>1. PICK i \in 1 .. Len(A) : Owns(A, i, v)
      BY <1>1 DEF Leaves
    <3>2. Owns(B, i, v)
      BY <3>1 DEF SamePages
    <3>3. QED
      BY <3>2 DEF Owns
  <2>2. QED
    BY <1>1, <2>1 DEF SamePages, Leaves
<1>2. PageFrames(B) = PageFrames(A)
  BY DEF PageFrames, SamePages
<1>3. ASSUME NEW ts, Exclusive(ts, A) PROVE Exclusive(ts, B)
  BY <1>2, <1>3 DEF Exclusive, SamePages
<1>4. QED
  BY <1>1, <1>2, <1>3 DEF Holds

(* An area without pages is appended.                                      *)
LEMMA EmptyArea ==
  ASSUME NEW A \in Seq(Area), NEW a \in Area, PagesOf(a) = {}
  PROVE  SamePages(A, A \o <<a>>)
<1>1. /\ \A i, v : Owns(A \o <<a>>, i, v) <=> \/ Owns(A, i, v)
                                              \/ i = Len(A) + 1 /\ v \in PagesOf(a)
      /\ \A i \in 1 .. Len(A) : (A \o <<a>>)[i] = A[i]
  BY OwnsMore
<1> DEFINE B == A \o <<a>>
<1> HIDE DEF B
<1>2. /\ \A i, v : Owns(B, i, v) <=> Owns(A, i, v)
      /\ \A i \in 1 .. Len(A) : B[i] = A[i]
  BY <1>1 DEF B
<1>3. SamePages(A, B)
  BY <1>2 DEF SamePages, Owns
<1>4. QED
  BY <1>3 DEF B

(* List B has the pages of list A and page v in place n, with frame f and  *)
(* permissions p.                                                          *)
OneMorePage(A, B, n, v, f, p) ==
    /\ \A i, w : Owns(B, i, w) <=> Owns(A, i, w) \/ (i = n /\ w = v)
    /\ \A i, w : Owns(A, i, w) => /\ B[i].frames[w] = A[i].frames[w]
                                  /\ B[i].perm = A[i].perm
    /\ B[n].frames[v] = f /\ B[n].perm = p

(* The leaves after page v was mapped.                                     *)
LEMMA LeavesGrow ==
  ASSUME NEW A \in Seq(Area), NEW B, NEW n, NEW v \in Vpns, NEW f, NEW p,
         OneMorePage(A, B, n, v, f, p),
         NEW m, NEW M, NEW r, NEW T, Leaves(m, r, A), ~Maps(m, r, v),
         Extended(m, M, r, T, v, Entry(f, p))
  PROVE  Leaves(M, r, B)
<1>1. /\ \A w \in Vpns : Maps(M, r, w) <=> w = v \/ Maps(m, r, w)
      /\ Pte(M, r, v) = Entry(f, p)
      /\ \A w \in Vpns : Maps(m, r, w) => Pte(M, r, w) = Pte(m, r, w)
  BY DEF Extended
<1>2. v # TrampolineVpn /\ \A i : ~Owns(A, i, v)
  BY DEF Leaves
<1>3. \A i, w : Owns(A, i, w) => w \in Vpns
  BY OwnedPages
<1>4. Maps(M, r, TrampolineVpn)
  BY <1>1, TrampolineIsPage DEF Leaves
<1>5. ASSUME NEW w \in Vpns, Maps(M, r, w), w # TrampolineVpn
      PROVE  \E i \in 1 .. Len(B) : Owns(B, i, w)
  <2>1. \E i : Owns(B, i, w)
    BY <1>1, <1>5 DEF OneMorePage, Leaves
  <2>2. QED
    BY <2>1 DEF Owns
<1>6. ASSUME NEW i, NEW w, Owns(B, i, w)
      PROVE  /\ w # TrampolineVpn /\ Maps(M, r, w)
             /\ Pte(M, r, w) = Entry(B[i].frames[w], B[i].perm)
  <2>1. CASE Owns(A, i, w)
    BY <1>1, <1>3, <2>1 DEF OneMorePage, Leaves
  <2>2. CASE i = n /\ w = v
    BY <1>1, <1>2, <2>2 DEF OneMorePage
  <2>3. QED
    BY <1>6, <2>1, <2>2 DEF OneMorePage
<1>7. ASSUME NEW i, NEW j, NEW w, Owns(B, i, w), Owns(B, j, w) PROVE i = j
  BY <1>2, <1>7 DEF OneMorePage, Leaves
<1>8. QED
  BY <1>4, <1>5, <1>6, <1>7 DEF Leaves

(* The frames after page v got frame f.                                    *)
LEMMA FramesGrow ==
  ASSUME NEW A \in Seq(Area), NEW B, NEW n, NEW v, NEW f \in Frames, NEW p,
         OneMorePage(A, B, n, v, f, p), f \notin PageFrames(A)
  PROVE  /\ PageFrames(B) = PageFrames(A) \cup {f}
         /\ OneFrame(A) => OneFrame(B)
<1>1. \A i, w : Owns(A, i, w) => A[i].frames[w] \in PageFrames(A)
  BY OwnedPages DEF PageFrames
<1>2. PageFrames(B) = PageFrames(A) \cup {f}
  BY DEF PageFrames, OneMorePage
<1>3. ASSUME OneFrame(A) PROVE OneFrame(B)
  <2> SUFFICES ASSUME NEW i, NEW j, NEW x, NEW y, Owns(B, i, x), Owns(B, j, y),
                      B[i].frames[x] = B[j].frames[y]
               PROVE  i = j /\ x = y
    BY DEF OneFrame
  <2>1. CASE Owns(A, i, x) /\ Owns(A, j, y)
    BY <1>3, <2>1 DEF OneFrame, OneMorePage
  <2>2. CASE Owns(A, i, x) /\ j = n /\ y = v
    BY <1>1, <2>2 DEF OneMorePage
  <2>3. CASE i = n /\ x = v /\ Owns(A, j, y)
    BY <1>1, <2>3 DEF OneMorePage
  <2>4. CASE i = n /\ x = v /\ j = n /\ y = v
    BY <2>4
  <2>5. QED
    BY <2>1, <2>2, <2>3, <2>4 DEF OneMorePage
<1>4. QED
  BY <1>2, <1>3

(* Where an element of the shortened list was before.                      *)
Shift(k, i) == IF i < k THEN i ELSE i + 1

(* A list without its k-th element.                                        *)
LEMMA RemoveFacts ==
  ASSUME NEW S, NEW A \in Seq(S), NEW k \in 1 .. Len(A)
  PROVE  LET B == RemoveAt(A, k) IN
         /\ B \in Seq(S) /\ Len(B) = Len(A) - 1
         /\ \A i \in 1 .. Len(A) - 1 : Shift(k, i) \in 1 .. Len(A) /\ B[i] = A[Shift(k, i)]
<1> DEFINE L == Len(A)
           x == SubSeq(A, 1, k - 1)
           y == SubSeq(A, k + 1, L)
           B == x \o y
<1>0. L \in Nat /\ k \in 1 .. L
  OBVIOUS
<1>1. x \in Seq(S) /\ Len(x) = k - 1 /\ \A i \in 1 .. k - 1 : x[i] = A[i]
  <2> DEFINE m == k - 1
  <2>1. m \in Nat /\ 1 \in Nat \ {0} /\ 1 =< m + 1 /\ m =< Len(A) /\ A \in Seq(S)
    BY <1>0
  <2>2. \A i \in 1 .. m : 1 + i - 1 = i
    BY <1>0
  <2> HIDE DEF m
  <2>3. /\ SubSeq(A, 1, m) \in Seq(S) /\ Len(SubSeq(A, 1, m)) = m + 1 - 1
        /\ \A i \in 1 .. m + 1 - 1 : SubSeq(A, 1, m)[i] = A[1 + i - 1]
    BY ONLY <2>1, CutSeq
  <2>4. m + 1 - 1 = m
    BY <2>1
  <2>5. QED
    BY <2>2, <2>3, <2>4 DEF m
<1>2. y \in Seq(S) /\ Len(y) = L - k /\ \A i \in 1 .. L - k : y[i] = A[k + i]
  <2> DEFINE l == k + 1
  <2>1. l \in Nat \ {0} /\ L \in Nat /\ l =< L + 1 /\ L =< Len(A) /\ A \in Seq(S)
    BY <1>0
  <2>2. L + 1 - l = L - k /\ \A i \in 1 .. L - k : l + i - 1 = k + i
    BY <1>0
  <2> HIDE DEF l, L
  <2>3. /\ SubSeq(A, l, L) \in Seq(S) /\ Len(SubSeq(A, l, L)) = L + 1 - l
        /\ \A i \in 1 .. L + 1 - l : SubSeq(A, l, L)[i] = A[l + i - 1]
    BY ONLY <2>1, CutSeq
  <2>4. QED
    BY <2>2, <2>3 DEF l
<1> HIDE DEF x, y, L
<1>3. /\ B \in Seq(S) /\ Len(B) = Len(x) + Len(y)
      /\ \A i \in 1 .. Len(x) : B[i] = x[i]
      /\ \A i \in Len(x) + 1 .. Len(x) + Len(y) : B[i] = y[i - Len(x)]
  <2>1. x \in Seq(S) /\ y \in Seq(S)
    BY <1>1, <1>2
  <2>2. B \in Seq(S) /\ Len(B) = Len(x) + Len(y)
    BY ONLY <2>1
  <2>3. /\ \A i \in 1 .. Len(x) : B[i] = x[i]
        /\ \A i \in Len(x) + 1 .. Len(x) + Len(y) : B[i] = y[i - Len(x)]
    BY ONLY <2>1
  <2>4. QED
    BY <2>2, <2>3
<1> HIDE DEF B
<1>4. Len(B) = L - 1
  BY <1>0, <1>1, <1>2, <1>3
<1>5. ASSUME NEW i \in 1 .. L - 1 PROVE Shift(k, i) \in 1 .. L /\ B[i] = A[Shift(k, i)]
  <2>1. CASE i < k
    <3>1. i \in 1 .. k - 1 /\ Shift(k, i) = i /\ i \in 1 .. L
      BY <1>0, <2>1 DEF Shift
    <3>2. QED
      BY <1>1, <1>3, <3>1
  <2>2. CASE i >= k
    <3>1. /\ i \in (k - 1) + 1 .. (k - 1) + (L - k) /\ i - (k - 1) \in 1 .. L - k
          /\ k + (i - (k - 1)) = i + 1 /\ i + 1 \in 1 .. L /\ ~(i < k)
      BY <1>0, <2>2
    <3>2. B[i] = y[i - (k - 1)]
      BY <1>1, <1>2, <1>3, <3>1
    <3>3. y[i - (k - 1)] = A[i + 1]
      BY <1>2, <3>1
    <3>4. QED
      BY <3>1, <3>2, <3>3 DEF Shift
  <2>3. QED
    BY <1>0, <2>1, <2>2
<1>6. RemoveAt(A, k) = B
  BY DEF RemoveAt, B, x, y, L
<1>7. QED
  BY <1>3, <1>4, <1>5, <1>6 DEF L

(* The pages of list A but those in place k.                               *)
LEMMA OwnsLess ==
  ASSUME NEW A \in Seq(Area), NEW k \in 1 .. Len(A)
  PROVE  LET B == RemoveAt(A, k) IN
         /\ B \in Seq(Area)
         /\ \A i, v : Owns(B, i, v) => /\ Owns(A, Shift(k, i), v) /\ Shift(k, i) # k
                                       /\ B[i] = A[Shift(k, i)] /\ i \in Int
         /\ \A j, v : Owns(A, j, v) /\ j # k => \E i : Owns(B, i, v) /\ B[i] = A[j]
<1> DEFINE B == RemoveAt(A, k)
<1>0. Len(A) \in Nat /\ k \in 1 .. Len(A)
  OBVIOUS
<1>1. /\ B \in Seq(Area) /\ Len(B) = Len(A) - 1
      /\ \A i \in 1 .. Len(A) - 1 : Shift(k, i) \in 1 .. Len(A) /\ B[i] = A[Shift(k, i)]
  BY RemoveFacts
<1> HIDE DEF B
<1>2. ASSUME NEW i, NEW v, Owns(B, i, v)
      PROVE  /\ Owns(A, Shift(k, i), v) /\ Shift(k, i) # k
             /\ B[i] = A[Shift(k, i)] /\ i \in Int
  <2>1. i \in 1 .. Len(A) - 1 /\ v \in PagesOf(B[i])
    BY <1>1, <1>2 DEF Owns
  <2>2. Shift(k, i) # k /\ i \in Int
    BY <1>0, <2>1 DEF Shift
  <2>3. QED
    BY <1>1, <2>1, <2>2 DEF Owns
<1>3. ASSUME NEW j, NEW v, Owns(A, j, v), j # k PROVE \E i : Owns(B, i, v) /\ B[i] = A[j]
  <2>0. j \in 1 .. Len(A) /\ v \in PagesOf(A[j])
    BY <1>3 DEF Owns
  <2>1. CASE j < k
    <3>1. j \in 1 .. Len(A) - 1 /\ Shift(k, j) = j
      BY <1>0, <2>0, <2>1 DEF Shift
    <3>2. QED
      BY <1>1, <2>0, <3>1 DEF Owns
  <2>2. CASE j > k
    <3>1. j - 1 \in 1 .. Len(A) - 1 /\ Shift(k, j - 1) = j
      BY <1>0, <2>0, <2>2 DEF Shift
    <3>2. QED
      BY <1>1, <2>0, <3>1 DEF Owns
  <2>3. QED
    BY <1>0, <1>3, <2>0, <2>1, <2>2
<1>4. QED
  BY <1>1, <1>2, <1>3 DEF B

(* The places of two elements of the shortened list differ.                *)
LEMMA ShiftUnique ==
  ASSUME NEW k \in Int, NEW i \in Int, NEW j \in Int, Shift(k, i) = Shift(k, j)
  PROVE  i = j
BY DEF Shift

(* The leaves after area k was unmapped and removed.                       *)
LEMMA LeavesShrink ==
  ASSUME NEW A \in Seq(Area), NEW k \in 1 .. Len(A), NEW m \in Memories, NEW r, NEW T,
         Tree(m, r, T), Leaves(m, r, A)
  PROVE  Leaves(Unmapped(m, r, PagesOf(A[k])), r, RemoveAt(A, k))
<1> DEFINE V == PagesOf(A[k])
           M == Unmapped(m, r, V)
           B == RemoveAt(A, k)
<1>1. \A v \in V : Owns(A, k, v) /\ v \in Vpns
  BY OwnedPages DEF Owns
<1>2. V \subseteq Vpns /\ \A v \in V : Maps(m, r, v) /\ v # TrampolineVpn
  BY <1>1 DEF Leaves
<1> HIDE DEF V
<1>3. /\ \A w \in Vpns : Maps(M, r, w) <=> Maps(m, r, w) /\ w \notin V
      /\ \A w \in Vpns : Maps(M, r, w) => Pte(M, r, w) = Pte(m, r, w)
  BY <1>2, UnmapClears
<1>4. /\ B \in Seq(Area)
      /\ \A i, v : Owns(B, i, v) => /\ Owns(A, Shift(k, i), v) /\ Shift(k, i) # k
                                    /\ B[i] = A[Shift(k, i)] /\ i \in Int
      /\ \A j, v : Owns(A, j, v) /\ j # k => \E i : Owns(B, i, v) /\ B[i] = A[j]
  BY OwnsLess
<1> HIDE DEF M, B
<1>5. Maps(M, r, TrampolineVpn)
  BY <1>2, <1>3, TrampolineIsPage DEF Leaves
<1>6. ASSUME NEW w \in Vpns, Maps(M, r, w), w # TrampolineVpn
      PROVE  \E i \in 1 .. Len(B) : Owns(B, i, w)
  <2>1. Maps(m, r, w) /\ w \notin V
    BY <1>3, <1>6
  <2>2. PICK j \in 1 .. Len(A) : Owns(A, j, w)
    BY <1>6, <2>1 DEF Leaves
  <2>3. j # k
    BY <2>1, <2>2 DEF Owns, V
  <2>4. QED
    BY <1>4, <2>2, <2>3 DEF Owns
<1>7. ASSUME NEW i, NEW w, Owns(B, i, w)
      PROVE  /\ w # TrampolineVpn /\ Maps(M, r, w)
             /\ Pte(M, r, w) = Entry(B[i].frames[w], B[i].perm)
  <2>1. Owns(A, Shift(k, i), w) /\ Shift(k, i) # k /\ B[i] = A[Shift(k, i)]
    BY <1>4, <1>7
  <2>2. w \in Vpns /\ w # TrampolineVpn /\ Maps(m, r, w)
        /\ Pte(m, r, w) = Entry(B[i].frames[w], B[i].perm)
    BY <2>1, OwnedPages DEF Leaves
  <2>3. w \notin V
    BY <1>1, <2>1 DEF Leaves
  <2>4. QED
    BY <1>3, <2>2, <2>3
<1>8. ASSUME NEW i, NEW j, NEW w, Owns(B, i, w), Owns(B, j, w) PROVE i = j
  <2>1. Shift(k, i) = Shift(k, j) /\ i \in Int /\ j \in Int
    BY <1>4, <1>8 DEF Leaves
  <2>2. QED
    BY <2>1, ShiftUnique
<1>9. QED
  BY <1>5, <1>6, <1>7, <1>8 DEF Leaves, M, B, V

(* The frames after area k was removed.                                    *)
LEMMA FramesShrink ==
  ASSUME NEW A \in Seq(Area), NEW k \in 1 .. Len(A), OneFrame(A)
  PROVE  LET B == RemoveAt(A, k)
             d == FramesOf(A[k]) IN
         /\ d \in Seq(Frames) /\ IsInjective(d)
         /\ PageFrames(A) = PageFrames(B) \cup ToSet(d) /\ PageFrames(B) \cap ToSet(d) = {}
         /\ OneFrame(B)
<1> DEFINE B == RemoveAt(A, k)
           d == FramesOf(A[k])
<1>0. A[k] \in Area
  OBVIOUS
<1>1. /\ \A i, v : Owns(B, i, v) => /\ Owns(A, Shift(k, i), v) /\ Shift(k, i) # k
                                    /\ B[i] = A[Shift(k, i)] /\ i \in Int
      /\ \A j, v : Owns(A, j, v) /\ j # k => \E i : Owns(B, i, v) /\ B[i] = A[j]
  BY OwnsLess
<1>2. /\ d \in Seq(Frames)
      /\ \A f : f \in ToSet(d) <=> \E v \in PagesOf(A[k]) : A[k].frames[v] = f
      /\ (\A v, w \in PagesOf(A[k]) : A[k].frames[v] = A[k].frames[w] => v = w) => IsInjective(d)
  BY <1>0, FramesOfArea
<1> HIDE DEF B, d
<1>3. \A v : v \in PagesOf(A[k]) <=> Owns(A, k, v)
  BY DEF Owns
<1>4. IsInjective(d)
  BY <1>2, <1>3 DEF OneFrame
<1>5. \A f : f \in ToSet(d) <=> \E v : Owns(A, k, v) /\ A[k].frames[v] = f
  BY <1>2, <1>3
<1>6. ASSUME NEW f
      PROVE  f \in PageFrames(A) <=> f \in PageFrames(B) \cup ToSet(d)
  <2>1. ASSUME f \in PageFrames(A) PROVE f \in PageFrames(B) \cup ToSet(d)
    <3>1. PICK j, v : Owns(A, j, v) /\ A[j].frames[v] = f
      BY <2>1 DEF PageFrames
    <3>2. CASE j = k
      BY <1>5, <3>1, <3>2
    <3>3. CASE j # k
      BY <1>1, <2>1, <3>1, <3>3 DEF PageFrames
    <3>4. QED
      BY <3>2, <3>3
  <2>2. ASSUME f \in PageFrames(B) PROVE f \in PageFrames(A)
    BY <1>1, <2>2 DEF PageFrames
  <2>3. ASSUME f \in ToSet(d) PROVE f \in PageFrames(A)
    BY <1>5, <2>3, OwnedPages DEF PageFrames
  <2>4. QED
    BY <2>1, <2>2, <2>3
<1>7. PageFrames(B) \cap ToSet(d) = {}
  <2> SUFFICES ASSUME NEW f, f \in PageFrames(B), f \in ToSet(d) PROVE FALSE
    OBVIOUS
  <2>1. PICK i, v : Owns(B, i, v) /\ B[i].frames[v] = f
    BY DEF PageFrames
  <2>2. PICK w : Owns(A, k, w) /\ A[k].frames[w] = f
    BY <1>5
  <2>3. QED
    BY <1>1, <2>1, <2>2 DEF OneFrame
<1>8. OneFrame(B)
  <2> SUFFICES ASSUME NEW i, NEW j, NEW x, NEW y, Owns(B, i, x), Owns(B, j, y),
                      B[i].frames[x] = B[j].frames[y]
               PROVE  i = j /\ x = y
    BY DEF OneFrame
  <2>1. /\ Owns(A, Shift(k, i), x) /\ B[i] = A[Shift(k, i)] /\ i \in Int
        /\ Owns(A, Shift(k, j), y) /\ B[j] = A[Shift(k, j)] /\ j \in Int
    BY <1>1
  <2>2. A[Shift(k, i)].frames[x] = A[Shift(k, j)].frames[y]
    BY <2>1
  <2>3. Shift(k, i) = Shift(k, j) /\ x = y
    BY ONLY <2>1, <2>2, OneFrame(A) DEF OneFrame
  <2>4. QED
    BY <2>1, <2>3, ShiftUnique
<1>9. QED
  BY <1>2, <1>4, <1>6, <1>7, <1>8 DEF B, d

-------------------------------------------------------------------------------
(* A step at one memory set. *)

(* What PagesInv says of one memory set, with status st, root r, tables ts *)
(* and the areas of the list.                                              *)
Sound(m, st, r, ts, list) ==
    /\ st # "none" => ts # <<>> /\ r = ts[1] /\ Tree(m, r, Rest(ts))
    /\ st \in {"building", "live"} => Leaves(m, r, list)
    /\ Exclusive(ts, list)

(* The variables have values of the right form.                            *)
Typed == PageTypeOK /\ areas \in [Sets -> Seq(Area)] /\ OpOK /\ StatusOK

(* PagesInv, memory set by memory set.                                     *)
LEMMA InvParts ==
  PagesInv <=> /\ Typed
               /\ \A s \in Sets : Sound(pte, status[s], root[s], tables[s],
                                        With(areas[s], op, s))
               /\ Once(fresh, recycled, Held(tables, areas, op))
BY DEF PagesInv, Typed, Sound

(* A memory that agrees on the tables of a memory set leaves it sound.     *)
LEMMA SoundKept ==
  ASSUME NEW m, NEW M, NEW st, NEW r, NEW ts \in Seq(Frames), NEW list \in Seq(Area),
         Sound(m, st, r, ts, list), \A f \in ToSet(ts) : M[f] = m[f],
         st \in {"none", "building", "live", "exited"}
  PROVE  Sound(M, st, r, ts, list)
<1>1. CASE st = "none"
  BY <1>1 DEF Sound
<1>2. CASE st # "none"
  <2>1. ts # <<>> /\ r = ts[1] /\ Tree(m, r, Rest(ts)) /\ IsInjective(ts)
    BY <1>2 DEF Sound, Exclusive
  <2>2. SameOn(m, M, r, Rest(ts))
    BY <2>1, CountRest DEF SameOn
  <2>3. Tree(M, r, Rest(ts))
    BY <2>1, <2>2, SameTables
  <2>4. st \in {"building", "live"} => Leaves(M, r, list)
    BY <2>1, <2>2, SameLeaves DEF Sound
  <2>5. QED
    BY <2>1, <2>3, <2>4 DEF Sound
<1>3. QED
  BY <1>1, <1>2

(* A step is at memory set c: the others, and the frames of their tables,  *)
(* stay as they are.                                                       *)
StepAt(c) ==
    /\ op = Idle \/ op.set = c
    /\ op' = Idle \/ op'.set = c
    /\ \A s \in Sets \ {c} :
         /\ root'[s] = root[s] /\ tables'[s] = tables[s]
         /\ areas'[s] = areas[s] /\ status'[s] = status[s]
         /\ \A f \in ToSet(tables[s]) : pte'[f] = pte[f]

(* The frames memory set c holds before and after the step.                *)
Before(c) == Holds(tables[c], With(areas[c], op, c))
After(c) == Holds(tables[c], With(areas[c], op, c))'

(* A step at c keeps the invariant if it keeps c sound and every frame in  *)
(* one place.                                                              *)
LEMMA OneStep ==
  ASSUME PagesInv, NEW c \in Sets, StepAt(c), Typed',
         Sound(pte, status[c], root[c], tables[c], With(areas[c], op, c))',
         NEW n \in Nat, Fits(n), NEW dropped \in Seq(Frames), AllocAndFree(n, dropped),
         IsInjective(dropped), After(c) \cap ToSet(dropped) = {},
         After(c) \cup ToSet(dropped) = Before(c) \cup ToSet(Alloc(n))
  PROVE  PagesInv'
<1>1. \A s \in Sets \ {c} : With(areas[s], op, s)' = With(areas[s], op, s)
  <2>1. \A s \in Sets \ {c} : areas'[s] = areas[s] /\ areas[s] \in Seq(Area)
    BY InvParts DEF StepAt, Typed
  <2>2. OpTyped(op) /\ OpTyped(op')
    BY InvParts DEF Typed, OpOK
  <2>3. ASSUME NEW s \in Sets \ {c} PROVE With(areas[s], op, s)' = With(areas[s], op, s)
    <3>1. op = Idle \/ op.set # s
      BY DEF StepAt
    <3>2. op' = Idle \/ op'.set # s
      BY DEF StepAt
    <3>3. With(areas[s], op, s) = areas[s]
      <4> DEFINE A == areas[s]
      <4>1. A \in Seq(Area)
        BY <2>1
      <4> HIDE DEF A
      <4>2. With(A, op, s) = A
        BY ONLY <2>2, <3>1, <4>1, WithIs
      <4>3. QED
        BY <4>2 DEF A
    <3>4. With(areas'[s], op', s) = areas'[s]
      <4> DEFINE A == areas'[s]
                 o == op'
      <4>1. A \in Seq(Area) /\ OpTyped(o) /\ (o = Idle \/ o.set # s)
        BY <2>1, <2>2, <3>2
      <4> HIDE DEF A, o
      <4>2. With(A, o, s) = A
        BY ONLY <4>1, WithIs
      <4>3. QED
        BY <4>2 DEF A, o
    <3>5. QED
      BY <2>1, <3>3, <3>4
  <2>4. QED
    BY <2>3
<1>2. \A s \in Sets : Sound(pte, status[s], root[s], tables[s], With(areas[s], op, s))'
  <2>1. ASSUME NEW s \in Sets \ {c}
        PROVE  Sound(pte, status[s], root[s], tables[s], With(areas[s], op, s))'
    <3>1. Sound(pte, status[s], root[s], tables[s], With(areas[s], op, s))
      BY InvParts
    <3>2. /\ tables[s] \in Seq(Frames) /\ With(areas[s], op, s) \in Seq(Area)
          /\ status[s] \in {"none", "building", "live", "exited"}
      BY InvParts, WithSeq DEF Typed, PageTypeOK, OpOK
    <3>3. \A f \in ToSet(tables[s]) : pte'[f] = pte[f]
      BY DEF StepAt
    <3>4. Sound(pte', status[s], root[s], tables[s], With(areas[s], op, s))
      BY <3>1, <3>2, <3>3, SoundKept
    <3>5. QED
      BY <1>1, <3>4 DEF StepAt
  <2>2. QED
    BY <2>1
<1>3. Once(fresh, recycled, Held(tables, areas, op))'
  <2> DEFINE H == Held(tables, areas, op)
             K == Held(tables', areas', op')
  <2>1. Once(fresh, recycled, H)
    BY InvParts
  <2>2. \A s \in Sets \ {c} : K[s] = H[s]
    BY <1>1 DEF Held, StepAt
  <2>3. H[c] = Before(c) /\ K[c] = After(c)
    BY DEF Held, Before, After
  <2> HIDE DEF H, K
  <2>4. K[c] \cap ToSet(dropped) = {} /\ K[c] \cup ToSet(dropped) = H[c] \cup ToSet(Alloc(n))
    BY <2>3
  <2>5. Once(fresh', recycled', K)
    BY <2>1, <2>2, <2>4, Exchange
  <2>6. QED
    BY <2>5 DEF K
<1>4. QED
  BY <1>2, <1>3 DEF PagesInv, Typed, Sound

(* A step at c that takes no frame and returns none.                       *)
LEMMA QuietStep ==
  ASSUME PagesInv, NEW c \in Sets, StepAt(c), Typed', UNCHANGED <<fresh, recycled>>,
         Sound(pte, status[c], root[c], tables[c], With(areas[c], op, c))',
         After(c) = Before(c)
  PROVE  PagesInv'
<1>1. recycled \in Seq(Frames) /\ fresh \in 0 .. FrameEnd
  BY InvParts DEF Once
<1>2. Fits(0) /\ Alloc(0) = <<>> /\ ToSet(<<>>) = {} /\ IsInjective(<<>>) /\ <<>> \in Seq(Frames)
  BY <1>1, Sizes DEF Fits, Alloc, ToSet, IsInjective
<1>3. AllocAndFree(0, <<>>)
  <2>1. SubSeq(recycled, 1, Len(recycled)) \o <<>> = recycled
    BY <1>1
  <2>2. QED
    BY <1>1, <2>1 DEF AllocAndFree
<1>4. QED
  BY <1>2, <1>3, OneStep

(* Only bytes, the reason of a panic or the number of operations change.   *)
LEMMA SameSpaces ==
  ASSUME PagesInv, UNCHANGED <<fresh, recycled, pte, root, tables, areas, status, op>>,
         byte' \in [Frames -> [0 .. PageSize - 1 -> Int]],
         panicked' \in {"no", "oom", "mapped before mapping"}
  PROVE  PagesInv'
<1>1. Typed'
  BY InvParts DEF Typed, PageTypeOK, OpOK, StatusOK
<1>2. QED
  BY <1>1 DEF PagesInv, Typed

-------------------------------------------------------------------------------
(* Initial states and new memory sets. *)

(* A list without areas has no pages.                                      *)
LEMMA NoAreas ==
  /\ \A i, v : ~Owns(<<>>, i, v)
  /\ PageFrames(<<>>) = {} /\ \A ts : Holds(ts, <<>>) = ToSet(ts)
  /\ \A ts : IsInjective(ts) => Exclusive(ts, <<>>)
  /\ <<>> \in Seq(Area)
<1>1. \A i, v : ~Owns(<<>>, i, v)
  BY DEF Owns
<1>2. PageFrames(<<>>) = {}
  BY <1>1 DEF PageFrames
<1>3. QED
  BY <1>1, <1>2 DEF Holds, Exclusive

(* No sequence, one or two elements.                                       *)
LEMMA ShortSeqs ==
  ASSUME NEW b, NEW c
  PROVE  /\ ToSet(<<>>) = {} /\ IsInjective(<<>>)
         /\ ToSet(<<b, c>>) = {b, c} /\ Len(<<b, c>>) = 2
         /\ b # c => IsInjective(<<b, c>>)
BY DEF ToSet, IsInjective

(* Three blank frames in memory m, and what map_trampoline makes of them.  *)
Blank(m, r, b, c) ==
    /\ m \in Memories /\ r \in Frames /\ b \in Frames /\ c \in Frames
    /\ r # b /\ r # c /\ b # c
    /\ \A k \in Indices : m[r][k] = Empty /\ m[b][k] = Empty /\ m[c][k] = Empty
WithTrampoline(m, r, b, c) ==
    MapEntry(m, r, TrampolineVpn, Entry(TrampolinePpn, {"R", "X"}), <<b, c>>)
Begun(m, r, b, c, M) ==
    /\ M \in Memories /\ Tree(M, r, {b, c}) /\ Leaves(M, r, <<>>)
    /\ \A f \in Frames \ {r, b, c} : M[f] = m[f]

(* new_bare and map_trampoline: three blank frames become a tree in which  *)
(* the trampoline is mapped and nothing else.                              *)
LEMMA NewTree ==
  ASSUME NEW m, NEW r, NEW b, NEW c, Blank(m, r, b, c)
  PROVE  Begun(m, r, b, c, WithTrampoline(m, r, b, c))
<1> DEFINE new == <<b, c>>
           e == Entry(TrampolinePpn, {"R", "X"})
           M == MapEntry(m, r, TrampolineVpn, e, new)
<1>0. /\ m \in Memories /\ r \in Frames /\ b \in Frames /\ c \in Frames
      /\ r # b /\ r # c /\ b # c
      /\ \A k \in Indices : m[r][k] = Empty /\ m[b][k] = Empty /\ m[c][k] = Empty
  BY DEF Blank
<1>1. \A k \in Indices : ~IsValid(m[r][k])
  BY <1>0, EntryFacts
<1>2. Inner(m, r) = {r}
  BY <1>1 DEF Inner, Mids
<1>3. Tree(m, r, {})
  BY <1>0, <1>1, <1>2 DEF Tree
<1>4. \A v \in Vpns : ~Maps(m, r, v) /\ Lacks(m, r, v) = 2
  BY <1>0, <1>1, IndexesOf DEF Maps, Reaches, Lacks
<1>5. e \in Entries /\ IsValid(e)
  <2>1. TrampolinePpn \in 0 .. FrameEnd /\ {"R", "X"} \in SUBSET Flags
    BY Sizes DEF TrampolinePpn, Flags
  <2>2. QED
    BY <2>1, EntryFacts
<1>6. new \in Seq(Frames) /\ ToSet(new) = {b, c} /\ Len(new) = 2 /\ IsInjective(new)
  BY <1>0, ShortSeqs
<1>7. Suits(m, r, {}, TrampolineVpn, new)
  BY <1>0, <1>4, <1>6, TrampolineIsPage DEF Suits
<1> HIDE DEF new, e
<1>8. Extended(m, M, r, {} \cup ToSet(new), TrampolineVpn, e)
  BY <1>0, <1>3, <1>4, <1>5, <1>7, TrampolineIsPage, MapEntryMaps
<1>9. {} \cup ToSet(new) = {b, c}
  BY <1>6
<1> HIDE DEF M
<1>10. Extended(m, M, r, {b, c}, TrampolineVpn, e)
  BY <1>8, <1>9
<1>11. Leaves(M, r, <<>>)
  BY <1>4, <1>10, NoAreas, TrampolineIsPage DEF Leaves, Extended
<1>12. QED
  BY <1>10, <1>11 DEF Extended, M, e, new, Begun, WithTrampoline

(* A cleared table.                                                        *)
LEMMA BlankTables ==
  /\ ClearTable \in [Indices -> Entries] /\ \A k \in Indices : ClearTable[k] = Empty
  /\ \A m \in Memories : \A q : Cleared(m, q, ClearTable) \in Memories
  /\ \A m, q : \A f \in Frames :
        Cleared(m, q, ClearTable)[f] = IF f \in ToSet(q) THEN ClearTable ELSE m[f]
<1>1. ClearTable \in [Indices -> Entries] /\ \A k \in Indices : ClearTable[k] = Empty
  BY EntryFacts DEF ClearTable, Indices
<1>2. QED
  BY <1>1 DEF Cleared, Memories

(* Pages stay pages.                                                       *)
LEMMA BlankPages ==
  ASSUME NEW m \in [Frames -> [0 .. PageSize - 1 -> Int]], NEW q
  PROVE  Cleared(m, q, ClearPage) \in [Frames -> [0 .. PageSize - 1 -> Int]]
<1>1. ClearPage \in [0 .. PageSize - 1 -> Int]
  BY DEF ClearPage
<1>2. QED
  BY <1>1 DEF Cleared

(* The initial states satisfy the invariant.                               *)
LEMMA InitPages == PageInit => PagesInv
<1> SUFFICES ASSUME PageInit PROVE PagesInv
  OBVIOUS
<1> DEFINE blank == [f \in Frames |-> ClearTable]
<1>0. 0 \in Frames /\ 1 \in Frames /\ 2 \in Frames
  BY Sizes DEF Frames
<1>1. /\ pte \in Memories /\ Tree(pte, 0, {1, 2}) /\ Leaves(pte, 0, <<>>)
  <2>1. blank \in Memories
    BY BlankTables DEF Memories
  <2>2. \A k \in Indices : blank[0][k] = Empty /\ blank[1][k] = Empty /\ blank[2][k] = Empty
    BY <1>0, BlankTables
  <2>3. pte = MapEntry(blank, 0, TrampolineVpn, Entry(TrampolinePpn, {"R", "X"}), <<1, 2>>)
    BY DEF PageInit
  <2> HIDE DEF blank
  <2>4. QED
    <3>1. Blank(blank, 0, 1, 2)
      BY <1>0, <2>1, <2>2 DEF Blank
    <3>2. Begun(blank, 0, 1, 2, WithTrampoline(blank, 0, 1, 2))
      BY ONLY <3>1, NewTree
    <3>3. pte = WithTrampoline(blank, 0, 1, 2)
      BY <2>3 DEF WithTrampoline
    <3>4. QED
      BY <3>2, <3>3 DEF Begun
<1>2. Kernel \in Sets /\ \A s \in Sets : s \in UserSets <=> s # Kernel
  BY PageAssumption DEF Sets
<1>3. <<0, 1, 2>> \in Seq(Frames) /\ <<>> \in Seq(Frames) /\ IsInjective(<<0, 1, 2>>)
      /\ ToSet(<<0, 1, 2>>) = {0, 1, 2} /\ Rest(<<0, 1, 2>>) = {1, 2}
  BY <1>0 DEF IsInjective, ToSet, Rest
<1>4. Typed
  <2>1. PageTypeOK
    <3>1. pte \in [Frames -> [0 .. Fan - 1 -> [ppn : 0 .. FrameEnd, flags : SUBSET {"V", "R", "W", "X", "U"}]]]
      BY <1>1 DEF Memories, Entries, Flags, Indices
    <3>2. byte \in [Frames -> [0 .. PageSize - 1 -> Int]]
      BY DEF PageInit, ClearPage
    <3>3. root \in [Sets -> Frames] /\ tables \in [Sets -> Seq(Frames)]
      BY <1>0, <1>3 DEF PageInit
    <3>4. QED
      BY <3>1, <3>2, <3>3 DEF PageTypeOK, PageInit
  <2>2. areas \in [Sets -> Seq(Area)]
    BY NoAreas DEF PageInit
  <2>3. OpOK
    BY DEF OpOK, OpTyped, PageInit
  <2>4. StatusOK
    BY <1>2 DEF StatusOK, PageInit, Sets
  <2>5. QED
    BY <2>1, <2>2, <2>3, <2>4 DEF Typed
<1>5. \A s \in Sets : With(areas[s], op, s) = <<>> /\ areas[s] = <<>>
  <2>1. \A s \in Sets : areas[s] = <<>> /\ op = Idle
    BY DEF PageInit
  <2>2. <<>> \o <<>> = <<>>
    OBVIOUS
  <2>3. QED
    BY <2>1, <2>2 DEF With
<1>6. ASSUME NEW s \in Sets
      PROVE  Sound(pte, status[s], root[s], tables[s], <<>>)
  <2>1. CASE s = Kernel
    <3>1. tables[s] = <<0, 1, 2>> /\ root[s] = 0 /\ status[s] = "live"
      BY <2>1 DEF PageInit
    <3>2. Exclusive(<<0, 1, 2>>, <<>>)
      BY <1>3, NoAreas
    <3>3. <<0, 1, 2>> # <<>> /\ <<0, 1, 2>>[1] = 0
      OBVIOUS
    <3>4. QED
      BY <1>1, <1>3, <3>1, <3>2, <3>3 DEF Sound
  <2>2. CASE s # Kernel
    <3>1. tables[s] = <<>> /\ status[s] = "none"
      BY <2>2 DEF PageInit
    <3>2. Exclusive(<<>>, <<>>)
      BY ShortSeqs, NoAreas
    <3>3. QED
      BY <3>1, <3>2 DEF Sound
  <2>3. QED
    BY <2>1, <2>2
<1>7. Once(fresh, recycled, Held(tables, areas, op))
  <2> DEFINE H == Held(tables, areas, op)
  <2>1. \A s \in Sets : H[s] = ToSet(tables[s])
    BY <1>5, NoAreas DEF Held
  <2>2. \A s \in Sets : H[s] = IF s = Kernel THEN {0, 1, 2} ELSE {}
    BY <1>3, <2>1, ShortSeqs DEF PageInit
  <2> HIDE DEF H
  <2>3. fresh = 3 /\ recycled = <<>>
    BY DEF PageInit
  <2>4. 3 \in 0 .. FrameEnd /\ \A f \in Frames : f < 3 <=> f \in {0, 1, 2}
    BY Sizes DEF Frames
  <2>5. Once(3, <<>>, H)
    <3>1. \A s \in Sets : H[s] \subseteq Frames /\ H[s] \cap {} = {}
      BY <1>0, <2>2
    <3>2. \A s, t \in Sets : s # t => H[s] \cap H[t] = {}
      BY <2>2
    <3>3. \A f \in Frames : f < 3 <=> f \in {} \/ \E s \in Sets : f \in H[s]
      BY <1>2, <2>2, <2>4
    <3>4. IsInjective(<<>>) /\ ToSet(<<>>) = {}
      BY ShortSeqs
    <3>5. <<>> \in Seq(Frames)
      OBVIOUS
    <3>6. QED
      BY <2>4, <3>1, <3>2, <3>3, <3>4, <3>5 DEF Once
  <2>6. QED
    BY <2>3, <2>5 DEF H
<1>8. QED
  BY <1>4, <1>5, <1>6, <1>7, InvParts

-------------------------------------------------------------------------------
(* Writes. *)

(* The entry of a mapped page is an entry.                                 *)
LEMMA MappedEntry ==
  ASSUME PagesInv, NEW s \in Sets, status[s] # "none", NEW v \in Vpns, Maps(pte, root[s], v)
  PROVE  Pte(pte, root[s], v) \in Entries
<1>1. pte \in Memories
  BY DEF PagesInv, PageTypeOK, Memories, Entries, Flags, Indices
<1>2. Low(pte, root[s], v) \in Frames
  <2>1. Tree(pte, root[s], Rest(tables[s])) /\ Reaches(pte, root[s], v)
    BY DEF PagesInv, Maps
  <2>2. Low(pte, root[s], v) \in Rest(tables[s])
    BY <2>1, TreeLevels
  <2>3. QED
    BY <2>1, <2>2 DEF Tree
<1>3. Indexes(v)[3] \in Indices
  BY IndexesOf
<1>4. QED
  BY <1>1, <1>2, <1>3 DEF Pte, Memories

(* write_user_bytes and a panic leave the page tables alone.               *)
LEMMA WriteBufferKeeps ==
  ASSUME PagesInv, NEW s, NEW ptr, NEW len, WriteBuffer(s, ptr, len)
  PROVE  PagesInv'
<1> DEFINE places == TranslatedByteBuffer(root[s], ptr, len)
<1>1. byte' = [f \in Frames |-> [i \in 0 .. PageSize - 1 |->
                IF \E k \in 1 .. Len(places) : places[k] = <<f, i>>
                THEN -(CHOOSE k \in 1 .. Len(places) : places[k] = <<f, i>>)
                ELSE byte[f][i]]]
  BY DEF WriteBuffer
<1>2. byte \in [Frames -> [0 .. PageSize - 1 -> Int]]
      /\ panicked \in {"no", "oom", "mapped before mapping"}
  BY DEF PagesInv, PageTypeOK
<1> HIDE DEF places
<1>3. ASSUME NEW f \in Frames, NEW i \in 0 .. PageSize - 1 PROVE byte'[f][i] \in Int
  <2>1. CASE \E k \in 1 .. Len(places) : places[k] = <<f, i>>
    <3> DEFINE k == CHOOSE k \in 1 .. Len(places) : places[k] = <<f, i>>
    <3>1. k \in 1 .. Len(places)
      BY <2>1
    <3>2. byte'[f][i] = -k
      BY <1>1, <2>1
    <3> HIDE DEF k
    <3>3. -k \in Int
      BY <3>1
    <3>4. QED
      BY <3>2, <3>3
  <2>2. CASE ~\E k \in 1 .. Len(places) : places[k] = <<f, i>>
    BY <1>1, <1>2, <2>2
  <2>3. QED
    BY <2>1, <2>2
<1>4. byte' \in [Frames -> [0 .. PageSize - 1 -> Int]]
  BY <1>1, <1>3
<1>5. QED
  BY <1>2, <1>4, SameSpaces DEF WriteBuffer

(* So does a store through translated_refmut.                              *)
LEMMA WriteRefKeeps ==
  ASSUME PagesInv, NEW s, NEW ptr \in Refs, WriteRef(s, ptr)
  PROVE  PagesInv'
<1> DEFINE pa == TranslateVa(root[s], VirtAddr(ptr))
           v == Floor(VirtAddr(ptr))
<1>1. byte' = [f \in Frames |-> [i \in 0 .. PageSize - 1 |->
                IF f * PageSize + i \in pa .. pa + RefSize - 1
                THEN -(f * PageSize + i - pa + 1) ELSE byte[f][i]]]
  BY DEF WriteRef
<1>2. byte \in [Frames -> [0 .. PageSize - 1 -> Int]]
      /\ panicked \in {"no", "oom", "mapped before mapping"}
  BY DEF PagesInv, PageTypeOK
<1>3. ptr \in Nat /\ RefSize \in Nat /\ RefSize > 0
  BY PageAssumption
<1>4. v \in Vpns
  BY <1>3, VpnBounds
<1>5. s \in Sets /\ status[s] = "live" /\ Maps(pte, root[s], v)
  <2>1. s \in Sets /\ status[s] = "live" /\ Accessible(s, ptr, RefSize)
    BY DEF WriteRef, Sets
  <2>2. ptr \in ptr .. ptr + RefSize - 1
    BY <1>3
  <2>3. IsMapped(root[s], v)
    BY <2>1, <2>2 DEF Accessible
  <2>4. QED
    BY <2>1, <2>3, WalkIs
<1>6. pa \in Int
  <2>1. Pte(pte, root[s], v) \in Entries
    BY <1>4, <1>5, MappedEntry
  <2>2. FindPte(root[s], v).ppn \in Int
    BY <2>1, Sizes, WalkIs DEF Entries
  <2>3. PageOffset(VirtAddr(ptr)) \in Int
    <3> DEFINE w == VirtAddr(ptr)
    <3>1. w \in Int
      BY <1>3, Sizes, Division DEF VirtAddr
    <3> HIDE DEF w
    <3>2. PageOffset(w) \in Int
      BY <3>1, Sizes, Division DEF PageOffset
    <3>3. QED
      BY <3>2 DEF w
  <2>4. QED
    BY <2>2, <2>3, Sizes DEF TranslateVa
<1> HIDE DEF pa
<1>7. ASSUME NEW f \in Frames, NEW i \in 0 .. PageSize - 1 PROVE byte'[f][i] \in Int
  <2>1. f * PageSize \in Int
    BY Sizes DEF Frames
  <2>2. -(f * PageSize + i - pa + 1) \in Int
    BY <1>6, <2>1
  <2>3. QED
    BY <1>1, <1>2, <2>2
<1>8. byte' \in [Frames -> [0 .. PageSize - 1 -> Int]]
  BY <1>1, <1>7
<1>9. QED
  BY <1>2, <1>8, SameSpaces DEF WriteRef

(* So does a panic.                                                        *)
LEMMA PanicKeeps ==
  ASSUME PagesInv, NEW why \in {"oom", "mapped before mapping"}, Panic(why)
  PROVE  PagesInv'
<1>1. byte \in [Frames -> [0 .. PageSize - 1 -> Int]]
  BY DEF PagesInv, PageTypeOK
<1>2. QED
  BY <1>1, SameSpaces DEF Panic

-------------------------------------------------------------------------------
(* Loops begin. *)

(* The loop at its start.                                                  *)
LEMMA RunningFacts ==
  ASSUME NEW s \in Sets, NEW from \in Sets, NEW todo \in Seq(Todo), todo # <<>>
  PROVE  LET o == Running(s, from, todo) IN
         /\ OpTyped(o) /\ o # Idle /\ o.set = s /\ o.from = from /\ o.todo = todo
         /\ \A A \in Seq(Area) : /\ With(A, o, s) \in Seq(Area)
                                 /\ SamePages(A, With(A, o, s))
<1> DEFINE o == Running(s, from, todo)
           b == todo[1].start
<1>1. b \in Bounds /\ b \in Int
  <2>1. todo[1] \in Todo
    OBVIOUS
  <2>2. QED
    BY <2>1, Sizes DEF Todo, Bounds
<1> HIDE DEF b
<1>2. o = [set |-> s, from |-> from, todo |-> todo, next |-> b, frames |-> <<>>]
  BY DEF Running, b
<1> HIDE DEF o
<1>3. o.set = s /\ o.from = from /\ o.todo = todo /\ o.next = b /\ o.frames = <<>>
  BY <1>2
<1>4. o # Idle
  BY <1>3 DEF Idle
<1>5. b .. b - 1 = {} /\ b >= b
  BY <1>1
<1>6. <<>> \in [{} -> Frames]
  OBVIOUS
<1>7. OpTyped(o)
  BY <1>1, <1>2, <1>3, <1>5, <1>6 DEF OpTyped, b
<1>8. ASSUME NEW A \in Seq(Area)
      PROVE  With(A, o, s) \in Seq(Area) /\ SamePages(A, With(A, o, s))
  <2>1. /\ With(A, o, s) \in Seq(Area) /\ With(A, o, s) = A \o <<Growing(o)>>
        /\ Growing(o) \in Area /\ PagesOf(Growing(o)) = o.todo[1].start .. o.next - 1
    BY <1>3, <1>4, <1>7, WithIs
  <2>2. PagesOf(Growing(o)) = {}
    BY <1>3, <1>5, <2>1 DEF b
  <2>3. QED
    BY <2>1, <2>2, EmptyArea
<1>9. QED
  BY <1>3, <1>4, <1>7, <1>8 DEF o

(* What the allocator returns is held by no memory set.                    *)
LEMMA TakenApart ==
  ASSUME PagesInv, NEW n \in Nat, Fits(n)
  PROVE  /\ Alloc(n) \in Seq(Frames) /\ Len(Alloc(n)) = n /\ IsInjective(Alloc(n))
         /\ \A s \in Sets : Before(s) \cap ToSet(Alloc(n)) = {}
<1> DEFINE H == Held(tables, areas, op)
<1>1. Once(fresh, recycled, H)
  BY DEF PagesInv
<1>2. \A s \in Sets : H[s] = Before(s)
  BY DEF Held, Before
<1> HIDE DEF H
<1>3. QED
  BY <1>1, <1>2, AllocApart

(* What is left to do can be copied from memory set `from`.                *)
Source(from, todo) ==
    from # Kernel =>
      /\ status[from] = "live"
      /\ \A i \in 1 .. Len(todo) : \E k \in 1 .. Len(areas[from]) :
            PagesOf(todo[i]) = PagesOf(areas[from][k])

(* The tables of a new memory set.                                         *)
LEMMA NewSetTables ==
  ASSUME PagesInv, Fits(3), NEW M,
         M = MapEntry(Cleared(pte, Alloc(3), ClearTable), Alloc(3)[1], TrampolineVpn,
                      Entry(TrampolinePpn, {"R", "X"}), <<Alloc(3)[2], Alloc(3)[3]>>)
  PROVE  /\ M \in Memories /\ Tree(M, Alloc(3)[1], Rest(Alloc(3)))
         /\ Leaves(M, Alloc(3)[1], <<>>)
         /\ Alloc(3) \in Seq(Frames) /\ Alloc(3) # <<>> /\ IsInjective(Alloc(3))
         /\ \A f \in Frames \ ToSet(Alloc(3)) : M[f] = pte[f]
<1> DEFINE a == Alloc(3)
           m == Cleared(pte, a, ClearTable)
<1>1. a \in Seq(Frames) /\ Len(a) = 3 /\ IsInjective(a)
  BY TakenApart
<1> HIDE DEF a
<1>2. /\ a[1] \in Frames /\ a[2] \in Frames /\ a[3] \in Frames
      /\ a[1] # a[2] /\ a[1] # a[3] /\ a[2] # a[3]
      /\ ToSet(a) = {a[1], a[2], a[3]} /\ Rest(a) = {a[2], a[3]} /\ a # <<>>
  <2>1. 1 \in 1 .. Len(a) /\ 2 \in 1 .. Len(a) /\ 3 \in 1 .. Len(a)
    BY <1>1
  <2>2. a[1] \in Frames /\ a[2] \in Frames /\ a[3] \in Frames /\ a # <<>>
    BY <1>1, <2>1
  <2>3. a[1] # a[2] /\ a[1] # a[3] /\ a[2] # a[3]
    BY <1>1, <2>1 DEF IsInjective
  <2>4. ToSet(a) = {a[1], a[2], a[3]}
    BY <1>1 DEF ToSet
  <2>5. Rest(a) = {a[2], a[3]}
    BY <1>1 DEF Rest
  <2>6. QED
    BY <2>2, <2>3, <2>4, <2>5
<1>3. pte \in Memories
  BY DEF PagesInv, PageTypeOK, Memories, Entries, Flags, Indices
<1>4. m \in Memories /\ \A f \in Frames : m[f] = IF f \in ToSet(a) THEN ClearTable ELSE pte[f]
  BY <1>3, BlankTables
<1> HIDE DEF m
<1>5. \A k \in Indices : m[a[1]][k] = Empty /\ m[a[2]][k] = Empty /\ m[a[3]][k] = Empty
  BY <1>2, <1>4, BlankTables
<1>6. M = MapEntry(m, a[1], TrampolineVpn, Entry(TrampolinePpn, {"R", "X"}), <<a[2], a[3]>>)
  BY DEF a, m
<1>7. /\ M \in Memories /\ Tree(M, a[1], {a[2], a[3]}) /\ Leaves(M, a[1], <<>>)
      /\ \A f \in Frames \ {a[1], a[2], a[3]} : M[f] = m[f]
  <2> DEFINE r == a[1]
             b == a[2]
             c == a[3]
  <2>1. /\ m \in Memories /\ r \in Frames /\ b \in Frames /\ c \in Frames
        /\ r # b /\ r # c /\ b # c
        /\ \A k \in Indices : m[r][k] = Empty /\ m[b][k] = Empty /\ m[c][k] = Empty
        /\ M = MapEntry(m, r, TrampolineVpn, Entry(TrampolinePpn, {"R", "X"}), <<b, c>>)
    BY <1>2, <1>4, <1>5, <1>6
  <2> HIDE DEF r, b, c
  <2>2. /\ M \in Memories /\ Tree(M, r, {b, c}) /\ Leaves(M, r, <<>>)
        /\ \A f \in Frames \ {r, b, c} : M[f] = m[f]
    <3>1. Blank(m, r, b, c) /\ M = WithTrampoline(m, r, b, c)
      BY <2>1 DEF Blank, WithTrampoline
    <3>2. Begun(m, r, b, c, M)
      BY ONLY <3>1, NewTree
    <3>3. QED
      BY <3>2 DEF Begun
  <2>3. QED
    BY <2>2 DEF r, b, c
<1>8. QED
  BY <1>1, <1>2, <1>4, <1>7 DEF a

(* A new memory set: its root and the trampoline's tables; the loop that   *)
(* pushes its areas begins.                                                *)
LEMMA NewSetKeeps ==
  ASSUME PagesInv, NEW s, NEW from \in Sets, NEW todo \in Seq(Todo), todo # <<>>,
         Source(from, todo), NewSet(s, from, todo)
  PROVE  PagesInv'
<1> DEFINE a == Alloc(3)
           o == Running(s, from, todo)
<1>0. s \in Sets /\ s # Kernel /\ s \in UserSets /\ status[s] = "none" /\ op = Idle
  BY PageAssumption DEF NewSet, Begins, Ready, Sets
<1>1. CASE ~Fits(3) /\ Panic("oom")
  BY <1>1, PanicKeeps
<1>2. CASE /\ Fits(3) /\ AllocAndFree(3, <<>>)
           /\ pte' = MapEntry(Cleared(pte, a, ClearTable), a[1], TrampolineVpn,
                              Entry(TrampolinePpn, {"R", "X"}), <<a[2], a[3]>>)
           /\ byte' = Cleared(byte, a, ClearPage)
           /\ root' = [root EXCEPT ![s] = a[1]]
           /\ tables' = [tables EXCEPT ![s] = a]
           /\ status' = [status EXCEPT ![s] = "building"]
           /\ op' = o
           /\ UNCHANGED <<areas, agents, panicked>>
  <2>1. /\ pte' \in Memories /\ Tree(pte', a[1], Rest(a)) /\ Leaves(pte', a[1], <<>>)
        /\ a \in Seq(Frames) /\ a # <<>> /\ IsInjective(a)
        /\ \A f \in Frames \ ToSet(a) : pte'[f] = pte[f]
    BY <1>2, NewSetTables
  <2>2. \A t \in Sets : Before(t) \cap ToSet(a) = {}
    BY <1>2, TakenApart
  <2>3. /\ OpTyped(o) /\ o # Idle /\ o.set = s /\ o.from = from /\ o.todo = todo
        /\ With(<<>>, o, s) \in Seq(Area) /\ SamePages(<<>>, With(<<>>, o, s))
    <3>1. /\ OpTyped(o) /\ o # Idle /\ o.set = s /\ o.from = from /\ o.todo = todo
          /\ \A A \in Seq(Area) : /\ With(A, o, s) \in Seq(Area)
                                  /\ SamePages(A, With(A, o, s))
      BY <1>0, RunningFacts
    <3> HIDE DEF o
    <3>2. QED
      BY <3>1, NoAreas
  <2> HIDE DEF a, o
  <2>4. /\ PageTypeOK /\ areas \in [Sets -> Seq(Area)] /\ StatusOK
        /\ tables[s] = <<>> /\ areas[s] = <<>>
    BY <1>0 DEF PagesInv, StatusOK
  <2>5. a[1] \in Frames
    BY <2>1
  <2>6. Typed'
    <3>1. PageTypeOK'
      <4>1. (pte \in [Frames -> [0 .. Fan - 1 -> [ppn : 0 .. FrameEnd, flags : SUBSET {"V", "R", "W", "X", "U"}]]])'
        BY <2>1 DEF Memories, Entries, Flags, Indices
      <4>2. (byte \in [Frames -> [0 .. PageSize - 1 -> Int]])'
        BY <1>2, <2>4, BlankPages DEF PageTypeOK
      <4>3. root' \in [Sets -> Frames] /\ tables' \in [Sets -> Seq(Frames)]
        BY <1>2, <2>1, <2>4, <2>5 DEF PageTypeOK
      <4>4. status' \in [Sets -> {"none", "building", "live", "exited"}]
        BY <1>2, <2>4 DEF PageTypeOK
      <4>5. QED
        BY <1>2, <2>4, <4>1, <4>2, <4>3, <4>4 DEF PageTypeOK
    <3>2. OpOK'
      <4>1. status'[s] = "building" /\ \A t \in Sets : t # s => status'[t] = status[t]
        BY <1>0, <1>2, <2>4 DEF PageTypeOK
      <4>2. from # Kernel => from # s /\ status'[from] = "live"
        BY <1>0, <4>1 DEF Source
      <4>3. QED
        BY <1>2, <2>3, <4>1, <4>2 DEF OpOK, Source
    <3>3. StatusOK'
      <4>1. /\ status'[s] = "building" /\ \A t \in Sets : t # s => status'[t] = status[t]
            /\ \A t \in Sets : t # s => tables'[t] = tables[t]
        BY <1>0, <1>2, <2>4 DEF PageTypeOK
      <4>2. Kernel \in Sets /\ UserSets \subseteq Sets
        BY DEF Sets
      <4>3. QED
        BY <1>0, <1>2, <2>4, <4>1, <4>2 DEF StatusOK
    <3>4. QED
      BY <1>2, <2>4, <3>1, <3>2, <3>3 DEF Typed
  <2>7. StepAt(s)
    <3>1. ASSUME NEW t \in Sets \ {s}, NEW f \in ToSet(tables[t]) PROVE pte'[f] = pte[f]
      <4>1. f \in Frames
        <5>1. tables[t] \in Seq(Frames)
          BY <2>4 DEF PageTypeOK
        <5>2. QED
          BY <3>1, <5>1, InSeq
      <4>2. f \in Before(t)
        BY <3>1 DEF Before, Holds
      <4>3. QED
        BY <2>1, <2>2, <4>1, <4>2
    <3>2. QED
      BY <1>0, <1>2, <2>3, <2>4, <3>1 DEF StepAt, PageTypeOK
  <2>8. With(areas[s], op, s)' = With(<<>>, o, s)
    BY <1>2, <2>4
  <2>9. root'[s] = a[1] /\ tables'[s] = a
    BY <1>0, <1>2, <2>4 DEF PageTypeOK
  <2>10. Sound(pte, status[s], root[s], tables[s], With(areas[s], op, s))'
    <3>1. Leaves(pte', a[1], With(<<>>, o, s))
      BY <2>1, <2>3, SamePagesFacts
    <3>2. Exclusive(a, With(<<>>, o, s))
      BY <2>1, <2>3, NoAreas, SamePagesFacts
    <3>3. Sound(pte', status'[s], a[1], a, With(<<>>, o, s))
      BY <2>1, <3>1, <3>2 DEF Sound
    <3>4. QED
      BY <2>8, <2>9, <3>3
  <2>11. Before(s) = {} /\ After(s) = ToSet(a)
    <3>1. Holds(a, With(<<>>, o, s)) = ToSet(a)
      BY <2>3, NoAreas, SamePagesFacts
    <3>2. After(s) = ToSet(a)
      BY <2>8, <2>9, <3>1 DEF After
    <3>3. With(areas[s], op, s) = <<>>
      <4>1. <<>> \o <<>> = <<>>
        OBVIOUS
      <4>2. QED
        BY <1>0, <2>4, <4>1 DEF With
    <3>4. QED
      BY <2>4, <3>2, <3>3, NoAreas, ShortSeqs DEF Before
  <2>12. 3 \in Nat /\ <<>> \in Seq(Frames)
    OBVIOUS
  <2>13. ToSet(<<>>) = {} /\ IsInjective(<<>>)
    BY ShortSeqs
  <2>14. After(s) \cap ToSet(<<>>) = {} /\ After(s) \cup ToSet(<<>>) = Before(s) \cup ToSet(Alloc(3))
    BY <2>11, <2>13 DEF a
  <2>15. QED
    BY <1>0, <1>2, <2>6, <2>7, <2>10, <2>12, <2>13, <2>14, OneStep
<1>3. QED
  BY <1>1, <1>2 DEF NewSet

(* Areas to be mapped lie within the address space.                        *)
LEMMA NewAreaTodo ==
  ASSUME NEW x \in Int, NEW y \in Int, NEW p \in SUBSET Perms, NEW n \in Int
  PROVE  NewArea(x, y, p, n) \in Todo
<1>1. Floor(VirtAddr(x)) \in Bounds /\ Ceil(VirtAddr(y)) \in Bounds
  BY VpnBounds, Sizes DEF Vpns, Bounds
<1>2. QED
  BY <1>1 DEF NewArea, Todo

(* So do the areas of a program.                                           *)
LEMMA ProgramAreasTodo ==
  ASSUME NEW prog \in Programs
  PROVE  ProgramAreas(prog) \in Seq(Todo) /\ ProgramAreas(prog) # <<>>
<1> DEFINE n == Len(prog)
           seg == [i \in 1 .. n |->
                     NewArea(prog[i].va, prog[i].va + prog[i].mem, {"R", "U"}, prog[i].file)]
           bottom == seg[n].end * PageSize + PageSize
           stack == NewArea(bottom, bottom + StackPages * PageSize, {"R", "W", "U"}, 0)
           trap == NewArea(TRAP_CONTEXT, TRAMPOLINE, {"R", "W"}, 0)
<1>1. prog \in Seq([va : Nat, mem : Nat, file : Nat]) /\ prog # <<>>
  BY PageAssumption
<1>2. n \in Nat /\ n \in 1 .. n
  BY <1>1
<1>3. \A i \in 1 .. n : /\ prog[i].va \in Int /\ prog[i].va + prog[i].mem \in Int
                        /\ prog[i].file \in Int
  <2>1. ASSUME NEW i \in 1 .. n
        PROVE  prog[i].va \in Nat /\ prog[i].mem \in Nat /\ prog[i].file \in Nat
    <3> DEFINE S == [va : Nat, mem : Nat, file : Nat]
    <3>1. prog \in Seq(S) /\ i \in 1 .. Len(prog)
      BY <1>1
    <3> HIDE DEF S
    <3>2. prog[i] \in S
      BY ONLY <3>1
    <3>3. QED
      BY <3>2 DEF S
  <2> HIDE DEF n
  <2>2. QED
    BY <2>1
<1>4. \A i \in 1 .. n :
        NewArea(prog[i].va, prog[i].va + prog[i].mem, {"R", "U"}, prog[i].file) \in Todo
  BY <1>3, NewAreaTodo DEF Perms
<1>5. seg \in Seq(Todo) /\ seg[n] \in Todo
  BY <1>2, <1>4
<1>6. bottom \in Int
  <2>1. seg[n].end \in Int
    BY <1>5, Sizes DEF Todo, Bounds
  <2> HIDE DEF seg
  <2>2. seg[n].end * PageSize \in Int
    BY <2>1, Sizes
  <2>3. QED
    BY <2>2, Sizes
<1>7. bottom + StackPages * PageSize \in Int /\ TRAP_CONTEXT \in Int /\ TRAMPOLINE \in Int
  <2>1. StackPages * PageSize \in Int
    BY PageAssumption
  <2> HIDE DEF bottom
  <2>2. bottom + StackPages * PageSize \in Int
    BY <1>6, <2>1
  <2>3. QED
    BY <2>2, Sizes DEF TRAP_CONTEXT, TRAMPOLINE, WordEnd
<1> HIDE DEF bottom, seg
<1>8. stack \in Todo /\ trap \in Todo
  BY <1>6, <1>7, NewAreaTodo DEF Perms
<1> HIDE DEF stack, trap
<1>9. seg \o <<stack, trap>> \in Seq(Todo) /\ Len(seg \o <<stack, trap>>) = Len(seg) + 2
  <2>1. <<stack, trap>> \in Seq(Todo) /\ Len(<<stack, trap>>) = 2
    BY <1>8
  <2>2. QED
    BY <1>5, <2>1
<1>10. ProgramAreas(prog) = seg \o <<stack, trap>>
  BY DEF ProgramAreas, seg, stack, trap, bottom
<1>11. Len(seg) + 2 # 0 /\ Len(<<>>) = 0
  BY <1>5
<1>12. QED
  BY <1>9, <1>10, <1>11

(* from_elf keeps the invariant.                                           *)
LEMMA FromElfKeeps ==
  ASSUME PagesInv, NEW s \in UserSets, NEW prog \in Programs, FromElf(s, prog)
  PROVE  PagesInv'
<1>1. Kernel \in Sets /\ Source(Kernel, ProgramAreas(prog))
  BY DEF Sets, Source
<1>2. NewSet(s, Kernel, ProgramAreas(prog))
  BY DEF FromElf
<1>3. QED
  BY <1>1, <1>2, ProgramAreasTodo, NewSetKeeps

(* from_existed_user keeps the invariant.                                  *)
LEMMA FromExistedUserKeeps ==
  ASSUME PagesInv, NEW s \in UserSets, NEW t \in UserSets, FromExistedUser(s, t)
  PROVE  PagesInv'
<1> DEFINE A == areas[s]
           todo == [i \in 1 .. Len(A) |-> FromAnother(A[i])]
<1>1. s \in Sets /\ status[s] = "live" /\ NewSet(t, s, todo)
  BY DEF FromExistedUser, Sets
<1>2. A \in Seq(Area) /\ A # <<>>
  BY <1>1 DEF PagesInv, StatusOK
<1>3. Len(A) \in Nat /\ Len(A) > 0
  BY <1>2
<1>4. \A i \in 1 .. Len(A) : FromAnother(A[i]) \in Todo /\ PagesOf(FromAnother(A[i])) = PagesOf(A[i])
  <2>1. ASSUME NEW i \in 1 .. Len(A)
        PROVE  FromAnother(A[i]) \in Todo /\ PagesOf(FromAnother(A[i])) = PagesOf(A[i])
    <3>1. A[i] \in Area
      BY <1>2
    <3>2. A[i].start \in Bounds /\ A[i].end \in Bounds /\ A[i].perm \in SUBSET Perms
      BY <3>1, AreaFields
    <3>3. QED
      BY <3>2 DEF FromAnother, Todo, PagesOf
  <2>2. QED
    BY <2>1
<1>5. todo \in Seq(Todo) /\ todo # <<>>
  BY <1>3, <1>4
<1>6. Source(s, todo)
  BY <1>1, <1>3, <1>4 DEF Source
<1> HIDE DEF todo
<1>7. QED
  BY <1>1, <1>5, <1>6, NewSetKeeps

(* insert_framed_area begins: its area has no pages yet.                   *)
LEMMA InsertKeeps ==
  ASSUME PagesInv, NEW s \in Sets, status[s] = "live", NEW x \in Int, NEW y \in Int,
         NEW p \in SUBSET Perms, InsertFramedArea(s, x, y, p)
  PROVE  PagesInv'
<1> DEFINE todo == <<NewArea(x, y, p, 0)>>
           o == Running(s, Kernel, todo)
           A == areas[s]
<1>0. Kernel \in Sets
  BY DEF Sets
<1>1. todo \in Seq(Todo) /\ todo # <<>>
  BY NewAreaTodo
<1>2. /\ op = Idle /\ op' = o
      /\ UNCHANGED <<fresh, recycled, pte, byte, root, tables, areas, status, panicked>>
  BY DEF InsertFramedArea, Begins, Ready
<1> HIDE DEF todo
<1>3. /\ OpTyped(o) /\ o # Idle /\ o.set = s /\ o.from = Kernel /\ o.todo = todo
      /\ \A B \in Seq(Area) : With(B, o, s) \in Seq(Area) /\ SamePages(B, With(B, o, s))
  BY <1>0, <1>1, RunningFacts
<1> HIDE DEF o
<1>4. A \in Seq(Area) /\ SamePages(A, With(A, o, s)) /\ With(A, op, s) = A
  <2>1. A \in Seq(Area)
    BY DEF PagesInv
  <2>2. OpTyped(Idle)
    BY DEF OpTyped
  <2> HIDE DEF A
  <2>3. QED
    BY <1>2, <1>3, <2>1, <2>2, WithIs
<1>5. Typed'
  BY <1>2, <1>3 DEF PagesInv, Typed, PageTypeOK, OpOK, StatusOK
<1>6. StepAt(s)
  BY <1>2, <1>3 DEF StepAt
<1>7. With(areas[s], op, s)' = With(A, o, s)
  BY <1>2
<1>8. Sound(pte, status[s], root[s], tables[s], With(areas[s], op, s))'
  <2>1. Sound(pte, status[s], root[s], tables[s], A)
    BY <1>4, InvParts
  <2>2. Sound(pte, status[s], root[s], tables[s], With(A, o, s))
    BY <1>4, <2>1, SamePagesFacts DEF Sound
  <2>3. QED
    BY <1>2, <1>7, <2>2
<1>9. After(s) = Before(s)
  <2>1. Holds(tables[s], With(A, o, s)) = Holds(tables[s], A)
    BY <1>4, SamePagesFacts
  <2>2. QED
    BY <1>2, <1>4, <1>7, <2>1 DEF Before, After
<1>10. QED
  BY <1>2, <1>5, <1>6, <1>8, <1>9, QuietStep

(* AgentContextArea::allocate keeps the invariant.                         *)
LEMMA AllocateContextKeeps ==
  ASSUME PagesInv, NEW s \in UserSets, AllocateContext(s)
  PROVE  PagesInv'
<1>1. s \in Sets /\ status[s] = "live" /\ {"R", "W", "U"} \in SUBSET Perms
  BY DEF AllocateContext, Sets, Perms
<1>2. ContextVa \in Int /\ ContextVa + ContextPages * PageSize \in Int
  <2>1. ContextVa \in Nat /\ ContextPages * PageSize \in Nat
    BY PageAssumption
  <2>2. QED
    BY <2>1
<1>3. QED
  BY <1>1, <1>2, InsertKeeps DEF AllocateContext

(* KernelStack::new keeps the invariant.                                   *)
LEMMA KernelStackNewKeeps ==
  ASSUME PagesInv, NEW pid \in Pids, KernelStackNew(pid)
  PROVE  PagesInv'
<1>1. Kernel \in Sets /\ status[Kernel] = "live" /\ {"R", "W"} \in SUBSET Perms
  BY DEF PagesInv, StatusOK, Sets, Perms
<1>2. StackBottom(pid) \in Int /\ StackTop(pid) \in Int
  <2>1. pid \in Nat /\ StackPages * PageSize \in Nat /\ PageSize \in Nat /\ TRAMPOLINE \in Int
    BY PageAssumption, Sizes DEF TRAMPOLINE, WordEnd
  <2>2. pid * (StackPages * PageSize + PageSize) \in Int
    BY <2>1
  <2>3. StackTop(pid) \in Int
    BY <2>1, <2>2 DEF StackTop
  <2>4. QED
    BY <2>1, <2>3 DEF StackBottom
<1>3. QED
  BY <1>1, <1>2, InsertKeeps DEF KernelStackNew

-------------------------------------------------------------------------------
(* One page is mapped. *)

(* The memory with the frames that were taken cleared, which map_one then  *)
(* works on, agrees with pte on what is in use.                            *)
LEMMA ClearedAgrees ==
  ASSUME PagesInv, NEW n \in Nat, Fits(n)
  PROVE  LET m == Cleared(pte, Alloc(n), ClearTable) IN
         /\ m \in Memories
         /\ \A s \in Sets, f \in Frames : f \in Before(s) => m[f] = pte[f]
         /\ \A f \in Frames : f \notin ToSet(Alloc(n)) => m[f] = pte[f]
         /\ \A f \in Frames, k \in Indices : f \in ToSet(Alloc(n)) => m[f][k] = Empty
<1> DEFINE a == Alloc(n)
           m == Cleared(pte, a, ClearTable)
<1>1. \A s \in Sets : Before(s) \cap ToSet(a) = {}
  BY TakenApart
<1>2. pte \in Memories
  BY DEF PagesInv, PageTypeOK, Memories, Entries, Flags, Indices
<1>3. m \in Memories /\ \A f \in Frames : m[f] = IF f \in ToSet(a) THEN ClearTable ELSE pte[f]
  BY <1>2, BlankTables
<1> HIDE DEF m, a
<1>4. \A s \in Sets, f \in Frames : f \in Before(s) => m[f] = pte[f]
  BY <1>1, <1>3
<1>5. \A f \in Frames, k \in Indices : f \in ToSet(a) => m[f][k] = Empty
  BY <1>3, BlankTables
<1>6. QED
  BY <1>3, <1>4, <1>5 DEF m, a

(* The tables of a memory set that exists.                                 *)
LEMMA SetTables ==
  ASSUME PagesInv, NEW s \in Sets, status[s] # "none"
  PROVE  /\ Tree(pte, root[s], Rest(tables[s])) /\ tables[s] \in Seq(Frames)
         /\ IsInjective(tables[s]) /\ tables[s] # <<>> /\ root[s] = tables[s][1]
         /\ ToSet(tables[s]) = {root[s]} \cup Rest(tables[s])
         /\ ToSet(tables[s]) \subseteq Frames /\ ToSet(tables[s]) \subseteq Before(s)
<1>1. /\ Tree(pte, root[s], Rest(tables[s])) /\ tables[s] \in Seq(Frames)
      /\ IsInjective(tables[s]) /\ tables[s] # <<>> /\ root[s] = tables[s][1]
  BY DEF PagesInv, PageTypeOK, Exclusive
<1>2. ToSet(tables[s]) = {root[s]} \cup Rest(tables[s])
  BY <1>1, CountRest
<1>3. ToSet(tables[s]) \subseteq Frames
  BY <1>1, <1>2 DEF Tree
<1>4. QED
  BY <1>1, <1>2, <1>3 DEF Before, Holds

(* One frame and the tables that are missing are taken for page v of       *)
(* memory set c, and it is mapped: M is the memory after that.             *)
Mapped(M, c, v, p, n) ==
    M = MapEntry(Cleared(pte, Alloc(n), ClearTable), root[c], v, Entry(Alloc(n)[1], p),
                 SubSeq(Alloc(n), 2, n))

(* The page tables after that.                                             *)
MappedTables(M, c, v, p, n) ==
    LET new == SubSeq(Alloc(n), 2, n)
        f == Alloc(n)[1]
        m == Cleared(pte, Alloc(n), ClearTable) IN
    /\ new \in Seq(Frames) /\ IsInjective(new) /\ f \in Frames /\ f \notin ToSet(new)
    /\ ToSet(Alloc(n)) = {f} \cup ToSet(new) /\ n \in Nat
    /\ Extended(m, M, root[c], Rest(tables[c]) \cup ToSet(new), v, Entry(f, p))
    /\ ~Maps(m, root[c], v)
    /\ \A A \in Seq(Area) : Leaves(pte, root[c], A) => Leaves(m, root[c], A)
    /\ \A s \in Sets \ {c} : \A g \in ToSet(tables[s]) : M[g] = pte[g]

(* map_one leaves them so.                                                 *)
LEMMA MapOneTables ==
  ASSUME PagesInv, NEW c \in Sets, status[c] # "none", NEW v \in Vpns,
         ~Maps(pte, root[c], v), NEW p \in SUBSET Perms,
         NEW n, n = 1 + Missing(root[c], v), Fits(n), NEW M, Mapped(M, c, v, p, n)
  PROVE  MappedTables(M, c, v, p, n)
<1> DEFINE a == Alloc(n)
           new == SubSeq(a, 2, n)
           f == a[1]
           m == Cleared(pte, a, ClearTable)
           r == root[c]
           T == Rest(tables[c])
           e == Entry(f, p)
<1>0. n \in 1 .. 3 /\ n \in Nat /\ Len(a) = n /\ n - 1 = Lacks(pte, r, v)
  <2>1. Missing(r, v) \in 0 .. 2 /\ Missing(r, v) = Lacks(pte, r, v)
    BY WalkIs
  <2>2. n \in 1 .. 3 /\ n \in Nat /\ n - 1 = Lacks(pte, r, v)
    BY <2>1
  <2>3. QED
    BY <2>2, TakenApart
<1>1. a \in Seq(Frames) /\ IsInjective(a) /\ \A s \in Sets : Before(s) \cap ToSet(a) = {}
  BY <1>0, TakenApart
<1>2. /\ m \in Memories
      /\ \A s \in Sets, g \in Frames : g \in Before(s) => m[g] = pte[g]
      /\ \A g \in Frames : g \notin ToSet(a) => m[g] = pte[g]
      /\ \A g \in Frames, k \in Indices : g \in ToSet(a) => m[g][k] = Empty
  BY <1>0, ClearedAgrees
<1> HIDE DEF a, m
<1>3. /\ new \in Seq(Frames) /\ Len(new) = n - 1 /\ IsInjective(new)
      /\ \A i \in 1 .. n - 1 : new[i] = a[i + 1]
      /\ \A g : g \in ToSet(new) <=> \E i \in 2 .. n : a[i] = g
  <2>1. 2 \in Nat \ {0} /\ n \in Nat /\ 2 =< n + 1 /\ n =< Len(a) /\ a \in Seq(Frames)
    BY <1>0, <1>1
  <2>2. /\ SubSeq(a, 2, n) \in Seq(Frames) /\ Len(SubSeq(a, 2, n)) = n + 1 - 2
        /\ \A i \in 1 .. n + 1 - 2 : SubSeq(a, 2, n)[i] = a[2 + i - 1]
        /\ \A g : g \in ToSet(SubSeq(a, 2, n)) <=> \E i \in 2 .. n : a[i] = g
        /\ IsInjective(a) => IsInjective(SubSeq(a, 2, n))
    BY ONLY <2>1, CutSeq
  <2>3. n + 1 - 2 = n - 1 /\ \A i \in 1 .. n - 1 : 2 + i - 1 = i + 1
    BY <1>0
  <2>4. QED
    BY <1>1, <2>2, <2>3
<1>4. /\ f \in Frames /\ f \notin ToSet(new) /\ ToSet(a) = {f} \cup ToSet(new)
  <2>1. f \in Frames /\ 1 \in 1 .. Len(a)
    BY <1>0, <1>1
  <2>2. f \notin ToSet(new)
    <3>1. \A i \in 2 .. n : i \in 1 .. Len(a) /\ i # 1
      BY <1>0
    <3>2. QED
      BY <1>1, <1>3, <2>1, <3>1 DEF IsInjective
  <2>3. \A g : g \in ToSet(a) <=> \E i \in 1 .. n : a[i] = g
    BY <1>0, <1>1, InSeq
  <2>4. \A i : i \in 1 .. n <=> i = 1 \/ i \in 2 .. n
    BY <1>0
  <2>5. QED
    BY <1>3, <2>1, <2>2, <2>3, <2>4
<1>5. /\ Tree(pte, r, T) /\ ToSet(tables[c]) = {r} \cup T
      /\ ToSet(tables[c]) \subseteq Frames /\ ToSet(tables[c]) \subseteq Before(c)
  BY SetTables
<1> HIDE DEF T, r
<1>6. \A g \in {r} \cup T : m[g] = pte[g] /\ g \notin ToSet(a)
  BY <1>1, <1>2, <1>5
<1>7. /\ Tree(m, r, T) /\ ~Maps(m, r, v) /\ Lacks(m, r, v) = Lacks(pte, r, v)
      /\ \A A \in Seq(Area) : Leaves(pte, r, A) => Leaves(m, r, A)
  <2>0. SameOn(pte, m, r, T)
    BY <1>6 DEF SameOn
  <2>1. Tree(m, r, T) /\ (Maps(m, r, v) <=> Maps(pte, r, v))
    BY <1>5, <2>0, SameTables
  <2>2. Lacks(m, r, v) = Lacks(pte, r, v)
    BY <1>5, <1>6, SameLacks
  <2>3. \A A \in Seq(Area) : Leaves(pte, r, A) => Leaves(m, r, A)
    BY <1>5, <2>0, SameLeaves
  <2>4. QED
    BY <2>1, <2>2, <2>3 DEF r
<1> HIDE DEF new, f
<1>8. Suits(m, r, T, v, new)
  <2>1. \A i \in 1 .. Len(new) : new[i] \in ToSet(new) /\ new[i] \in Frames
    <3>1. \A g : g \in ToSet(new) <=> \E i \in 1 .. Len(new) : new[i] = g
      BY <1>3, InSeq
    <3>2. QED
      BY <1>3, <3>1
  <2>2. \A i \in 1 .. Len(new) : /\ new[i] \notin T /\ new[i] # r
                                 /\ \A k \in Indices : m[new[i]][k] = Empty
    BY <1>2, <1>4, <1>6, <2>1
  <2>3. QED
    BY <1>0, <1>3, <1>7, <2>2 DEF Suits
<1>9. e \in Entries /\ IsValid(e)
  <2>1. f \in 0 .. FrameEnd /\ p \in SUBSET Flags
    BY <1>4, Sizes DEF Frames, Perms, Flags
  <2>2. QED
    BY <2>1, EntryFacts
<1>10. M = MapEntry(m, r, v, e, new)
  BY DEF Mapped, a, m, r, new, f
<1> HIDE DEF e
<1>11. Extended(m, M, r, T \cup ToSet(new), v, e)
  BY <1>2, <1>7, <1>8, <1>9, <1>10, MapEntryMaps
<1>12. ASSUME NEW s \in Sets \ {c}, NEW g \in ToSet(tables[s]) PROVE M[g] = pte[g]
  <2>1. g \in Frames /\ g \in Before(s)
    <3>1. tables[s] \in Seq(Frames)
      BY DEF PagesInv, PageTypeOK
    <3>2. QED
      BY <1>12, <3>1, InSeq DEF Before, Holds
  <2>2. Before(s) \cap Before(c) = {}
    BY DEF PagesInv, Once, Held, Before
  <2>3. g \notin {r} \cup (T \cup ToSet(new))
    BY <1>1, <1>4, <1>5, <2>1, <2>2
  <2>4. M[g] = m[g]
    BY <1>11, <2>1, <2>3 DEF Extended
  <2>5. QED
    BY <1>2, <2>1, <2>4
<1>13. QED
  BY <1>0, <1>3, <1>4, <1>7, <1>11, <1>12 DEF MappedTables, a, m, new, f, r, T, e

(* The tables when new ones are appended.                                  *)
LEMMA JoinRest ==
  ASSUME NEW S, NEW ts \in Seq(S), ts # <<>>, NEW new \in Seq(S)
  PROVE  /\ ts \o new # <<>> /\ (ts \o new)[1] = ts[1]
         /\ Rest(ts \o new) = Rest(ts) \cup ToSet(new)
<1> DEFINE l == Len(ts)
           q == ts \o new
<1>0. l \in Nat /\ l >= 1 /\ Len(new) \in Nat
  OBVIOUS
<1>1. q \in Seq(S) /\ Len(q) = l + Len(new)
  OBVIOUS
<1>2. /\ \A i \in 1 .. l : q[i] = ts[i]
      /\ \A i \in 1 .. Len(new) : q[l + i] = new[i]
  OBVIOUS
<1> HIDE DEF q
<1>3. ASSUME NEW x PROVE x \in Rest(q) <=> x \in Rest(ts) \cup ToSet(new)
  <2>0. x \in ToSet(new) <=> \E i \in 1 .. Len(new) : new[i] = x
    BY InSeq
  <2>1. ASSUME x \in Rest(q) PROVE x \in Rest(ts) \cup ToSet(new)
    <3>1. PICK i \in 2 .. l + Len(new) : q[i] = x
      BY <1>1, <2>1 DEF Rest
    <3>2. CASE i =< l
      <4>1. i \in 2 .. l /\ i \in 1 .. l
        BY <1>0, <3>2
      <4>2. QED
        BY <1>2, <3>1, <4>1 DEF Rest
    <3>3. CASE i > l
      <4>1. i - l \in 1 .. Len(new) /\ l + (i - l) = i
        BY <1>0, <3>3
      <4>2. QED
        BY <1>2, <2>0, <3>1, <4>1
    <3>4. QED
      BY <1>0, <3>2, <3>3
  <2>2. ASSUME x \in Rest(ts) PROVE x \in Rest(q)
    <3>1. PICK i \in 2 .. l : ts[i] = x
      BY <2>2 DEF Rest
    <3>2. i \in 1 .. l /\ i \in 2 .. l + Len(new)
      BY <1>0
    <3>3. QED
      BY <1>1, <1>2, <3>1, <3>2 DEF Rest
  <2>3. ASSUME x \in ToSet(new) PROVE x \in Rest(q)
    <3>1. PICK i \in 1 .. Len(new) : new[i] = x
      BY <2>0, <2>3
    <3>2. l + i \in 2 .. l + Len(new)
      BY <1>0
    <3>3. QED
      BY <1>1, <1>2, <3>1, <3>2 DEF Rest
  <2>4. QED
    BY <2>1, <2>2, <2>3
<1>4. q # <<>> /\ q[1] = ts[1]
  BY <1>0, <1>1, <1>2
<1>5. QED
  BY <1>3, <1>4 DEF q

(* The loop after a round: page o.next has frame f.                        *)
Round(o, f) ==
    [o EXCEPT !.next = @ + 1,
              !.frames = [v \in Head(o.todo).start .. o.next |->
                            IF v = o.next THEN f ELSE o.frames[v]]]

(* It has one page more.                                                   *)
LEMMA RoundFacts ==
  ASSUME NEW o, OpTyped(o), o # Idle, o.next \in Vpns, NEW f \in Frames, NEW A \in Seq(Area)
  PROVE  LET u == Round(o, f) IN
         /\ OpTyped(u) /\ u # Idle /\ u.set = o.set /\ u.from = o.from /\ u.todo = o.todo
         /\ OneMorePage(With(A, o, o.set), With(A, u, o.set), Len(A) + 1, o.next, f,
                        o.todo[1].perm)
<1> DEFINE v == o.next
           b == o.todo[1].start
           fr == [w \in b .. v |-> IF w = v THEN f ELSE o.frames[w]]
           u == Round(o, f)
<1>1. /\ o = [set |-> o.set, from |-> o.from, todo |-> o.todo, next |-> o.next,
              frames |-> o.frames]
      /\ o.set \in Sets /\ o.from \in Sets /\ o.todo \in Seq(Todo) /\ o.todo # <<>>
      /\ v \in Bounds /\ v >= b /\ o.frames \in [b .. v - 1 -> Frames]
  BY DEF OpTyped
<1>2. b \in Bounds /\ b \in Int /\ v \in Int /\ v + 1 \in Bounds /\ v + 1 >= b
      /\ Head(o.todo) = o.todo[1]
  <2>1. o.todo[1] \in Todo /\ Head(o.todo) = o.todo[1]
    BY <1>1
  <2>2. b \in Bounds
    BY <2>1 DEF Todo
  <2>3. v \in Vpns /\ v >= b
    BY <1>1
  <2> HIDE DEF v, b
  <2>4. b \in Int /\ v \in Int /\ v + 1 \in Bounds /\ v + 1 >= b
    BY <2>2, <2>3, Sizes DEF Bounds, Vpns
  <2>5. QED
    BY <2>1, <2>2, <2>4
<1>3. u = [set |-> o.set, from |-> o.from, todo |-> o.todo, next |-> v + 1, frames |-> fr]
  <2> DEFINE s == o.set
             t == o.from
             d == o.todo
             g == o.frames
  <2>1. o = [set |-> s, from |-> t, todo |-> d, next |-> v, frames |-> g]
    BY <1>1
  <2>2. u = [o EXCEPT !.next = v + 1, !.frames = fr]
    BY <1>2 DEF Round
  <2> HIDE DEF s, t, d, g, v, fr, u
  <2>3. u = [set |-> s, from |-> t, todo |-> d, next |-> v + 1, frames |-> fr]
    BY <2>1, <2>2
  <2>4. QED
    BY <2>3 DEF s, t, d
<1> HIDE DEF u
<1>4. u.set = o.set /\ u.from = o.from /\ u.todo = o.todo /\ u.next = v + 1 /\ u.frames = fr
  BY <1>3
<1>5. /\ fr \in [b .. v -> Frames] /\ fr[v] = f /\ \A w \in b .. v - 1 : fr[w] = o.frames[w]
  <2>1. \A w \in b .. v : w = v \/ w \in b .. v - 1
    BY <1>2
  <2>2. \A w \in b .. v - 1 : w \in b .. v /\ w # v
    BY <1>2
  <2>3. v \in b .. v
    BY <1>1, <1>2
  <2> HIDE DEF v, b
  <2>4. QED
    BY <1>1, <2>1, <2>2, <2>3
<1> HIDE DEF fr
<1>6. b .. v = b .. (v + 1) - 1
  BY <1>2
<1>7. OpTyped(u) /\ u # Idle
  <2>1. u # Idle
    BY <1>1, <1>4 DEF Idle
  <2>2. fr \in [b .. (v + 1) - 1 -> Frames]
    BY <1>5, <1>6
  <2>3. QED
    BY <1>1, <1>2, <1>3, <1>4, <2>1, <2>2 DEF OpTyped
<1> DEFINE X == With(A, o, o.set)
           Y == With(A, u, o.set)
           g == Growing(o)
           h == Growing(u)
           n == Len(A) + 1
<1>8. /\ X = A \o <<g>> /\ g \in Area /\ g.perm = o.todo[1].perm /\ g.frames = o.frames
      /\ PagesOf(g) = b .. v - 1
  BY WithIs
<1>9. /\ Y = A \o <<h>> /\ h \in Area /\ h.perm = o.todo[1].perm /\ h.frames = fr
      /\ PagesOf(h) = b .. v
  <2>1. /\ With(A, u, u.set) = A \o <<h>> /\ h \in Area /\ h.perm = u.todo[1].perm
        /\ h.frames = u.frames /\ PagesOf(h) = u.todo[1].start .. u.next - 1
    BY <1>7, WithIs
  <2>2. QED
    BY <1>4, <1>6, <2>1
<1> HIDE DEF X, Y, g, h
<1>10. /\ \A i, w : Owns(X, i, w) <=> Owns(A, i, w) \/ (i = n /\ w \in PagesOf(g))
       /\ \A i \in 1 .. Len(A) : X[i] = A[i]
       /\ X[n] = g
       /\ \A i, w : Owns(A, i, w) => i \in 1 .. Len(A) /\ i # n
  <2>1. g \in Area /\ A \in Seq(Area)
    BY <1>8
  <2>2. /\ \A i, w : Owns(A \o <<g>>, i, w) <=> \/ Owns(A, i, w)
                                                \/ i = Len(A) + 1 /\ w \in PagesOf(g)
        /\ \A i \in 1 .. Len(A) : (A \o <<g>>)[i] = A[i]
        /\ (A \o <<g>>)[Len(A) + 1] = g
        /\ \A i, w : Owns(A, i, w) => i \in 1 .. Len(A) /\ i # Len(A) + 1
    BY ONLY <2>1, OwnsMore
  <2>3. QED
    BY <1>8, <2>2
<1>11. /\ \A i, w : Owns(Y, i, w) <=> Owns(A, i, w) \/ (i = n /\ w \in PagesOf(h))
       /\ \A i \in 1 .. Len(A) : Y[i] = A[i]
       /\ Y[n] = h
  <2>1. h \in Area /\ A \in Seq(Area)
    BY <1>9
  <2>2. /\ \A i, w : Owns(A \o <<h>>, i, w) <=> \/ Owns(A, i, w)
                                                \/ i = Len(A) + 1 /\ w \in PagesOf(h)
        /\ \A i \in 1 .. Len(A) : (A \o <<h>>)[i] = A[i]
        /\ (A \o <<h>>)[Len(A) + 1] = h
    BY ONLY <2>1, OwnsMore
  <2>3. QED
    BY <1>9, <2>2
<1> HIDE DEF n
<1>12. \A w : w \in PagesOf(h) <=> w \in PagesOf(g) \/ w = v
  BY <1>1, <1>2, <1>8, <1>9
<1>13. \A i, w : Owns(Y, i, w) <=> Owns(X, i, w) \/ (i = n /\ w = v)
  BY <1>10, <1>11, <1>12
<1>14. ASSUME NEW i, NEW w, Owns(X, i, w)
       PROVE  Y[i].frames[w] = X[i].frames[w] /\ Y[i].perm = X[i].perm
  <2>1. CASE Owns(A, i, w)
    BY <1>10, <1>11, <2>1
  <2>2. CASE i = n /\ w \in PagesOf(g)
    BY <1>5, <1>8, <1>9, <1>10, <1>11, <2>2
  <2>3. QED
    BY <1>10, <1>14, <2>1, <2>2
<1>15. Y[n].frames[v] = f /\ Y[n].perm = o.todo[1].perm
  BY <1>5, <1>9, <1>11
<1>16. OneMorePage(X, Y, n, v, f, o.todo[1].perm)
  BY <1>13, <1>14, <1>15 DEF OneMorePage
<1>17. QED
  BY <1>4, <1>7, <1>16 DEF X, Y, n, u

(* Page v of a memory set is mapped: A and B are its areas before and      *)
(* after, ts and `new` its tables and its new ones.                        *)
Growth(A, B, n, v, f, p, m, M, r, ts, new) ==
    /\ A \in Seq(Area) /\ v \in Vpns /\ f \in Frames /\ OneMorePage(A, B, n, v, f, p)
    /\ ts \in Seq(Frames) /\ ts # <<>> /\ r = ts[1] /\ Exclusive(ts, A)
    /\ Leaves(m, r, A) /\ ~Maps(m, r, v)
    /\ Extended(m, M, r, Rest(ts) \cup ToSet(new), v, Entry(f, p))
    /\ new \in Seq(Frames) /\ IsInjective(new) /\ f \notin ToSet(new)
    /\ Holds(ts, A) \cap ({f} \cup ToSet(new)) = {}

(* It stays sound.                                                         *)
LEMMA SoundGrows ==
  ASSUME NEW A, NEW B, NEW n, NEW v, NEW f, NEW p, NEW m, NEW M, NEW r, NEW ts, NEW new,
         Growth(A, B, n, v, f, p, m, M, r, ts, new), NEW st
  PROVE  /\ Sound(M, st, r, ts \o new, B)
         /\ Holds(ts \o new, B) = Holds(ts, A) \cup ({f} \cup ToSet(new))
<1> USE DEF Growth
<1> DEFINE us == ts \o new
<1>1. us # <<>> /\ us[1] = ts[1] /\ Rest(us) = Rest(ts) \cup ToSet(new)
  <2>1. ts \in Seq(Frames) /\ ts # <<>> /\ new \in Seq(Frames)
    OBVIOUS
  <2>2. QED
    BY ONLY <2>1, JoinRest
<1>2. /\ us \in Seq(Frames) /\ ToSet(us) = ToSet(ts) \cup ToSet(new)
      /\ IsInjective(ts) /\ IsInjective(new) /\ ToSet(ts) \cap ToSet(new) = {} => IsInjective(us)
  <2>1. ts \in Seq(Frames) /\ new \in Seq(Frames)
    OBVIOUS
  <2>2. QED
    BY ONLY <2>1, JoinSeq
<1> HIDE DEF us
<1>3. Tree(M, r, Rest(us))
  BY <1>1 DEF Extended
<1>4. Leaves(M, r, B)
  BY LeavesGrow
<1>5. f \notin PageFrames(A) /\ f \notin ToSet(ts) /\ PageFrames(A) \cap ToSet(new) = {}
      /\ ToSet(ts) \cap ToSet(new) = {}
  BY DEF Holds
<1>6. PageFrames(B) = PageFrames(A) \cup {f} /\ (OneFrame(A) => OneFrame(B))
  BY <1>5, FramesGrow
<1>7. IsInjective(ts) /\ ToSet(ts) \cap PageFrames(A) = {} /\ OneFrame(A)
  BY DEF Exclusive, OneFrame
<1>8. ToSet(us) \cap PageFrames(B) = {}
  BY <1>2, <1>5, <1>6, <1>7
<1>9. Exclusive(us, B)
  BY <1>2, <1>5, <1>6, <1>7, <1>8 DEF Exclusive, OneFrame
<1>10. Holds(us, B) = Holds(ts, A) \cup ({f} \cup ToSet(new))
  BY <1>2, <1>6 DEF Holds
<1>11. QED
  BY <1>1, <1>3, <1>4, <1>9, <1>10 DEF Sound, us

(* map_one keeps the invariant.                                            *)
LEMMA MapOneKeeps ==
  ASSUME PagesInv, MapOne
  PROVE  PagesInv'
<1>c. PICK c : c = op.set
  OBVIOUS
<1> DEFINE v == op.next
           r == root[c]
           n == 1 + Missing(r, v)
           a == Alloc(n)
           new == SubSeq(a, 2, n)
           f == a[1]
           p == op.todo[1].perm
           m == Cleared(pte, a, ClearTable)
           A == With(areas[c], op, c)
           B == With(areas[c], op', c)
<1>0. /\ op # Idle /\ OpTyped(op) /\ c \in Sets /\ status[c] \in {"building", "live"}
      /\ op.todo \in Seq(Todo) /\ op.todo # <<>> /\ v < Head(op.todo).end
  BY <1>c DEF PagesInv, OpOK, OpTyped, MapOne
<1>1. Head(op.todo) = op.todo[1] /\ op.todo[1] \in Todo
  BY <1>0
<1>2. v \in Vpns /\ p \in SUBSET Perms
  <2>1. v \in Bounds /\ op.todo[1].end \in Bounds /\ p \in SUBSET Perms
    BY <1>0, <1>1 DEF OpTyped, Todo
  <2>2. v < op.todo[1].end
    BY <1>0, <1>1
  <2> HIDE DEF v
  <2>3. QED
    BY <2>1, <2>2, Sizes DEF Bounds, Vpns
<1>3. CASE ~Fits(n) /\ Panic("oom") /\ UNCHANGED ops
  BY <1>3, PanicKeeps
<1>4. CASE Fits(n) /\ IsMapped(r, v) /\ Panic("mapped before mapping") /\ UNCHANGED ops
  BY <1>4, PanicKeeps
<1>5. CASE /\ Fits(n) /\ ~IsMapped(r, v) /\ AllocAndFree(n, <<>>)
           /\ pte' = MapEntry(m, r, v, Entry(f, Head(op.todo).perm), new)
           /\ byte' = Cleared(byte, a, ClearPage)
           /\ tables' = [tables EXCEPT ![c] = @ \o new]
           /\ op' = Round(op, f)
           /\ UNCHANGED <<root, areas, status, agents, ops, panicked>>
  <2>1. Mapped(pte', c, v, p, n)
    BY <1>1, <1>5 DEF Mapped
  <2>2. ~Maps(pte, root[c], v) /\ status[c] # "none"
    BY <1>0, <1>5, WalkIs
  <2>3. /\ new \in Seq(Frames) /\ IsInjective(new) /\ f \in Frames /\ f \notin ToSet(new)
        /\ ToSet(a) = {f} \cup ToSet(new) /\ n \in Nat
        /\ Extended(m, pte', r, Rest(tables[c]) \cup ToSet(new), v, Entry(f, p))
        /\ ~Maps(m, r, v)
        /\ \A D \in Seq(Area) : Leaves(pte, r, D) => Leaves(m, r, D)
        /\ \A s \in Sets \ {c} : \A g \in ToSet(tables[s]) : pte'[g] = pte[g]
    <3> DEFINE M == pte'
    <3>1. /\ c \in Sets /\ status[c] # "none" /\ v \in Vpns /\ p \in SUBSET Perms
          /\ ~Maps(pte, root[c], v) /\ Fits(n) /\ n = 1 + Missing(root[c], v)
          /\ Mapped(M, c, v, p, n) /\ PagesInv
      BY <1>0, <1>2, <1>5, <2>1, <2>2
    <3> HIDE DEF v, p, n, M
    <3>2. MappedTables(M, c, v, p, n)
      BY ONLY <3>1, MapOneTables
    <3>3. QED
      BY <3>2 DEF MappedTables, M
  <2>4. \A s \in Sets : Before(s) \cap ToSet(a) = {}
    BY <1>5, <2>3, TakenApart
  <2>5. /\ PageTypeOK /\ areas \in [Sets -> Seq(Area)] /\ StatusOK /\ OpOK
        /\ areas[c] \in Seq(Area) /\ tables[c] \in Seq(Frames)
    BY <1>0 DEF PagesInv, PageTypeOK
  <2>6. /\ OpTyped(op') /\ op' # Idle /\ op'.set = c /\ op'.from = op.from
        /\ op'.todo = op.todo
        /\ OneMorePage(A, B, Len(areas[c]) + 1, v, f, p)
    <3> DEFINE F == areas[c]
               u == Round(op, f)
    <3>1. OpTyped(op) /\ op # Idle /\ op.next \in Vpns /\ f \in Frames /\ F \in Seq(Area)
      BY <1>0, <1>2, <2>3, <2>5
    <3> HIDE DEF f, F
    <3>2. /\ OpTyped(u) /\ u # Idle /\ u.set = op.set /\ u.from = op.from /\ u.todo = op.todo
          /\ OneMorePage(With(F, op, op.set), With(F, u, op.set), Len(F) + 1, op.next, f, p)
      BY ONLY <3>1, RoundFacts
    <3>3. op' = u /\ op.set = c
      BY <1>c, <1>5
    <3> HIDE DEF u, p
    <3>4. QED
      BY <3>2, <3>3 DEF F
  <2> HIDE DEF m
  <2>7. Typed'
    <3>1. PageTypeOK'
      <4>1. (pte \in [Frames -> [0 .. Fan - 1 -> [ppn : 0 .. FrameEnd, flags : SUBSET {"V", "R", "W", "X", "U"}]]])'
        BY <2>3 DEF Extended, Memories, Entries, Flags, Indices
      <4>2. (byte \in [Frames -> [0 .. PageSize - 1 -> Int]])'
        BY <1>5, <2>5, BlankPages DEF PageTypeOK
      <4>3. tables' \in [Sets -> Seq(Frames)]
        <5>1. tables[c] \o new \in Seq(Frames)
          BY <2>3, <2>5, JoinSeq
        <5>2. QED
          BY <1>0, <1>5, <2>5, <5>1 DEF PageTypeOK
      <4>4. QED
        BY <1>5, <2>5, <4>1, <4>2, <4>3 DEF PageTypeOK
    <3>2. OpOK'
      <4>1. areas' = areas /\ status' = status
        BY <1>5
      <4>2. OpTyped(op') /\ op'.set = op.set /\ op'.from = op.from /\ op'.todo = op.todo
        BY <1>c, <2>6
      <4>3. OpOK /\ op # Idle
        BY <1>0, <2>5
      <4>4. status'[op'.set] \in {"building", "live"}
        BY ONLY <4>1, <4>2, <4>3 DEF OpOK
      <4>5. ASSUME op'.from # Kernel
            PROVE  /\ op'.from # op'.set /\ status'[op'.from] = "live"
                   /\ \A i \in 1 .. Len(op'.todo) : \E k \in 1 .. Len(areas'[op'.from]) :
                        PagesOf(op'.todo[i]) = PagesOf(areas'[op'.from][k])
        BY ONLY <4>1, <4>2, <4>3, <4>5 DEF OpOK
      <4>6. QED
        BY ONLY <4>2, <4>4, <4>5 DEF OpOK
    <3>3. StatusOK'
      <4>1. \A s \in Sets : status[s] = "none" => tables'[s] = <<>>
        BY <1>0, <1>5, <2>5 DEF StatusOK, PageTypeOK
      <4>2. QED
        BY <1>5, <2>5, <4>1 DEF StatusOK
    <3>4. QED
      BY <1>5, <2>5, <3>1, <3>2, <3>3 DEF Typed
  <2>8. StepAt(c)
    BY <1>c, <1>0, <1>5, <2>3, <2>5, <2>6 DEF StepAt, PageTypeOK
  <2>9. /\ Sound(pte', status[c], r, tables[c] \o new, B)
        /\ Holds(tables[c] \o new, B) = Holds(tables[c], A) \cup ({f} \cup ToSet(new))
    <3> DEFINE k == Len(areas[c]) + 1
               M == pte'
               ts == tables[c]
               st == status[c]
    <3>1. /\ ts # <<>> /\ r = ts[1] /\ Leaves(pte, r, A) /\ Exclusive(ts, A)
      BY <1>0 DEF PagesInv
    <3>2. A \in Seq(Area) /\ ts \in Seq(Frames)
      BY <1>0, <2>5, WithSeq
    <3>3. Holds(ts, A) \cap ({f} \cup ToSet(new)) = {}
      BY <1>0, <2>3, <2>4 DEF Before
    <3>4. Leaves(m, r, A)
      BY <2>3, <3>1, <3>2
    <3>5. /\ OneMorePage(A, B, k, v, f, p) /\ v \in Vpns /\ f \in Frames
          /\ new \in Seq(Frames) /\ ~Maps(m, r, v)
          /\ Extended(m, M, r, Rest(ts) \cup ToSet(new), v, Entry(f, p))
          /\ IsInjective(new) /\ f \notin ToSet(new)
      BY <1>2, <2>3, <2>6
    <3> HIDE DEF A, B, k, M, ts, st, new, f, p, r, v
    <3>a. Growth(A, B, k, v, f, p, m, M, r, ts, new)
      BY ONLY <3>1, <3>2, <3>3, <3>4, <3>5 DEF Growth
    <3>6. /\ Sound(M, st, r, ts \o new, B)
          /\ Holds(ts \o new, B) = Holds(ts, A) \cup ({f} \cup ToSet(new))
      BY ONLY <3>a, SoundGrows
    <3>7. QED
      BY <3>6 DEF M, st, ts
  <2> HIDE DEF new, f, a
  <2>10. tables'[c] = tables[c] \o new /\ With(areas[c], op, c)' = B
    <3>1. tables'[c] = tables[c] \o new
      BY <1>0, <1>5, <2>5 DEF PageTypeOK
    <3>2. QED
      BY <1>5, <3>1
  <2>11. Sound(pte', status'[c], root'[c], tables'[c], With(areas'[c], op', c))
    BY <1>5, <2>9, <2>10
  <2>12. Holds(tables'[c], With(areas'[c], op', c)) = Before(c) \cup ToSet(a)
    BY <1>5, <2>3, <2>9, <2>10 DEF Before
  <2>13. ToSet(<<>>) = {} /\ IsInjective(<<>>)
    BY ShortSeqs
  <2>14. <<>> \in Seq(Frames)
    OBVIOUS
  <2>15. After(c) = Holds(tables'[c], With(areas'[c], op', c))
    BY DEF After
  <2>16. After(c) \cap ToSet(<<>>) = {} /\ After(c) \cup ToSet(<<>>) = Before(c) \cup ToSet(Alloc(n))
    BY <2>12, <2>13, <2>15 DEF a
  <2>17. n \in Nat /\ Fits(n) /\ AllocAndFree(n, <<>>)
    BY <1>5, <2>3
  <2> HIDE DEF n
  <2>18. QED
    BY <1>0, <2>7, <2>8, <2>11, <2>13, <2>14, <2>16, <2>17, OneStep
<1>6. QED
  BY <1>c, <1>3, <1>4, <1>5 DEF MapOne, Round

-------------------------------------------------------------------------------
(* An area is complete. *)

(* The frame that a page is copied from.                                   *)
LEMMA CopySource ==
  ASSUME PagesInv, op # Idle, op.from # Kernel, NEW v \in PagesOf(op.todo[1])
  PROVE  FindPte(root[op.from], v).ppn \in Frames
<1> DEFINE s == op.from
           A == areas[s]
<1>1. /\ OpTyped(op) /\ s \in Sets /\ s # op.set /\ status[s] = "live"
      /\ op.todo \in Seq(Todo) /\ op.todo # <<>>
  BY DEF PagesInv, OpOK, OpTyped
<1>2. 1 \in 1 .. Len(op.todo)
  BY <1>1
<1>3. PICK k \in 1 .. Len(A) : PagesOf(op.todo[1]) = PagesOf(A[k])
  BY <1>2 DEF PagesInv, OpOK
<1>4. Owns(A, k, v) /\ A \in Seq(Area)
  BY <1>1, <1>3 DEF Owns, PagesInv
<1>5. With(A, op, s) = A
  <2>1. A \in Seq(Area) /\ OpTyped(op) /\ op.set # s
    BY <1>1, <1>4
  <2> HIDE DEF A, s
  <2>2. QED
    BY ONLY <2>1, WithIs
<1>6. Leaves(pte, root[s], A)
  BY <1>1, <1>5 DEF PagesInv
<1>7. Pte(pte, root[s], v) = Entry(A[k].frames[v], A[k].perm)
  BY <1>4, <1>6 DEF Leaves
<1>8. A[k].frames[v] \in Frames
  BY <1>4, OwnedPages
<1>9. QED
  BY <1>7, <1>8, WalkIs DEF Entry

(* The bytes after the data of an area was copied are bytes.               *)
LEMMA PushBytes ==
  ASSUME PagesInv, PushArea
  PROVE  byte' \in [Frames -> [0 .. PageSize - 1 -> Int]]
<1> DEFINE area == MapArea(Head(op.todo), op.frames)
           Bytes == [0 .. PageSize - 1 -> Int]
<1>1. /\ op # Idle /\ op.todo \in Seq(Todo) /\ op.todo # <<>> /\ byte \in [Frames -> Bytes]
      /\ byte' = IF op.from # Kernel THEN Copied(area) ELSE Loaded(area, Head(op.todo).file)
  BY DEF PagesInv, PageTypeOK, OpOK, OpTyped, PushArea
<1>2. op.todo[1] \in Todo /\ Head(op.todo) = op.todo[1]
  BY <1>1
<1>3. PagesOf(area) = PagesOf(op.todo[1]) /\ area.start \in Int /\ PagesOf(area) \subseteq Int
  BY <1>2, Sizes DEF MapArea, PagesOf, Todo, Bounds
<1> HIDE DEF area
<1>4. CASE op.from # Kernel
  <2>1. byte' = Copied(area)
    BY <1>1, <1>4
  <2>2. ASSUME NEW f \in Frames PROVE byte'[f] \in Bytes
    <3>1. CASE \E v \in PagesOf(area) : FindPte(root[op.set], v).ppn = f
      <4> DEFINE v == CHOOSE v \in PagesOf(area) : FindPte(root[op.set], v).ppn = f
      <4>1. v \in PagesOf(area)
        BY <3>1
      <4>2. byte'[f] = byte[FindPte(root[op.from], v).ppn]
        BY <2>1, <3>1 DEF Copied
      <4> HIDE DEF v, Bytes
      <4>3. FindPte(root[op.from], v).ppn \in Frames
        BY <1>1, <1>3, <1>4, <4>1, CopySource
      <4>4. QED
        BY <1>1, <4>2, <4>3
    <3>2. CASE ~\E v \in PagesOf(area) : FindPte(root[op.set], v).ppn = f
      BY <1>1, <2>1, <3>2 DEF Copied
    <3>3. QED
      BY <3>1, <3>2
  <2> HIDE DEF Bytes
  <2>3. byte' \in [Frames -> Bytes]
    BY <2>1, <2>2 DEF Copied
  <2>4. QED
    BY <2>3 DEF Bytes
<1>5. CASE op.from = Kernel
  <2> DEFINE len == Head(op.todo).file
  <2>1. byte' = Loaded(area, len)
    BY <1>1, <1>5
  <2> HIDE DEF len
  <2>2. ASSUME NEW f \in Frames PROVE byte'[f] \in Bytes
    <3>1. CASE \E v \in PagesOf(area) : FindPte(root[op.set], v).ppn = f
      <4> DEFINE v == CHOOSE v \in PagesOf(area) : FindPte(root[op.set], v).ppn = f
                 start == (v - area.start) * PageSize
      <4>1. v \in PagesOf(area)
        BY <3>1
      <4>2. byte'[f] = [i \in 0 .. PageSize - 1 |-> IF start + i < len THEN start + i + 1
                                                    ELSE byte[f][i]]
        BY <2>1, <3>1 DEF Loaded
      <4> HIDE DEF v
      <4>3. start \in Int
        BY <1>3, <4>1, Sizes
      <4> HIDE DEF start
      <4>4. ASSUME NEW i \in 0 .. PageSize - 1
            PROVE  (IF start + i < len THEN start + i + 1 ELSE byte[f][i]) \in Int
        <5>1. start + i + 1 \in Int
          BY <4>3
        <5>2. byte \in [Frames -> Bytes]
          BY <1>1
        <5>3. byte[f][i] \in Int
          BY ONLY <5>2, f \in Frames, i \in 0 .. PageSize - 1
        <5>4. QED
          BY ONLY <5>1, <5>3
      <4>5. QED
        BY <4>2, <4>4
    <3>2. CASE ~\E v \in PagesOf(area) : FindPte(root[op.set], v).ppn = f
      BY <1>1, <2>1, <3>2 DEF Loaded
    <3>3. QED
      BY <3>1, <3>2
  <2> HIDE DEF Bytes
  <2>3. byte' \in [Frames -> Bytes]
    BY <2>1, <2>2 DEF Loaded
  <2>4. QED
    BY <2>3 DEF Bytes
<1>6. QED
  BY <1>4, <1>5

(* What is left of a list without its first element.                       *)
LEMMA TailFacts ==
  ASSUME NEW S, NEW q \in Seq(S), q # <<>>
  PROVE  /\ Tail(q) \in Seq(S)
         /\ \A i \in 1 .. Len(Tail(q)) : i + 1 \in 1 .. Len(q) /\ Tail(q)[i] = q[i + 1]
OBVIOUS

(* The end of push: the area that grew is appended as it is.               *)
LEMMA PushAreaKeeps ==
  ASSUME PagesInv, PushArea
  PROVE  PagesInv'
<1>c. PICK c : c = op.set
  OBVIOUS
<1> DEFINE A == With(areas[c], op, c)
           rest == Tail(op.todo)
           o == Running(c, op.from, rest)
           area == MapArea(Head(op.todo), op.frames)
<1>0. /\ op # Idle /\ OpTyped(op) /\ c \in Sets /\ op.from \in Sets
      /\ status[c] \in {"building", "live"}
      /\ op.todo \in Seq(Todo) /\ op.todo # <<>> /\ op.next = Head(op.todo).end
  BY <1>c DEF PagesInv, OpOK, OpTyped, PushArea
<1>1. /\ areas' = [areas EXCEPT ![c] = Append(@, area)]
      /\ op' = IF rest = <<>> THEN Idle ELSE o
      /\ status' = IF rest = <<>> THEN [status EXCEPT ![c] = "live"] ELSE status
      /\ UNCHANGED <<fresh, recycled, pte, root, tables, agents, ops, panicked>>
  BY <1>c DEF PushArea
<1>2. /\ PageTypeOK /\ areas \in [Sets -> Seq(Area)] /\ StatusOK /\ OpOK
      /\ areas[c] \in Seq(Area) /\ tables[c] \in Seq(Frames)
  BY <1>0 DEF PagesInv, PageTypeOK
<1>3. area = Growing(op)
  <2>1. op.todo[1] \in Todo /\ Head(op.todo) = op.todo[1]
    BY <1>0
  <2>2. [Head(op.todo) EXCEPT !.end = op.next] = Head(op.todo)
    BY <1>0, <2>1 DEF Todo
  <2>3. QED
    BY <2>2 DEF Growing
<1>4. /\ A = areas[c] \o <<area>> /\ area \in Area /\ A \in Seq(Area)
  BY <1>c, <1>0, <1>2, <1>3, WithIs
<1> HIDE DEF area
<1>5. A = Append(areas[c], area) /\ Len(A) = Len(areas[c]) + 1
  BY <1>2, <1>4, OneMore
<1> HIDE DEF A
<1>6. areas'[c] = A /\ \A s \in Sets : s # c => areas'[s] = areas[s]
  BY <1>0, <1>1, <1>2, <1>5
<1>7. /\ rest \in Seq(Todo)
      /\ \A i \in 1 .. Len(rest) : i + 1 \in 1 .. Len(op.todo) /\ rest[i] = op.todo[i + 1]
  BY <1>0, TailFacts
<1> HIDE DEF rest
<1>8. rest # <<>> => /\ OpTyped(o) /\ o # Idle /\ o.set = c /\ o.from = op.from /\ o.todo = rest
                     /\ SamePages(A, With(A, o, c))
  <2> SUFFICES ASSUME rest # <<>>
               PROVE  /\ OpTyped(o) /\ o # Idle /\ o.set = c /\ o.from = op.from /\ o.todo = rest
                      /\ SamePages(A, With(A, o, c))
    OBVIOUS
  <2> DEFINE s == op.from
  <2>1. c \in Sets /\ s \in Sets /\ rest \in Seq(Todo) /\ rest # <<>> /\ A \in Seq(Area)
    BY <1>0, <1>4, <1>7
  <2> HIDE DEF s
  <2>2. /\ OpTyped(Running(c, s, rest)) /\ Running(c, s, rest) # Idle
        /\ Running(c, s, rest).set = c /\ Running(c, s, rest).from = s
        /\ Running(c, s, rest).todo = rest
        /\ \A B \in Seq(Area) : SamePages(B, With(B, Running(c, s, rest), c))
    BY ONLY <2>1, RunningFacts
  <2>3. QED
    BY <2>1, <2>2 DEF s
<1> HIDE DEF o
<1>9. OpTyped(op') /\ (op' = Idle \/ op'.set = c) /\ SamePages(A, With(A, op', c))
  <2>1. CASE rest = <<>>
    <3>1. op' = Idle
      BY <1>1, <2>1
    <3>2. OpTyped(Idle) /\ SamePages(A, A)
      BY DEF OpTyped, SamePages
    <3>3. With(A, Idle, c) = A
      BY <1>4, <3>2, WithIs
    <3>4. QED
      BY <3>1, <3>2, <3>3
  <2>2. CASE rest # <<>>
    BY <1>1, <1>8, <2>2
  <2>3. QED
    BY <2>1, <2>2
<1>10. /\ status'[c] \in {"building", "live"} /\ \A s \in Sets : s # c => status'[s] = status[s]
       /\ status' \in [Sets -> {"none", "building", "live", "exited"}]
  <2>1. CASE rest = <<>>
    <3>1. status' = [status EXCEPT ![c] = "live"]
      BY <1>1, <2>1
    <3>2. QED
      BY <1>0, <1>2, <3>1 DEF PageTypeOK
  <2>2. CASE rest # <<>>
    <3>1. status' = status
      BY <1>1, <2>2
    <3>2. QED
      BY <1>0, <1>2, <3>1 DEF PageTypeOK
  <2>3. QED
    BY <2>1, <2>2
<1>11. Typed'
  <2>1. PageTypeOK'
    BY <1>1, <1>2, <1>10, PushBytes DEF PageTypeOK
  <2>2. areas' \in [Sets -> Seq(Area)]
    BY <1>1, <1>2, <1>4, <1>5
  <2>3. OpOK'
    <3>1. CASE rest = <<>>
      BY <1>1, <1>9, <3>1 DEF OpOK
    <3>2. CASE rest # <<>>
      <4>1. op' = o /\ op' # Idle /\ op'.set = c /\ op'.from = op.from /\ op'.todo = rest
        BY <1>1, <1>8, <3>2
      <4>2. ASSUME op.from # Kernel
            PROVE  /\ op.from # c /\ status'[op.from] = "live"
                   /\ \A i \in 1 .. Len(rest) : \E k \in 1 .. Len(areas'[op.from]) :
                        PagesOf(rest[i]) = PagesOf(areas'[op.from][k])
        <5>1. /\ op.from # c /\ status[op.from] = "live"
              /\ \A i \in 1 .. Len(op.todo) : \E k \in 1 .. Len(areas[op.from]) :
                   PagesOf(op.todo[i]) = PagesOf(areas[op.from][k])
          BY <1>c, <1>0, <1>2, <4>2 DEF OpOK
        <5>2. areas'[op.from] = areas[op.from] /\ status'[op.from] = status[op.from]
          BY <1>0, <1>6, <1>10, <5>1
        <5>3. QED
          BY <1>7, <5>1, <5>2
      <4>3. QED
        BY <1>9, <1>10, <4>1, <4>2 DEF OpOK
    <3>3. QED
      BY <3>1, <3>2
  <2>4. StatusOK'
    <3>1. tables' = tables /\ Kernel \in Sets /\ UserSets \subseteq Sets
      BY <1>1 DEF Sets
    <3>2. A # <<>>
      <4>1. Len(areas[c]) \in Nat
        BY <1>2
      <4>2. QED
        BY <1>4, <1>5, <4>1
    <3>3. status'[Kernel] = "live"
      <4>1. CASE rest = <<>>
        <5>1. status' = [status EXCEPT ![c] = "live"]
          BY <1>1, <4>1
        <5>2. QED
          BY <1>2, <3>1, <5>1 DEF StatusOK, PageTypeOK
      <4>2. CASE rest # <<>>
        BY <1>1, <1>2, <4>2 DEF StatusOK
      <4>3. QED
        BY <4>1, <4>2
    <3>4. \A s \in Sets : status'[s] = "none" => tables'[s] = <<>>
      BY <1>2, <1>10, <3>1 DEF StatusOK
    <3>5. \A s \in Sets : status'[s] \in {"none", "exited"} => areas'[s] = <<>>
      BY <1>2, <1>6, <1>10 DEF StatusOK
    <3>6. \A s \in UserSets : status'[s] = "live" => areas'[s] # <<>>
      BY <1>2, <1>6, <1>10, <3>1, <3>2 DEF StatusOK
    <3>7. QED
      BY <3>3, <3>4, <3>5, <3>6 DEF StatusOK
  <2>5. QED
    BY <2>1, <2>2, <2>3, <2>4 DEF Typed
<1>12. StepAt(c)
  BY <1>c, <1>1, <1>6, <1>9, <1>10 DEF StepAt
<1>13. Sound(pte', status'[c], root'[c], tables'[c], With(areas'[c], op', c))
  <2>1. Sound(pte, status[c], root[c], tables[c], A)
    BY <1>0, InvParts DEF A
  <2>2. Sound(pte, status'[c], root[c], tables[c], With(A, op', c))
    BY <1>0, <1>9, <1>10, <2>1, SamePagesFacts DEF Sound
  <2>3. QED
    BY <1>1, <1>6, <2>2
<1>14. After(c) = Before(c)
  <2>1. Holds(tables[c], With(A, op', c)) = Holds(tables[c], A)
    BY <1>9, SamePagesFacts
  <2>2. QED
    BY <1>1, <1>6, <2>1 DEF Before, After, A
<1>15. UNCHANGED <<fresh, recycled>>
  BY <1>1
<1>16. QED
  BY <1>0, <1>11, <1>12, <1>13, <1>14, <1>15, QuietStep

-------------------------------------------------------------------------------
(* Frames are returned. *)

(* Memory set c as it is between two operations.                           *)
LEMMA AtRest ==
  ASSUME PagesInv, op = Idle, NEW c \in Sets
  PROVE  /\ With(areas[c], op, c) = areas[c] /\ areas[c] \in Seq(Area)
         /\ tables[c] \in Seq(Frames) /\ IsInjective(tables[c]) /\ OneFrame(areas[c])
         /\ ToSet(tables[c]) \cap PageFrames(areas[c]) = {}
         /\ Before(c) = ToSet(tables[c]) \cup PageFrames(areas[c])
         /\ \A s \in Sets \ {c} : ToSet(tables[s]) \cap Before(c) = {}
         /\ \A s \in Sets : ToSet(tables[s]) \subseteq Frames
         /\ PageTypeOK /\ areas \in [Sets -> Seq(Area)] /\ StatusOK
<1>1. PageTypeOK /\ areas \in [Sets -> Seq(Area)] /\ StatusOK /\ tables \in [Sets -> Seq(Frames)]
  BY DEF PagesInv, PageTypeOK
<1>2. areas[c] \in Seq(Area) /\ tables[c] \in Seq(Frames) /\ OpTyped(op)
  BY <1>1 DEF OpTyped
<1>3. With(areas[c], op, c) = areas[c]
  BY <1>2, WithIs
<1>4. Exclusive(tables[c], areas[c])
  BY <1>3 DEF PagesInv
<1>5. Before(c) = ToSet(tables[c]) \cup PageFrames(areas[c])
  BY <1>3 DEF Before, Holds
<1>6. \A s \in Sets \ {c} : Before(s) \cap Before(c) = {}
  BY DEF PagesInv, Once, Held, Before
<1>7. \A s \in Sets : ToSet(tables[s]) \subseteq Before(s)
  BY DEF Before, Holds
<1>8. \A s \in Sets : ToSet(tables[s]) \subseteq Frames
  BY <1>1, InSeq
<1>9. QED
  BY <1>1, <1>2, <1>3, <1>4, <1>5, <1>6, <1>7, <1>8 DEF Exclusive, OneFrame

(* Memory set c returns the frames `dropped` and keeps the tables us and   *)
(* the areas of the list B.                                                *)
LEMMA ReturnStep ==
  ASSUME PagesInv, op = Idle, op' = Idle, NEW c \in Sets, StepAt(c), Typed',
         NEW B \in Seq(Area), areas'[c] = B,
         Sound(pte', status'[c], root'[c], tables'[c], B),
         NEW dropped \in Seq(Frames), AllocAndFree(0, dropped), IsInjective(dropped),
         Holds(tables'[c], B) \cap ToSet(dropped) = {},
         Holds(tables'[c], B) \cup ToSet(dropped) = Before(c)
  PROVE  PagesInv'
<1>1. With(areas'[c], op', c) = B
  <2>1. OpTyped(Idle)
    BY DEF OpTyped
  <2>2. With(B, Idle, c) = B
    BY <2>1, WithIs
  <2>3. QED
    BY <2>2
<1>2. Sound(pte', status'[c], root'[c], tables'[c], With(areas'[c], op', c))
  BY <1>1
<1>3. After(c) = Holds(tables'[c], B)
  BY <1>1 DEF After
<1>4. recycled \in Seq(Frames) /\ fresh \in 0 .. FrameEnd
  BY DEF PagesInv, Once
<1>5. Fits(0) /\ Alloc(0) = <<>>
  BY <1>4, Sizes DEF Fits, Alloc
<1>6. ToSet(Alloc(0)) = {}
  BY <1>5, ShortSeqs
<1>7. After(c) \cap ToSet(dropped) = {} /\ After(c) \cup ToSet(dropped) = Before(c) \cup ToSet(Alloc(0))
  BY <1>3, <1>6
<1>8. 0 \in Nat
  OBVIOUS
<1>9. QED
  BY <1>2, <1>5, <1>7, <1>8, OneStep

(* KernelStack::drop: the pages of the stack are unmapped and its frames   *)
(* returned; no other page and no other frame is affected.                 *)
LEMMA KernelStackDropKeeps ==
  ASSUME PagesInv, NEW pid \in Pids, KernelStackDrop(pid)
  PROVE  PagesInv'
<1> DEFINE c == Kernel
           A == areas[c]
           r == root[c]
           ts == tables[c]
           starts == {i \in 1 .. Len(areas[Kernel]) :
                        areas[Kernel][i].start = Floor(VirtAddr(StackBottom(pid)))}
           k == Min(starts)
           d == FramesOf(A[k])
           B == RemoveAt(A, k)
           T == Rest(ts)
           M == Unmapped(pte, r, PagesOf(A[k]))
<1>0. c \in Sets /\ op = Idle /\ status[c] = "live"
  BY DEF Sets, KernelStackDrop, Begins, Ready, PagesInv, StatusOK
<1>1. /\ AllocAndFree(0, d) /\ areas' = [areas EXCEPT ![c] = B]
      /\ UNCHANGED <<byte, root, tables, status, agents, op, panicked>>
  BY DEF KernelStackDrop
<1>2. pte' = M
  BY DEF KernelStackDrop, Unmapped, Low, Mid, Indices
<1>3. /\ With(A, op, c) = A /\ A \in Seq(Area)
      /\ ts \in Seq(Frames) /\ IsInjective(ts) /\ OneFrame(A)
      /\ ToSet(ts) \cap PageFrames(A) = {} /\ Before(c) = ToSet(ts) \cup PageFrames(A)
      /\ \A s \in Sets \ {c} : ToSet(tables[s]) \cap Before(c) = {}
      /\ \A s \in Sets : ToSet(tables[s]) \subseteq Frames
      /\ PageTypeOK /\ areas \in [Sets -> Seq(Area)] /\ StatusOK
  BY <1>0, AtRest
<1>4. k \in 1 .. Len(A)
  <2>1. starts # {} /\ starts \subseteq 1 .. Len(A)
    BY DEF KernelStackDrop, HasStack
  <2>2. starts \subseteq Nat
    BY <1>3, <2>1
  <2> HIDE DEF starts
  <2>3. \E x \in starts : \A y \in starts : x =< y
    BY <2>1, <2>2, Least
  <2>4. k \in starts
    BY <2>3 DEF Min
  <2>5. QED
    BY <2>1, <2>4
<1> HIDE DEF k
<1>5. /\ Tree(pte, r, T) /\ ts # <<>> /\ r = ts[1] /\ ToSet(ts) = {r} \cup T
  BY <1>0, SetTables
<1>6. Leaves(pte, r, A) /\ pte \in Memories
  BY <1>0, <1>3 DEF PagesInv, PageTypeOK, Memories, Entries, Flags, Indices
<1>7. \A v \in PagesOf(A[k]) : v \in Vpns /\ Maps(pte, r, v)
  <2>1. \A v \in PagesOf(A[k]) : Owns(A, k, v)
    BY <1>4 DEF Owns
  <2> HIDE DEF A, r
  <2>2. QED
    BY <1>3, <1>6, <2>1, OwnedPages DEF Leaves
<1>8. /\ M \in Memories /\ Tree(M, r, T) /\ \A f \in Frames \ T : M[f] = pte[f]
  <2> DEFINE V == PagesOf(A[k])
             m == pte
  <2>1. m \in Memories /\ Tree(m, r, T) /\ V \subseteq Vpns /\ \A v \in V : Maps(m, r, v)
    BY <1>5, <1>6, <1>7
  <2> HIDE DEF V, r, T, m
  <2>2. /\ Unmapped(m, r, V) \in Memories /\ Tree(Unmapped(m, r, V), r, T)
        /\ \A f \in Frames \ T : Unmapped(m, r, V)[f] = m[f]
    BY ONLY <2>1, UnmapClears
  <2>3. QED
    BY <2>2 DEF V, m
<1>9. Leaves(M, r, B)
  <2> DEFINE m == pte
  <2>1. A \in Seq(Area) /\ k \in 1 .. Len(A) /\ m \in Memories /\ Tree(m, r, T) /\ Leaves(m, r, A)
    BY <1>3, <1>4, <1>5, <1>6
  <2> HIDE DEF A, r, T, m
  <2>2. Leaves(Unmapped(m, r, PagesOf(A[k])), r, RemoveAt(A, k))
    BY ONLY <2>1, LeavesShrink
  <2>3. QED
    BY <2>2 DEF m
<1>10. /\ d \in Seq(Frames) /\ IsInjective(d)
       /\ PageFrames(A) = PageFrames(B) \cup ToSet(d) /\ PageFrames(B) \cap ToSet(d) = {}
       /\ OneFrame(B)
  <2>1. A \in Seq(Area) /\ k \in 1 .. Len(A) /\ OneFrame(A)
    BY <1>3, <1>4
  <2> HIDE DEF A
  <2>2. QED
    BY ONLY <2>1, FramesShrink
<1>11. B \in Seq(Area)
  BY <1>3, <1>4, OwnsLess
<1> HIDE DEF M, B, d, A, T
<1>12. Sound(M, status[c], r, ts, B)
  <2>1. Exclusive(ts, B)
    BY <1>3, <1>10 DEF Exclusive, OneFrame
  <2>2. QED
    BY <1>5, <1>8, <1>9, <2>1 DEF Sound, T
<1>13. areas'[c] = B
  BY <1>0, <1>1, <1>3
<1>14. Typed'
  <2>1. PageTypeOK'
    <3>1. (pte \in [Frames -> [0 .. Fan - 1 -> [ppn : 0 .. FrameEnd, flags : SUBSET {"V", "R", "W", "X", "U"}]]])'
      BY <1>2, <1>8 DEF Memories, Entries, Flags, Indices
    <3>2. QED
      BY <1>1, <1>3, <3>1 DEF PageTypeOK
  <2>2. areas' \in [Sets -> Seq(Area)]
    BY <1>1, <1>3, <1>11
  <2>3. OpOK'
    BY <1>0, <1>1 DEF OpOK, OpTyped
  <2>4. StatusOK'
    <3>1. \A s \in Sets : s # c => areas'[s] = areas[s]
      BY <1>1, <1>3
    <3>2. \A s \in UserSets : s \in Sets /\ s # c
      BY PageAssumption DEF Sets
    <3>3. QED
      BY <1>0, <1>1, <1>3, <3>1, <3>2 DEF StatusOK
  <2>5. QED
    BY <2>1, <2>2, <2>3, <2>4 DEF Typed
<1>15. StepAt(c)
  <2>1. ASSUME NEW s \in Sets \ {c}, NEW f \in ToSet(tables[s]) PROVE pte'[f] = pte[f]
    <3>1. f \in Frames /\ f \notin T
      BY <1>3, <1>5, <2>1
    <3>2. QED
      BY <1>2, <1>8, <3>1
  <2>2. \A s \in Sets \ {c} : areas'[s] = areas[s]
    BY <1>1, <1>3
  <2>3. QED
    BY <1>0, <1>1, <2>1, <2>2 DEF StepAt
<1>16. Sound(pte', status'[c], root'[c], tables'[c], B)
  BY <1>1, <1>2, <1>12
<1>17. Holds(tables'[c], B) \cap ToSet(d) = {} /\ Holds(tables'[c], B) \cup ToSet(d) = Before(c)
  BY <1>1, <1>3, <1>10 DEF Holds
<1>18. QED
  BY <1>0, <1>1, <1>10, <1>11, <1>13, <1>14, <1>15, <1>16, <1>17, ReturnStep

(* recycle_data_pages: the frames of the pages are returned, the tables    *)
(* stay.                                                                   *)
LEMMA RecycleDataPagesKeeps ==
  ASSUME PagesInv, NEW s \in UserSets, RecycleDataPages(s)
  PROVE  PagesInv'
<1> DEFINE d == DataFrames(areas[s])
<1>0. s \in Sets /\ s # Kernel /\ op = Idle /\ status[s] = "live"
  BY PageAssumption DEF Sets, RecycleDataPages, Begins, Ready
<1>1. /\ AllocAndFree(0, d) /\ areas' = [areas EXCEPT ![s] = <<>>]
      /\ status' = [status EXCEPT ![s] = "exited"]
      /\ UNCHANGED <<pte, byte, root, tables, agents, op, panicked>>
  BY DEF RecycleDataPages
<1>2. /\ areas[s] \in Seq(Area) /\ tables[s] \in Seq(Frames) /\ IsInjective(tables[s])
      /\ OneFrame(areas[s]) /\ ToSet(tables[s]) \cap PageFrames(areas[s]) = {}
      /\ Before(s) = ToSet(tables[s]) \cup PageFrames(areas[s])
      /\ PageTypeOK /\ areas \in [Sets -> Seq(Area)] /\ StatusOK
  BY <1>0, AtRest
<1>3. d \in Seq(Frames) /\ ToSet(d) = PageFrames(areas[s]) /\ IsInjective(d)
  BY <1>2, DataFramesOf
<1> HIDE DEF d
<1>4. /\ areas'[s] = <<>> /\ status'[s] = "exited"
      /\ \A t \in Sets : t # s => areas'[t] = areas[t] /\ status'[t] = status[t]
  BY <1>0, <1>1, <1>2 DEF PageTypeOK
<1>5. Typed'
  <2>1. PageTypeOK'
    BY <1>1, <1>2 DEF PageTypeOK
  <2>2. areas' \in [Sets -> Seq(Area)]
    BY <1>1, <1>2, NoAreas
  <2>3. OpOK'
    BY <1>0, <1>1 DEF OpOK, OpTyped
  <2>4. StatusOK'
    <3>1. Kernel \in Sets /\ UserSets \subseteq Sets
      BY DEF Sets
    <3>2. QED
      BY <1>0, <1>1, <1>2, <1>4, <3>1 DEF StatusOK
  <2>5. QED
    BY <2>1, <2>2, <2>3, <2>4 DEF Typed
<1>6. StepAt(s)
  BY <1>0, <1>1, <1>4 DEF StepAt
<1>7. Sound(pte', status'[s], root'[s], tables'[s], <<>>)
  <2>1. Sound(pte, status[s], root[s], tables[s], With(areas[s], op, s))
    BY <1>0, InvParts
  <2>2. Exclusive(tables[s], <<>>)
    BY <1>2, NoAreas
  <2>3. QED
    BY <1>0, <1>1, <1>4, <2>1, <2>2 DEF Sound
<1>8. Holds(tables'[s], <<>>) \cap ToSet(d) = {} /\ Holds(tables'[s], <<>>) \cup ToSet(d) = Before(s)
  <2>1. Holds(tables'[s], <<>>) = ToSet(tables[s])
    BY <1>1, NoAreas
  <2>2. QED
    BY <1>2, <1>3, <2>1
<1>9. op' = Idle /\ <<>> \in Seq(Area)
  BY <1>0, <1>1, NoAreas
<1>10. QED
  BY <1>0, <1>1, <1>3, <1>4, <1>5, <1>6, <1>7, <1>8, <1>9, ReturnStep

(* A memory set is dropped: its tables and the frames of its pages are     *)
(* returned, each once.                                                    *)
LEMMA DropSetKeeps ==
  ASSUME PagesInv, NEW s \in UserSets, DropSet(s)
  PROVE  PagesInv'
<1> DEFINE q == DataFrames(areas[s])
           d == tables[s] \o q
<1>0. s \in Sets /\ s # Kernel /\ op = Idle
  BY PageAssumption DEF Sets, DropSet, Begins, Ready
<1>1. /\ AllocAndFree(0, d) /\ areas' = [areas EXCEPT ![s] = <<>>]
      /\ tables' = [tables EXCEPT ![s] = <<>>]
      /\ status' = [status EXCEPT ![s] = "none"]
      /\ UNCHANGED <<pte, byte, root, op, panicked>>
  BY DEF DropSet
<1>2. /\ areas[s] \in Seq(Area) /\ tables[s] \in Seq(Frames) /\ IsInjective(tables[s])
      /\ OneFrame(areas[s]) /\ ToSet(tables[s]) \cap PageFrames(areas[s]) = {}
      /\ Before(s) = ToSet(tables[s]) \cup PageFrames(areas[s])
      /\ PageTypeOK /\ areas \in [Sets -> Seq(Area)] /\ StatusOK
  BY <1>0, AtRest
<1>3. q \in Seq(Frames) /\ ToSet(q) = PageFrames(areas[s]) /\ IsInjective(q)
  BY <1>2, DataFramesOf
<1> HIDE DEF q
<1>4. d \in Seq(Frames) /\ ToSet(d) = Before(s) /\ IsInjective(d)
  <2> DEFINE ts == tables[s]
  <2>1. ts \in Seq(Frames) /\ q \in Seq(Frames)
    BY <1>2, <1>3
  <2> HIDE DEF ts
  <2>2. /\ ts \o q \in Seq(Frames) /\ ToSet(ts \o q) = ToSet(ts) \cup ToSet(q)
        /\ IsInjective(ts) /\ IsInjective(q) /\ ToSet(ts) \cap ToSet(q) = {} => IsInjective(ts \o q)
    BY ONLY <2>1, JoinSeq
  <2>3. QED
    BY <1>2, <1>3, <2>2 DEF ts
<1> HIDE DEF d
<1>5. /\ areas'[s] = <<>> /\ status'[s] = "none" /\ tables'[s] = <<>>
      /\ \A t \in Sets : t # s => /\ areas'[t] = areas[t] /\ status'[t] = status[t]
                                  /\ tables'[t] = tables[t]
  BY <1>0, <1>1, <1>2 DEF PageTypeOK
<1>6. Typed'
  <2>1. PageTypeOK'
    <3>1. tables' \in [Sets -> Seq(Frames)]
      <4>1. tables \in [Sets -> Seq(Frames)] /\ tables' = [tables EXCEPT ![s] = <<>>]
        BY <1>1, <1>2 DEF PageTypeOK
      <4>2. <<>> \in Seq(Frames)
        OBVIOUS
      <4>3. QED
        BY ONLY <4>1, <4>2
    <3>2. status' \in [Sets -> {"none", "building", "live", "exited"}]
      BY <1>1, <1>2 DEF PageTypeOK
    <3>3. QED
      BY <1>1, <1>2, <3>1, <3>2 DEF PageTypeOK
  <2>2. areas' \in [Sets -> Seq(Area)]
    BY <1>1, <1>2, NoAreas
  <2>3. OpOK'
    BY <1>0, <1>1 DEF OpOK, OpTyped
  <2>4. StatusOK'
    <3>1. Kernel \in Sets /\ UserSets \subseteq Sets
      BY DEF Sets
    <3>2. QED
      BY <1>0, <1>2, <1>5, <3>1 DEF StatusOK
  <2>5. QED
    BY <2>1, <2>2, <2>3, <2>4 DEF Typed
<1>7. StepAt(s)
  BY <1>0, <1>1, <1>5 DEF StepAt
<1>8. IsInjective(<<>>) /\ ToSet(<<>>) = {}
  BY ShortSeqs
<1>9. Exclusive(<<>>, <<>>) /\ Holds(<<>>, <<>>) = {} /\ <<>> \in Seq(Area)
  BY <1>8, NoAreas
<1>10. Sound(pte', status'[s], root'[s], tables'[s], <<>>)
  BY <1>5, <1>9 DEF Sound
<1>11. Holds(tables'[s], <<>>) \cap ToSet(d) = {} /\ Holds(tables'[s], <<>>) \cup ToSet(d) = Before(s)
  BY <1>4, <1>5, <1>9
<1>12. op' = Idle
  BY <1>0, <1>1
<1>13. QED
  BY <1>0, <1>1, <1>4, <1>5, <1>6, <1>7, <1>9, <1>10, <1>11, <1>12, ReturnStep

-------------------------------------------------------------------------------
(* The theorem. *)

(* Every operation of the memory sets keeps the inductive invariant.       *)
LEMMA StepPages == PagesInv /\ [PageNext]_ptVars => PagesInv'
<1> SUFFICES ASSUME PagesInv, [PageNext]_ptVars PROVE PagesInv'
  OBVIOUS
<1>1. ASSUME NEW s \in UserSets, NEW prog \in Programs, FromElf(s, prog) PROVE PagesInv'
  BY <1>1, FromElfKeeps
<1>2. ASSUME NEW s \in UserSets, NEW t \in UserSets, FromExistedUser(s, t) PROVE PagesInv'
  BY <1>2, FromExistedUserKeeps
<1>3. ASSUME NEW s \in UserSets, AllocateContext(s) PROVE PagesInv'
  BY <1>3, AllocateContextKeeps
<1>4. ASSUME NEW pid \in Pids, KernelStackNew(pid) PROVE PagesInv'
  BY <1>4, KernelStackNewKeeps
<1>5. CASE MapOne
  BY <1>5, MapOneKeeps
<1>6. CASE PushArea
  BY <1>6, PushAreaKeeps
<1>7. ASSUME NEW pid \in Pids, KernelStackDrop(pid) PROVE PagesInv'
  BY <1>7, KernelStackDropKeeps
<1>8. ASSUME NEW s \in UserSets, RecycleDataPages(s) PROVE PagesInv'
  BY <1>8, RecycleDataPagesKeeps
<1>9. ASSUME NEW s \in UserSets, DropSet(s) PROVE PagesInv'
  BY <1>9, DropSetKeeps
<1>10. ASSUME NEW s \in UserSets, NEW b \in Buffers, WriteBuffer(s, b[1], b[2]) PROVE PagesInv'
  BY <1>10, WriteBufferKeeps
<1>11. ASSUME NEW s \in UserSets, NEW va \in Refs, WriteRef(s, va) PROVE PagesInv'
  BY <1>11, WriteRefKeeps
<1>12. CASE UNCHANGED ptVars
  <2>1. /\ UNCHANGED <<fresh, recycled, pte, root, tables, areas, status, op>>
        /\ byte' = byte /\ panicked' = panicked
    BY <1>12 DEF ptVars
  <2>2. byte \in [Frames -> [0 .. PageSize - 1 -> Int]]
        /\ panicked \in {"no", "oom", "mapped before mapping"}
    BY DEF PagesInv, PageTypeOK
  <2>3. QED
    BY <2>1, <2>2, SameSpaces
<1>13. QED
  BY <1>1, <1>2, <1>3, <1>4, <1>5, <1>6, <1>7, <1>8, <1>9, <1>10, <1>11, <1>12 DEF PageNext

(* The page tables of all memory sets are sound at all times (os/src/mm):  *)
(* the tables of a set form a tree below its root, a page is mapped if and *)
(* only if an area has it, to the area's frame with the area's             *)
(* permissions, and every frame ever taken has exactly one use, whatever   *)
(* was loaded, copied, added, unmapped, recycled and dropped before.       *)
THEOREM TablesAreSound == PageSpec => []TablesInv
<1>1. PageSpec => []PagesInv
  BY InitPages, StepPages, PTL DEF PageSpec
<1>2. QED
  BY <1>1, PagesInvSound, PTL

-------------------------------------------------------------------------------
(* The refinement of AddressSpaces.  Addresses and views. *)

(* The pages of a list of areas, and the addresses of a set of pages.      *)
PagesIn(A) == {v \in Vpns : \E i : Owns(A, i, v)}
Addrs(P) == {v * PageSize + i : v \in P, i \in 0 .. PageSize - 1}

(* The frame of page v, and what the pages of list A show if the bytes of  *)
(* the frames are b.                                                       *)
FrameAt(A, v) == A[CHOOSE i : Owns(A, i, v)].frames[v]
Seen(A, b) == [a \in Addrs(PagesIn(A)) |-> b[FrameAt(A, Floor(a))][PageOffset(a)]]

(* The page and the offset of an address.                                  *)
LEMMA AddressParts ==
  /\ \A a \in Int : /\ Floor(a) \in Int /\ PageOffset(a) \in 0 .. PageSize - 1
                    /\ a = Floor(a) * PageSize + PageOffset(a)
  /\ \A v \in Int, i \in 0 .. PageSize - 1 :
        /\ v * PageSize + i \in Int
        /\ Floor(v * PageSize + i) = v /\ PageOffset(v * PageSize + i) = i
<1>1. ASSUME NEW a \in Int
      PROVE  /\ Floor(a) \in Int /\ PageOffset(a) \in 0 .. PageSize - 1
             /\ a = Floor(a) * PageSize + PageOffset(a)
  BY Sizes, Division DEF Floor, PageOffset
<1>2. ASSUME NEW v \in Int, NEW i \in 0 .. PageSize - 1
      PROVE  /\ v * PageSize + i \in Int
             /\ Floor(v * PageSize + i) = v /\ PageOffset(v * PageSize + i) = i
  <2> DEFINE a == v * PageSize + i
             w == Floor(a)
             j == PageOffset(a)
  <2>1. a \in Int
    <3>1. v * PageSize \in Int
      BY Sizes
    <3>2. QED
      BY <3>1
  <2>2. w \in Int /\ j \in 0 .. PageSize - 1 /\ a = w * PageSize + j
    <3> HIDE DEF a
    <3>1. QED
      BY <1>1, <2>1
  <2>3. PageSize \in Nat /\ w * PageSize + j = v * PageSize + i
    BY <2>2, Sizes
  <2> HIDE DEF w, j
  <2>4. w = v /\ j = i
    BY <2>2, <2>3, DivisionUnique
  <2>5. QED
    BY <2>1, <2>4 DEF w, j
<1>3. QED
  BY <1>1, <1>2

(* The addresses of a set of pages.                                        *)
LEMMA AddrsOf ==
  ASSUME NEW P, P \subseteq Int
  PROVE  \A a : a \in Addrs(P) <=> a \in Int /\ Floor(a) \in P
<1>1. ASSUME NEW a \in Addrs(P) PROVE a \in Int /\ Floor(a) \in P
  <2>1. PICK v \in P, i \in 0 .. PageSize - 1 : a = v * PageSize + i
    BY <1>1 DEF Addrs
  <2>2. QED
    BY <2>1, AddressParts
<1>2. ASSUME NEW a \in Int, Floor(a) \in P PROVE a \in Addrs(P)
  <2> DEFINE v == Floor(a)
             i == PageOffset(a)
  <2>1. i \in 0 .. PageSize - 1 /\ a = v * PageSize + i /\ v \in P
    BY <1>2, AddressParts
  <2> HIDE DEF v, i
  <2>2. QED
    BY ONLY <2>1 DEF Addrs
<1>3. QED
  BY <1>1, <1>2

(* Pages are numbers.                                                      *)
LEMMA PagesAreInts == \A A : PagesIn(A) \subseteq Int /\ PagesIn(A) \subseteq Vpns
BY Sizes DEF PagesIn, Vpns

(* The frame of a page of the list.                                        *)
LEMMA FrameFound ==
  ASSUME NEW A \in Seq(Area), NEW v \in PagesIn(A)
  PROVE  /\ FrameAt(A, v) \in PageFrames(A) /\ FrameAt(A, v) \in Frames
         /\ \E i : Owns(A, i, v) /\ FrameAt(A, v) = A[i].frames[v]
<1>1. \E i : Owns(A, i, v)
  BY DEF PagesIn
<1> DEFINE j == CHOOSE i : Owns(A, i, v)
<1>2. Owns(A, j, v)
  BY <1>1
<1>3. FrameAt(A, v) = A[j].frames[v]
  BY DEF FrameAt
<1> HIDE DEF j
<1>4. A[j].frames[v] \in Frames
  BY <1>2, OwnedPages
<1>5. QED
  BY <1>2, <1>3, <1>4 DEF PageFrames

(* Bytes that agree on the frames of a list show the same.                 *)
LEMMA SeenSame ==
  ASSUME NEW A \in Seq(Area), NEW b, NEW e, \A f \in PageFrames(A) : e[f] = b[f]
  PROVE  Seen(A, e) = Seen(A, b)
<1>1. ASSUME NEW a \in Addrs(PagesIn(A))
      PROVE  e[FrameAt(A, Floor(a))][PageOffset(a)] = b[FrameAt(A, Floor(a))][PageOffset(a)]
  <2>1. Floor(a) \in PagesIn(A)
    BY AddrsOf, PagesAreInts
  <2>2. FrameAt(A, Floor(a)) \in PageFrames(A)
    BY <2>1, FrameFound
  <2>3. QED
    BY <2>2
<1>2. QED
  BY <1>1 DEF Seen

(* The pages loop o has mapped of its area.                                *)
Fresh(o) == o.todo[1].start .. o.next - 1

(* The areas of a memory set are among those it has with the area that is  *)
(* being mapped.                                                           *)
LEMMA OwnsWith ==
  ASSUME NEW A \in Seq(Area), NEW o, OpTyped(o), NEW s
  PROVE  /\ \A i, v : Owns(A, i, v) => Owns(With(A, o, s), i, v) /\ With(A, o, s)[i] = A[i]
         /\ o # Idle /\ o.set = s => \A v \in Fresh(o) :
              /\ Owns(With(A, o, s), Len(A) + 1, v)
              /\ With(A, o, s)[Len(A) + 1].frames[v] = o.frames[v]
         /\ \A i, v : Owns(A, i, v) => i # Len(A) + 1
<1>1. \A i, v : Owns(A, i, v) => i # Len(A) + 1
  <2>1. Len(A) \in Nat
    OBVIOUS
  <2>2. QED
    BY <2>1 DEF Owns
<1>2. CASE o = Idle \/ o.set # s
  <2>1. With(A, o, s) = A
    BY <1>2, WithIs
  <2>2. QED
    BY <1>1, <1>2, <2>1
<1>3. CASE o # Idle /\ o.set = s
  <2> DEFINE g == Growing(o)
             B == With(A, o, s)
  <2>1. B = A \o <<g>> /\ g \in Area /\ g.frames = o.frames /\ PagesOf(g) = Fresh(o)
    BY <1>3, WithIs DEF Fresh
  <2> HIDE DEF g, B
  <2>2. /\ \A i, v : Owns(B, i, v) <=> Owns(A, i, v) \/ (i = Len(A) + 1 /\ v \in PagesOf(g))
        /\ \A i \in 1 .. Len(A) : B[i] = A[i]
        /\ B[Len(A) + 1] = g
        /\ \A i, v : Owns(A, i, v) => i \in 1 .. Len(A)
    BY <2>1, OwnsMore
  <2>3. /\ \A i, v : Owns(A, i, v) => Owns(B, i, v) /\ B[i] = A[i]
        /\ \A v \in Fresh(o) : Owns(B, Len(A) + 1, v) /\ B[Len(A) + 1].frames[v] = o.frames[v]
    BY <2>1, <2>2
  <2>4. QED
    BY <1>1, <2>3 DEF B
<1>4. QED
  BY <1>2, <1>3

(* No page is in two areas.                                                *)
OneOwner(A) == \A i, j, v : Owns(A, i, v) /\ Owns(A, j, v) => i = j

(* The frame of a page is the one its area has for it.                     *)
LEMMA FrameIs ==
  ASSUME NEW A, OneOwner(A), NEW i, NEW v, Owns(A, i, v)
  PROVE  FrameAt(A, v) = A[i].frames[v]
<1> DEFINE j == CHOOSE j : Owns(A, j, v)
<1>1. Owns(A, j, v)
  OBVIOUS
<1>2. j = i
  BY <1>1 DEF OneOwner
<1>3. QED
  BY <1>2 DEF FrameAt

(* The pages of a memory set: each is in one area and has a frame of its   *)
(* own, which the walk finds.                                              *)
LEMMA PagesFound ==
  ASSUME PagesInv, NEW s \in Sets, status[s] = "live"
  PROVE  /\ areas[s] \in Seq(Area) /\ OneOwner(areas[s])
         /\ \A v \in PagesIn(areas[s]) :
              IsMapped(root[s], v) /\ FindPte(root[s], v).ppn = FrameAt(areas[s], v)
         /\ \A v, w \in PagesIn(areas[s]) : FrameAt(areas[s], v) = FrameAt(areas[s], w) => v = w
         /\ op = Idle => \A v \in Vpns :
              IsMapped(root[s], v) /\ v # TrampolineVpn => v \in PagesIn(areas[s])
<1> DEFINE A == areas[s]
           B == With(areas[s], op, s)
           r == root[s]
<1>1. A \in Seq(Area) /\ OpTyped(op)
  BY DEF PagesInv, OpOK
<1>2. \A i, v : Owns(A, i, v) => Owns(B, i, v) /\ B[i] = A[i]
  BY <1>1, OwnsWith
<1>3. Leaves(pte, r, B) /\ Exclusive(tables[s], B)
  BY DEF PagesInv
<1>4. op = Idle => B = A
  <2> HIDE DEF A
  <2>1. op = Idle => With(A, op, s) = A
    BY ONLY <1>1, WithIs
  <2>2. QED
    BY <2>1 DEF A
<1> HIDE DEF A, B, r
<1>5. OneOwner(A)
  BY <1>2, <1>3 DEF OneOwner, Leaves
<1>6. ASSUME NEW v \in PagesIn(A)
      PROVE  /\ IsMapped(r, v) /\ FindPte(r, v).ppn = FrameAt(A, v)
             /\ \E i : Owns(B, i, v) /\ FrameAt(A, v) = B[i].frames[v]
  <2>1. PICK i : Owns(A, i, v) /\ FrameAt(A, v) = A[i].frames[v]
    BY <1>1, FrameFound
  <2>2. Owns(B, i, v) /\ B[i] = A[i]
    BY <1>2, <2>1
  <2>3. Maps(pte, r, v) /\ Pte(pte, r, v) = Entry(B[i].frames[v], B[i].perm)
    BY <1>3, <2>2 DEF Leaves
  <2>4. FindPte(r, v) = Pte(pte, r, v) /\ IsMapped(r, v)
    BY <2>3, WalkIs
  <2>5. Entry(B[i].frames[v], B[i].perm).ppn = B[i].frames[v]
    BY DEF Entry
  <2>6. QED
    BY <2>1, <2>2, <2>3, <2>4, <2>5
<1>7. ASSUME NEW v \in PagesIn(A), NEW w \in PagesIn(A), FrameAt(A, v) = FrameAt(A, w)
      PROVE  v = w
  BY <1>3, <1>6, <1>7 DEF Exclusive
<1>8. ASSUME op = Idle, NEW v \in Vpns, IsMapped(r, v), v # TrampolineVpn
      PROVE  v \in PagesIn(A)
  <2>1. Maps(pte, r, v)
    BY <1>8, WalkIs
  <2>2. \E i : Owns(A, i, v)
    BY <1>3, <1>4, <1>8, <2>1 DEF Leaves
  <2>3. QED
    BY <2>2 DEF PagesIn
<1>9. QED
  BY <1>1, <1>5, <1>6, <1>7, <1>8 DEF A, r

(* The view of a memory set that is complete is what its areas show.       *)
LEMMA ViewIs ==
  PagesInv => \A s \in Sets :
      View(s) = IF status[s] = "live" THEN Seen(areas[s], byte) ELSE [a \in {} |-> 0]
<1> SUFFICES ASSUME PagesInv, NEW s \in Sets
             PROVE  View(s) = IF status[s] = "live" THEN Seen(areas[s], byte)
                              ELSE [a \in {} |-> 0]
  OBVIOUS
<1>1. CASE status[s] # "live"
  BY <1>1 DEF View
<1>2. CASE status[s] = "live"
  <2> DEFINE A == areas[s]
             r == root[s]
             pages == {v \in UNION {PagesOf(areas[s][i]) : i \in 1 .. Len(areas[s])} :
                         IsMapped(root[s], v)}
  <2>1. A \in Seq(Area) /\ \A v \in PagesIn(A) : IsMapped(r, v) /\ FindPte(r, v).ppn = FrameAt(A, v)
    BY <1>2, PagesFound
  <2>2. \A v : v \in UNION {PagesOf(areas[s][i]) : i \in 1 .. Len(areas[s])}
                 <=> \E i : Owns(A, i, v)
    BY DEF Owns
  <2>3. \A i, v : Owns(A, i, v) => v \in PagesIn(A)
    BY <2>1, OwnedPages DEF PagesIn
  <2>4. pages = PagesIn(A)
    BY <2>1, <2>2, <2>3 DEF PagesIn
  <2>5. View(s) = [a \in {v * PageSize + i : v \in pages, i \in 0 .. PageSize - 1} |->
                     byte[FindPte(r, Floor(a)).ppn][PageOffset(a)]]
    BY <1>2 DEF View
  <2> HIDE DEF pages, A, r
  <2>6. View(s) = [a \in Addrs(PagesIn(A)) |-> byte[FindPte(r, Floor(a)).ppn][PageOffset(a)]]
    BY <2>4, <2>5 DEF Addrs
  <2>7. \A a \in Addrs(PagesIn(A)) : Floor(a) \in PagesIn(A)
    BY AddrsOf, PagesAreInts
  <2>8. View(s) = Seen(A, byte)
    BY <2>1, <2>6, <2>7 DEF Seen
  <2>9. QED
    BY <1>2, <2>8 DEF A
<1>3. QED
  BY <1>1, <1>2

(* The same after a step.                                                  *)
LEMMA ViewIsNext ==
  PagesInv' => (\A s \in Sets :
      View(s) = IF status[s] = "live" THEN Seen(areas[s], byte) ELSE [a \in {} |-> 0])'
BY ViewIs, PTL

(* No page is in two areas of a memory set.                                *)
LEMMA OneOwners == PagesInv => \A s \in Sets : status[s] = "live" => OneOwner(areas[s])
BY PagesFound

(* Nor after a step.                                                       *)
LEMMA OneOwnersNext ==
  PagesInv' => (\A s \in Sets : status[s] = "live" => OneOwner(areas[s]))'
BY OneOwners, PTL

-------------------------------------------------------------------------------
(* Buffers of user programs. *)

(* A word within the address space is its own virtual address.             *)
LEMMA SmallWord ==
  ASSUME NEW w \in 0 .. VaEnd - 1
  PROVE  VirtAddr(w) = w
<1> DEFINE x == w \div VaEnd
           y == w % VaEnd
<1>1. x \in Int /\ y \in 0 .. VaEnd - 1 /\ w = x * VaEnd + y
  BY Sizes, Division
<1> HIDE DEF x, y
<1>2. VaEnd \in Nat /\ 0 \in Int /\ 0 * VaEnd + w = x * VaEnd + y
  BY <1>1, Sizes
<1>3. w = y
  BY <1>1, <1>2, DivisionUnique
<1>4. QED
  BY <1>3 DEF VirtAddr, y

(* The half of the address space.                                          *)
LEMMA Half == VaEnd \div 2 \in Nat /\ VaEnd \div 2 =< VaEnd
BY Sizes

(* The lesser of two numbers.                                              *)
LEMMA MinOfTwo ==
  ASSUME NEW a \in Int, NEW b \in Int
  PROVE  Min({a, b}) = IF a =< b THEN a ELSE b
<1> DEFINE m == IF a =< b THEN a ELSE b
<1>1. m \in {a, b} /\ \A y \in {a, b} : m =< y
  OBVIOUS
<1>2. \A x \in {a, b} : (\A y \in {a, b} : x =< y) => x = m
  OBVIOUS
<1>3. QED
  BY <1>1, <1>2 DEF Min

(* Where byte a of a user program is, and the bytes from start up to end.  *)
Place(r, a) == <<FindPte(r, Floor(a)).ppn, PageOffset(a)>>
Stretch(r, start, end) == [k \in 1 .. end - start |-> Place(r, start + k - 1)]

(* The end of the slice that begins at start, and its places.              *)
SliceEnd(start, end) == Min({(Floor(VirtAddr(start)) + 1) * PageSize, VirtAddr(end)})
SliceSize(start, end) ==
    (IF PageOffset(SliceEnd(start, end)) = 0 THEN PageSize ELSE PageOffset(SliceEnd(start, end)))
      - PageOffset(VirtAddr(start))
Slice(r, start, end) ==
    [i \in 1 .. SliceSize(start, end) |->
        <<FindPte(r, Floor(VirtAddr(start))).ppn, PageOffset(start) + i - 1>>]

(* A slice ends after it begins, at the end of the page or of the buffer,  *)
(* and has the places of its bytes.                                        *)
LEMMA OneSlice ==
  ASSUME NEW r, NEW end \in Nat, end < VaEnd \div 2, NEW start \in 0 .. end - 1
  PROVE  /\ SliceEnd(start, end) \in start + 1 .. end
         /\ ToUsize(SliceEnd(start, end)) = SliceEnd(start, end)
         /\ Slice(r, start, end) = Stretch(r, start, SliceEnd(start, end))
<1> DEFINE v == Floor(start)
           o == PageOffset(start)
           P == (v + 1) * PageSize
           e == SliceEnd(start, end)
<1>0. VirtAddr(start) = start /\ VirtAddr(end) = end
  <2>1. start \in 0 .. VaEnd - 1 /\ end \in 0 .. VaEnd - 1
    BY Half, Sizes
  <2>2. QED
    BY <2>1, SmallWord
<1>a. start \in Int
  OBVIOUS
<1>1. v \in Int /\ o \in 0 .. PageSize - 1 /\ start = v * PageSize + o
  BY <1>a, AddressParts
<1> HIDE DEF v, o
<1>2. P \in Int /\ v * PageSize \in Int /\ P = v * PageSize + PageSize
  BY <1>1, Sizes
<1> HIDE DEF P
<1>3. e = IF P =< end THEN P ELSE end
  <2>1. e = Min({P, end})
    BY <1>0 DEF SliceEnd, P, v
  <2>2. QED
    BY <1>2, <2>1, MinOfTwo
<1> HIDE DEF e
<1>4. e \in Int /\ e \in start + 1 .. end /\ e =< P
  BY <1>1, <1>2, <1>3, Sizes
<1>5. ToUsize(e) = e
  BY <1>4, Half DEF ToUsize
<1>6. SliceSize(start, end) = e - start
  <2>1. CASE P =< end
    <3>1. PageOffset(e) = 0
      <4>1. v + 1 \in Int /\ 0 \in 0 .. PageSize - 1 /\ (v + 1) * PageSize + 0 = P
        BY <1>1, <1>2, Sizes DEF P
      <4>2. PageOffset((v + 1) * PageSize + 0) = 0
        BY <4>1, AddressParts
      <4>3. QED
        BY <1>3, <2>1, <4>1, <4>2
    <3>2. PageSize - o = e - start
      BY <1>1, <1>2, <1>3, <2>1, Sizes
    <3>3. QED
      BY <1>0, <3>1, <3>2 DEF SliceSize, e, o
  <2>2. CASE ~(P =< end)
    <3> DEFINE j == end - v * PageSize
    <3>1. j \in 0 .. PageSize - 1 /\ j # 0 /\ v * PageSize + j = end
      BY <1>1, <1>2, <2>2, Sizes
    <3> HIDE DEF j
    <3>2. PageOffset(v * PageSize + j) = j
      BY <1>1, <3>1, AddressParts
    <3>3. PageOffset(e) = j /\ j # 0
      BY <1>3, <2>2, <3>1, <3>2
    <3>4. j - o = e - start
      BY <1>1, <1>2, <1>3, <2>2, <3>1
    <3>5. QED
      BY <1>0, <3>3, <3>4 DEF SliceSize, e, o
  <2>3. QED
    BY <2>1, <2>2
<1>7. ASSUME NEW i \in 1 .. e - start
      PROVE  <<FindPte(r, v).ppn, o + i - 1>> = Place(r, start + i - 1)
  <2> DEFINE j == o + i - 1
  <2>1. j \in 0 .. PageSize - 1 /\ start + i - 1 = v * PageSize + j
    BY <1>1, <1>2, <1>4, Sizes
  <2> HIDE DEF j
  <2>2. Floor(v * PageSize + j) = v /\ PageOffset(v * PageSize + j) = j
    BY <1>1, <2>1, AddressParts
  <2>3. QED
    BY <2>1, <2>2 DEF Place, j
<1>8. Slice(r, start, end) = Stretch(r, start, e)
  <2>1. Slice(r, start, end) = [i \in 1 .. e - start |-> <<FindPte(r, v).ppn, o + i - 1>>]
    BY <1>0, <1>6 DEF Slice, v, o
  <2>2. QED
    BY <1>7, <2>1 DEF Stretch
<1>9. QED
  BY <1>4, <1>5, <1>8 DEF e

(* Two stretches, one after the other.                                     *)
LEMMA JoinStretches ==
  ASSUME NEW r, NEW x \in Int, NEW y \in Int, NEW z \in Int, x =< y, y =< z
  PROVE  Stretch(r, x, y) \o Stretch(r, y, z) = Stretch(r, x, z)
<1> DEFINE S == {Place(r, a) : a \in Int}
           p == Stretch(r, x, y)
           q == Stretch(r, y, z)
           t == Stretch(r, x, z)
<1>1. \A a \in Int : Place(r, a) \in S
  OBVIOUS
<1> HIDE DEF S
<1>2. p \in Seq(S) /\ Len(p) = y - x /\ \A k \in 1 .. y - x : p[k] = Place(r, x + k - 1)
  BY <1>1 DEF Stretch
<1>3. q \in Seq(S) /\ Len(q) = z - y /\ \A k \in 1 .. z - y : q[k] = Place(r, y + k - 1)
  BY <1>1 DEF Stretch
<1>4. t \in Seq(S) /\ Len(t) = z - x /\ \A k \in 1 .. z - x : t[k] = Place(r, x + k - 1)
  BY <1>1 DEF Stretch
<1> HIDE DEF p, q, t
<1> DEFINE u == p \o q
<1>5. p \in Seq(S) /\ q \in Seq(S)
  BY <1>2, <1>3
<1>6. u \in Seq(S) /\ Len(u) = Len(p) + Len(q)
  BY ONLY <1>5
<1>7. /\ \A i \in 1 .. Len(p) : u[i] = p[i]
      /\ \A i \in Len(p) + 1 .. Len(p) + Len(q) : u[i] = q[i - Len(p)]
  BY ONLY <1>5
<1> HIDE DEF u
<1>8. Len(u) = z - x
  BY <1>2, <1>3, <1>6
<1>9. ASSUME NEW i \in 1 .. z - x PROVE u[i] = t[i]
  <2>1. CASE i =< y - x
    <3>1. i \in 1 .. y - x
      BY <2>1
    <3>2. QED
      BY <1>2, <1>4, <1>7, <3>1
  <2>2. CASE ~(i =< y - x)
    <3>1. i - (y - x) \in 1 .. z - y /\ y + (i - (y - x)) - 1 = x + i - 1
          /\ i \in (y - x) + 1 .. (y - x) + (z - y)
      BY <2>2
    <3>2. u[i] = q[i - (y - x)]
      BY <1>2, <1>3, <1>7, <3>1
    <3>3. q[i - (y - x)] = Place(r, x + i - 1)
      BY <1>3, <3>1
    <3>4. QED
      BY <1>4, <3>2, <3>3
  <2>3. QED
    BY <2>1, <2>2
<1>10. u = t
  BY <1>4, <1>6, <1>8, <1>9
<1>11. QED
  BY <1>10 DEF u, p, q, t

(* The recursion of translated_byte_buffer.                                *)
Cuts(g, r, ptr, end) ==
    g = [start \in ptr .. end |->
            IF start >= end THEN <<>>
            ELSE Slice(r, start, end) \o g[ToUsize(SliceEnd(start, end))]]

(* The stretches satisfy it, and nothing else does.                        *)
LEMMA CutsAre ==
  ASSUME NEW r, NEW ptr \in Nat, NEW end \in Nat, ptr =< end, end < VaEnd \div 2
  PROVE  /\ Cuts([start \in ptr .. end |-> Stretch(r, start, end)], r, ptr, end)
         /\ \A g : Cuts(g, r, ptr, end) => g[ptr] = Stretch(r, ptr, end)
<1> DEFINE G == [start \in ptr .. end |-> Stretch(r, start, end)]
<1>1. Stretch(r, end, end) = <<>>
  BY DEF Stretch
<1>2. ASSUME NEW start \in ptr .. end, start < end
      PROVE  /\ SliceEnd(start, end) \in start + 1 .. end
             /\ SliceEnd(start, end) \in ptr .. end
             /\ ToUsize(SliceEnd(start, end)) = SliceEnd(start, end)
             /\ Slice(r, start, end) \o Stretch(r, SliceEnd(start, end), end)
                  = Stretch(r, start, end)
  <2> DEFINE e == SliceEnd(start, end)
  <2>1. start \in 0 .. end - 1
    BY <1>2
  <2>2. e \in start + 1 .. end /\ ToUsize(e) = e /\ Slice(r, start, end) = Stretch(r, start, e)
    BY <2>1, OneSlice
  <2> HIDE DEF e
  <2>3. start \in Int /\ e \in Int /\ end \in Int /\ start =< e /\ e =< end
    BY <2>2
  <2>4. Stretch(r, start, e) \o Stretch(r, e, end) = Stretch(r, start, end)
    BY ONLY <2>3, JoinStretches
  <2>5. e \in ptr .. end
    BY <1>2, <2>2
  <2>6. QED
    BY <2>2, <2>4, <2>5 DEF e
<1>3. Cuts(G, r, ptr, end)
  <2>1. ASSUME NEW start \in ptr .. end
        PROVE  Stretch(r, start, end) =
                 IF start >= end THEN <<>>
                 ELSE Slice(r, start, end) \o G[ToUsize(SliceEnd(start, end))]
    <3>1. CASE start >= end
      <4>1. start = end
        BY <3>1
      <4>2. QED
        BY <1>1, <3>1, <4>1
    <3>2. CASE ~(start >= end)
      <4>1. start < end
        BY <3>2
      <4>2. /\ SliceEnd(start, end) \in ptr .. end
            /\ ToUsize(SliceEnd(start, end)) = SliceEnd(start, end)
            /\ Slice(r, start, end) \o Stretch(r, SliceEnd(start, end), end)
                 = Stretch(r, start, end)
        BY <1>2, <4>1
      <4>3. G[ToUsize(SliceEnd(start, end))] = Stretch(r, SliceEnd(start, end), end)
        BY <4>2
      <4> HIDE DEF G
      <4>4. QED
        BY <3>2, <4>2, <4>3
    <3>3. QED
      BY <3>1, <3>2
  <2>2. QED
    BY <2>1 DEF Cuts
<1>4. ASSUME NEW g, Cuts(g, r, ptr, end) PROVE g[ptr] = Stretch(r, ptr, end)
  <2> DEFINE T == {d \in Nat : d =< end - ptr /\ g[end - d] # Stretch(r, end - d, end)}
  <2>1. T = {}
    <3> SUFFICES ASSUME T # {} PROVE FALSE
      OBVIOUS
    <3>1. T \subseteq Nat
      OBVIOUS
    <3>2. PICK d \in T : \A y \in T : d =< y
      BY <3>1, Least
    <3> DEFINE start == end - d
               e == SliceEnd(start, end)
    <3>3. d \in Nat /\ start \in ptr .. end /\ g[start] # Stretch(r, start, end)
      BY <3>2
    <3>4. g[start] = IF start >= end THEN <<>>
                     ELSE Slice(r, start, end) \o g[ToUsize(e)]
      BY <1>4, <3>3 DEF Cuts
    <3>5. CASE start >= end
      <4>1. start = end
        BY <3>3, <3>5
      <4>2. QED
        BY <1>1, <3>3, <3>4, <4>1
    <3>6. CASE start < end
      <4>1. /\ e \in start + 1 .. end /\ e \in ptr .. end /\ ToUsize(e) = e
            /\ Slice(r, start, end) \o Stretch(r, e, end) = Stretch(r, start, end)
        <5> HIDE DEF start
        <5>1. QED
          BY <1>2, <3>3, <3>6
      <4>2. g[e] = Stretch(r, e, end)
        <5> DEFINE y == end - e
        <5> HIDE DEF e
        <5>1. y \in Nat /\ y =< end - ptr /\ end - y = e /\ ~(d =< y)
          BY <3>3, <4>1
        <5> HIDE DEF y
        <5>2. y \notin T
          BY <3>2, <5>1
        <5>3. QED
          BY <5>1, <5>2
      <4>3. ~(start >= end)
        BY <3>3, <3>6
      <4> HIDE DEF e, start
      <4>4. QED
        BY <3>3, <3>4, <4>1, <4>2, <4>3
    <3>7. QED
      BY <3>3, <3>5, <3>6
  <2> DEFINE d == end - ptr
  <2>2. d \in Nat /\ d =< end - ptr /\ end - d = ptr
    OBVIOUS
  <2> HIDE DEF d
  <2>3. d \notin T
    BY <2>1, Zenon
  <2>4. QED
    BY <2>2, <2>3
<1>5. QED
  BY <1>3, <1>4

(* translated_byte_buffer returns the places of the bytes, one after the   *)
(* other, across pages.                                                    *)
LEMMA BufferPlaces ==
  ASSUME NEW r, NEW ptr, NEW len, InLowerHalf(ptr, len)
  PROVE  TranslatedByteBuffer(r, ptr, len) = Stretch(r, ptr, ptr + len)
<1> DEFINE end == ptr + len
           c == CHOOSE c : Cuts(c, r, ptr, end)
<1>1. ptr \in Nat /\ end \in Nat /\ ptr =< end /\ end < VaEnd \div 2
  BY DEF InLowerHalf
<1> HIDE DEF end
<1>2. /\ \E g : Cuts(g, r, ptr, end)
      /\ \A g : Cuts(g, r, ptr, end) => g[ptr] = Stretch(r, ptr, end)
  BY <1>1, CutsAre
<1>3. Cuts(c, r, ptr, end)
  BY <1>2
<1>4. TranslatedByteBuffer(r, ptr, len) = c[ptr]
  BY DEF TranslatedByteBuffer, Cuts, Slice, SliceSize, SliceEnd, end
<1> HIDE DEF c
<1>5. QED
  BY <1>2, <1>3, <1>4 DEF end

-------------------------------------------------------------------------------
(* What a loop has put into memory so far. *)

(* Page v of an area with a.file bytes of data.                            *)
FileBytes(a, v) ==
    [j \in 0 .. PageSize - 1 |->
        IF (v - a.start) * PageSize + j < a.file THEN (v - a.start) * PageSize + j + 1 ELSE 0]

(* The pages of the areas of a list: their data, and what they are in b.   *)
FileData(L) == [i \in 1 .. Len(L) |-> [v \in PagesOf(L[i]) |-> FileBytes(L[i], v)]]
CopyData(F, b) == [i \in 1 .. Len(F) |-> [v \in PagesOf(F[i]) |-> b[F[i].frames[v]]]]

(* The areas A are done and those of todo are left of a list L of areas    *)
(* with the pages E.                                                       *)
Planned(A, todo, L, E, b) ==
    /\ Len(L) = Len(A) + Len(todo)
    /\ \A i \in 1 .. Len(A) :
         /\ PagesOf(A[i]) = PagesOf(L[i])
         /\ \A v \in PagesOf(A[i]) : b[A[i].frames[v]] = E[i][v]
    /\ \A i \in 1 .. Len(todo) : PagesOf(todo[i]) = PagesOf(L[Len(A) + i])

(* A program is being loaded, or a memory set copied.                      *)
Loading(A, todo, prog, b) ==
    LET L == ProgramAreas(prog) IN
    /\ Planned(A, todo, L, FileData(L), b)
    /\ \A i \in 1 .. Len(todo) : todo[i] = L[Len(A) + i]
Copying(A, todo, F, b) == Planned(A, todo, F, CopyData(F, b), b)

(* What loops rely on for the bytes: pages are mapped blank, an area that  *)
(* is added to a complete memory set has no data, and a memory set that is *)
(* not complete has the pages of its plan so far.                          *)
LoadInv ==
    op # Idle =>
      /\ \A v \in Fresh(op) : byte[op.frames[v]] = ClearPage
      /\ status[op.set] = "live" =>
           Len(op.todo) = 1 /\ op.todo[1].file = 0 /\ op.from = Kernel
      /\ status[op.set] = "building" /\ op.from = Kernel =>
           \E prog \in Programs : Loading(areas[op.set], op.todo, prog, byte)
      /\ status[op.set] = "building" /\ op.from # Kernel =>
           Copying(areas[op.set], op.todo, areas[op.from], byte)

(* The frames of the pages of memory sets, and of the pages a loop has     *)
(* mapped, are different.                                                  *)
LEMMA Disjoint ==
  ASSUME PagesInv
  PROVE  /\ \A s \in Sets : PageFrames(areas[s]) \subseteq Before(s)
         /\ \A s, t \in Sets : s # t => Before(s) \cap Before(t) = {}
         /\ op # Idle => \A v \in Fresh(op) :
              /\ op.frames[v] \in Frames /\ op.frames[v] \in Before(op.set)
              /\ FindPte(root[op.set], v).ppn = op.frames[v]
              /\ \A s \in Sets : op.frames[v] \notin PageFrames(areas[s])
              /\ \A w \in Fresh(op) : op.frames[w] = op.frames[v] => w = v
<1>1. areas \in [Sets -> Seq(Area)] /\ OpTyped(op)
  BY DEF PagesInv, OpOK
<1>2. ASSUME NEW s \in Sets PROVE PageFrames(areas[s]) \subseteq PageFrames(With(areas[s], op, s))
  <2> DEFINE A == areas[s]
             B == With(areas[s], op, s)
  <2>1. \A i, v : Owns(A, i, v) => Owns(B, i, v) /\ B[i] = A[i]
    BY <1>1, OwnsWith
  <2> HIDE DEF A, B
  <2>2. PageFrames(A) \subseteq PageFrames(B)
    BY <2>1 DEF PageFrames
  <2>3. QED
    BY <2>2 DEF A, B
<1>3. \A s \in Sets : PageFrames(areas[s]) \subseteq Before(s)
  BY <1>2 DEF Before, Holds
<1>4. \A s, t \in Sets : s # t => Before(s) \cap Before(t) = {}
  BY DEF PagesInv, Once, Held, Before
<1>5. ASSUME op # Idle, NEW v \in Fresh(op)
      PROVE  /\ op.frames[v] \in Frames /\ op.frames[v] \in Before(op.set)
             /\ FindPte(root[op.set], v).ppn = op.frames[v]
             /\ \A s \in Sets : op.frames[v] \notin PageFrames(areas[s])
             /\ \A w \in Fresh(op) : op.frames[w] = op.frames[v] => w = v
  <2> DEFINE c == op.set
             A == areas[c]
             B == With(areas[c], op, c)
             n == Len(A) + 1
             f == op.frames[v]
  <2>1. c \in Sets /\ status[c] \in {"building", "live"}
    BY <1>5 DEF PagesInv, OpOK, OpTyped
  <2>2. /\ \A i, w : Owns(A, i, w) => Owns(B, i, w) /\ B[i] = A[i] /\ i # n
        /\ \A w \in Fresh(op) : Owns(B, n, w) /\ B[n].frames[w] = op.frames[w]
    BY <1>1, <1>5, <2>1, OwnsWith
  <2>3. B \in Seq(Area) /\ Leaves(pte, root[c], B) /\ Exclusive(tables[c], B)
    BY <1>1, <2>1, WithSeq DEF PagesInv
  <2>a. Before(c) = Holds(tables[c], B)
    BY DEF Before
  <2> HIDE DEF c, A, B, n
  <2>4. Owns(B, n, v) /\ B[n].frames[v] = f
    BY <1>5, <2>2
  <2>5. f \in Frames /\ f \in Before(c)
    BY <2>3, <2>4, <2>a, OwnedPages DEF Holds, PageFrames
  <2>6. FindPte(root[c], v).ppn = f
    <3>1. Pte(pte, root[c], v) = Entry(f, B[n].perm)
      BY <2>3, <2>4 DEF Leaves
    <3>2. FindPte(root[c], v) = Pte(pte, root[c], v)
      BY WalkIs
    <3> HIDE DEF f
    <3>3. Entry(f, B[n].perm).ppn = f
      BY DEF Entry
    <3>4. QED
      BY <3>1, <3>2, <3>3
  <2>7. f \notin PageFrames(A)
    <3> SUFFICES ASSUME f \in PageFrames(A) PROVE FALSE
      OBVIOUS
    <3>1. PICK i, w : Owns(A, i, w) /\ A[i].frames[w] = f
      BY DEF PageFrames
    <3>2. Owns(B, i, w) /\ B[i].frames[w] = f /\ i # n
      BY <2>2, <3>1
    <3>3. QED
      BY <2>3, <2>4, <3>2 DEF Exclusive
  <2>8. \A s \in Sets : f \notin PageFrames(areas[s])
    BY <1>3, <1>4, <2>1, <2>5, <2>7 DEF A
  <2>9. \A w \in Fresh(op) : op.frames[w] = f => w = v
    BY <2>2, <2>3, <2>4 DEF Exclusive
  <2>10. QED
    BY <2>5, <2>6, <2>8, <2>9 DEF c
<1>6. QED
  BY <1>3, <1>4, <1>5

(* Bytes that agree on the pages of a plan.                                *)
LEMMA PlannedKept ==
  ASSUME NEW A \in Seq(Area), NEW todo, NEW L, NEW E, NEW b, NEW e,
         Planned(A, todo, L, E, b), \A f \in PageFrames(A) : e[f] = b[f]
  PROVE  Planned(A, todo, L, E, e)
<1>1. ASSUME NEW i \in 1 .. Len(A), NEW v \in PagesOf(A[i])
      PROVE  e[A[i].frames[v]] = b[A[i].frames[v]]
  <2>1. Owns(A, i, v)
    BY DEF Owns
  <2>2. A[i].frames[v] \in PageFrames(A)
    BY <2>1, OwnedPages DEF PageFrames
  <2>3. QED
    BY <2>2
<1>2. QED
  BY <1>1 DEF Planned

(* The pages that are copied.                                              *)
LEMMA CopyDataKept ==
  ASSUME NEW F \in Seq(Area), NEW b, NEW e, \A f \in PageFrames(F) : e[f] = b[f]
  PROVE  CopyData(F, e) = CopyData(F, b)
<1>1. ASSUME NEW i \in 1 .. Len(F), NEW v \in PagesOf(F[i])
      PROVE  e[F[i].frames[v]] = b[F[i].frames[v]]
  <2>1. Owns(F, i, v)
    BY DEF Owns
  <2>2. F[i].frames[v] \in PageFrames(F)
    BY <2>1, OwnedPages DEF PageFrames
  <2>3. QED
    BY <2>2
<1>2. QED
  BY <1>1 DEF CopyData

(* Bytes change in no page of the memory set that is built nor of the one  *)
(* that is copied.                                                         *)
LEMMA PlansKept ==
  ASSUME NEW A \in Seq(Area), NEW F \in Seq(Area), NEW todo, NEW b, NEW e,
         \A f \in PageFrames(A) \cup PageFrames(F) : e[f] = b[f]
  PROVE  /\ \A prog : Loading(A, todo, prog, b) => Loading(A, todo, prog, e)
         /\ Copying(A, todo, F, b) => Copying(A, todo, F, e)
<1>1. ASSUME NEW prog, Loading(A, todo, prog, b) PROVE Loading(A, todo, prog, e)
  <2> DEFINE L == ProgramAreas(prog)
  <2>1. Planned(A, todo, L, FileData(L), b)
    BY <1>1 DEF Loading
  <2>2. Planned(A, todo, L, FileData(L), e)
    BY <2>1, PlannedKept
  <2>3. QED
    BY <1>1, <2>2 DEF Loading
<1>2. ASSUME Copying(A, todo, F, b) PROVE Copying(A, todo, F, e)
  <2> DEFINE E == CopyData(F, b)
  <2>1. Planned(A, todo, F, E, b)
    BY <1>2 DEF Copying
  <2>2. CopyData(F, e) = E
    BY CopyDataKept
  <2> HIDE DEF E
  <2>3. Planned(A, todo, F, E, e)
    BY <2>1, PlannedKept
  <2>4. QED
    BY <2>2, <2>3 DEF Copying
<1>3. QED
  BY <1>1, <1>2

(* Initially no loop is running, and a loop that is over leaves nothing to *)
(* show.                                                                   *)
LEMMA IdleLoads == (op = Idle => LoadInv) /\ (op' = Idle => LoadInv')
BY DEF LoadInv

(* A panic leaves everything as it is.                                     *)
LEMMA PanicLoads ==
  ASSUME LoadInv, NEW why, Panic(why)
  PROVE  LoadInv'
BY DEF LoadInv, Panic, Fresh

(* A memory set is begun: nothing is done yet.                             *)
LEMMA NewSetLoads ==
  ASSUME PagesInv, LoadInv, NEW s, NEW from \in Sets, NEW todo \in Seq(Todo), todo # <<>>,
         NewSet(s, from, todo),
         from = Kernel => \E prog \in Programs : todo = ProgramAreas(prog),
         from # Kernel => /\ from # s /\ Len(todo) = Len(areas[from])
                          /\ \A i \in 1 .. Len(todo) : PagesOf(todo[i]) = PagesOf(areas[from][i])
  PROVE  LoadInv'
<1> DEFINE o == Running(s, from, todo)
<1>0. s \in Sets /\ status[s] = "none"
  BY DEF NewSet, Sets
<1>1. CASE ~Fits(3) /\ Panic("oom")
  BY <1>1, PanicLoads
<1>2. CASE /\ op' = o /\ areas' = areas /\ status' = [status EXCEPT ![s] = "building"]
  <2>1. o # Idle /\ o.set = s /\ o.from = from /\ o.todo = todo /\ o.next = todo[1].start
    <3>1. o # Idle /\ o.set = s /\ o.from = from /\ o.todo = todo
      BY <1>0, RunningFacts
    <3>2. QED
      BY <3>1 DEF Running
  <2> HIDE DEF o
  <2>2. Fresh(o) = {}
    <3> DEFINE x == todo[1].start
    <3>1. todo[1] \in Todo
      OBVIOUS
    <3>2. x \in Int
      BY <3>1, Sizes DEF Todo, Bounds
    <3> HIDE DEF x
    <3>3. x .. x - 1 = {}
      BY <3>2
    <3>4. QED
      BY <2>1, <3>3 DEF Fresh, x
  <2>3. status'[s] = "building" /\ areas[s] = <<>> /\ areas \in [Sets -> Seq(Area)]
    BY <1>0, <1>2 DEF PagesInv, PageTypeOK, StatusOK
  <2>4. /\ Len(<<>>) = 0 /\ Len(todo) \in Nat /\ \A i \in 1 .. Len(todo) : 0 + i = i
        /\ 1 .. 0 = {} /\ 0 + Len(todo) = Len(todo)
    OBVIOUS
  <2>5. ASSUME NEW L, NEW E, NEW b, Len(L) = Len(todo),
               \A i \in 1 .. Len(todo) : PagesOf(todo[i]) = PagesOf(L[i])
        PROVE  Planned(<<>>, todo, L, E, b)
    <3>1. Len(L) = Len(<<>>) + Len(todo)
      BY <2>4, <2>5
    <3>2. \A i \in 1 .. Len(todo) : PagesOf(todo[i]) = PagesOf(L[Len(<<>>) + i])
      BY <2>4, <2>5
    <3>3. 1 .. Len(<<>>) = {}
      BY <2>4
    <3>4. QED
      BY <3>1, <3>2, <3>3 DEF Planned
  <2>6. ASSUME from = Kernel
        PROVE  \E prog \in Programs : Loading(<<>>, todo, prog, byte')
    <3>1. PICK prog \in Programs : todo = ProgramAreas(prog)
      BY <2>6
    <3> DEFINE L == ProgramAreas(prog)
    <3>2. Planned(<<>>, todo, L, FileData(L), byte')
      BY <2>5, <3>1
    <3>3. \A i \in 1 .. Len(todo) : todo[i] = L[Len(<<>>) + i]
      BY <2>4, <3>1
    <3>4. Loading(<<>>, todo, prog, byte')
      BY <3>2, <3>3 DEF Loading
    <3>5. QED
      BY <3>4
  <2>7. ASSUME from # Kernel
        PROVE  Copying(<<>>, todo, areas[from], byte')
    BY <2>5, <2>7 DEF Copying
  <2>8. QED
    BY <1>2, <2>1, <2>2, <2>3, <2>6, <2>7 DEF LoadInv
<1>3. QED
  BY <1>1, <1>2 DEF NewSet

(* from_elf begins with the areas of the program.                          *)
LEMMA FromElfLoads ==
  ASSUME PagesInv, LoadInv, NEW s \in UserSets, NEW prog \in Programs, FromElf(s, prog)
  PROVE  LoadInv'
<1>1. Kernel \in Sets
  BY DEF Sets
<1>2. NewSet(s, Kernel, ProgramAreas(prog))
  BY DEF FromElf
<1>3. QED
  BY <1>1, <1>2, ProgramAreasTodo, NewSetLoads

(* from_existed_user begins with the areas of the other memory set.        *)
LEMMA FromExistedUserLoads ==
  ASSUME PagesInv, LoadInv, NEW s \in UserSets, NEW t \in UserSets, FromExistedUser(s, t)
  PROVE  LoadInv'
<1> DEFINE A == areas[s]
           todo == [i \in 1 .. Len(A) |-> FromAnother(A[i])]
<1>1. s \in Sets /\ s # Kernel /\ status[s] = "live" /\ NewSet(t, s, todo) /\ s # t
  <2>1. s \in Sets /\ s # Kernel /\ status[s] = "live" /\ NewSet(t, s, todo)
    BY PageAssumption DEF FromExistedUser, Sets
  <2>2. status[t] = "none"
    BY <2>1 DEF NewSet
  <2>3. QED
    BY <2>1, <2>2
<1>2. A \in Seq(Area) /\ A # <<>>
  BY <1>1 DEF PagesInv, StatusOK
<1>3. Len(A) \in Nat /\ Len(A) > 0
  BY <1>2
<1>4. \A i \in 1 .. Len(A) : FromAnother(A[i]) \in Todo /\ PagesOf(FromAnother(A[i])) = PagesOf(A[i])
  <2>1. ASSUME NEW i \in 1 .. Len(A)
        PROVE  FromAnother(A[i]) \in Todo /\ PagesOf(FromAnother(A[i])) = PagesOf(A[i])
    <3>1. A[i] \in Area
      BY <1>2
    <3>2. A[i].start \in Bounds /\ A[i].end \in Bounds /\ A[i].perm \in SUBSET Perms
      BY <3>1, AreaFields
    <3>3. QED
      BY <3>2 DEF FromAnother, Todo, PagesOf
  <2>2. QED
    BY <2>1
<1>5. todo \in Seq(Todo) /\ todo # <<>> /\ Len(todo) = Len(A)
  BY <1>3, <1>4
<1>6. \A i \in 1 .. Len(todo) : PagesOf(todo[i]) = PagesOf(A[i])
  BY <1>4, <1>5
<1> HIDE DEF todo
<1>7. QED
  BY <1>1, <1>5, <1>6, NewSetLoads

(* insert_framed_area begins: one area, without data.                      *)
LEMMA InsertLoads ==
  ASSUME PagesInv, NEW s \in Sets, status[s] = "live", NEW x \in Int, NEW y \in Int,
         NEW p \in SUBSET Perms, InsertFramedArea(s, x, y, p)
  PROVE  LoadInv'
<1> DEFINE a == NewArea(x, y, p, 0)
           todo == <<a>>
           o == Running(s, Kernel, todo)
<1>1. a \in Todo /\ a.file = 0
  <2>1. a \in Todo
    BY NewAreaTodo
  <2>2. QED
    BY <2>1 DEF NewArea
<1>2. op' = o /\ status' = status
  BY DEF InsertFramedArea
<1> HIDE DEF a
<1>3. todo \in Seq(Todo) /\ Len(todo) = 1 /\ todo[1] = a /\ todo # <<>>
  BY <1>1
<1> HIDE DEF todo
<1>4. o.set = s /\ o.from = Kernel /\ o.todo = todo /\ o.next = a.start
  BY <1>3 DEF Running
<1> HIDE DEF o
<1>5. Fresh(o) = {}
  <2> DEFINE z == a.start
  <2>1. z \in Int
    BY <1>1, Sizes DEF Todo, Bounds
  <2> HIDE DEF z
  <2>2. z .. z - 1 = {}
    BY <2>1
  <2>3. QED
    BY <1>3, <1>4, <2>2 DEF Fresh, z
<1>6. QED
  BY <1>1, <1>2, <1>3, <1>4, <1>5 DEF LoadInv

(* map_one clears frames that nobody held.                                 *)
LEMMA MapOneBytes ==
  ASSUME PagesInv, MapOne
  PROVE  \A s \in Sets, g \in Frames : g \in Before(s) => byte'[g] = byte[g]
<1> DEFINE n == 1 + Missing(root[op.set], op.next)
<1>1. \/ byte' = byte
      \/ Fits(n) /\ byte' = Cleared(byte, Alloc(n), ClearPage)
  BY DEF MapOne, Panic
<1>2. n \in Nat
  BY WalkIs
<1> HIDE DEF n
<1>3. CASE Fits(n) /\ byte' = Cleared(byte, Alloc(n), ClearPage)
  <2>1. \A s \in Sets : Before(s) \cap ToSet(Alloc(n)) = {}
    BY <1>2, <1>3, TakenApart
  <2>2. QED
    BY <1>3, <2>1 DEF Cleared
<1>4. QED
  BY <1>1, <1>3

(* A page more, and it is blank.                                           *)
LEMMA MapOneLoads ==
  ASSUME PagesInv, LoadInv, MapOne
  PROVE  LoadInv'
<1>c. PICK c : c = op.set
  OBVIOUS
<1> DEFINE v == op.next
           n == 1 + Missing(root[c], v)
           a == Alloc(n)
           f == a[1]
<1>0. /\ op # Idle /\ OpTyped(op) /\ c \in Sets /\ op.from \in Sets
      /\ op.todo \in Seq(Todo) /\ op.todo # <<>> /\ v < Head(op.todo).end
      /\ areas \in [Sets -> Seq(Area)]
  BY <1>c DEF PagesInv, OpOK, OpTyped, MapOne
<1>1. Head(op.todo) = op.todo[1] /\ op.todo[1] \in Todo
  BY <1>0
<1>2. v \in Vpns
  <2>1. v \in Bounds /\ op.todo[1].end \in Bounds
    BY <1>0, <1>1 DEF OpTyped, Todo
  <2>2. v < op.todo[1].end
    BY <1>0, <1>1
  <2> HIDE DEF v
  <2>3. QED
    BY <2>1, <2>2, Sizes DEF Bounds, Vpns
<1>3. CASE \E why : Panic(why)
  BY <1>3, PanicLoads
<1>4. CASE /\ Fits(n) /\ byte' = Cleared(byte, a, ClearPage) /\ op' = Round(op, f)
           /\ areas' = areas /\ status' = status
  <2>1. n \in Nat /\ n >= 1
    BY WalkIs
  <2>2. a \in Seq(Frames) /\ Len(a) = n
    <3> HIDE DEF n
    <3>1. QED
      BY <1>4, <2>1, TakenApart
  <2>3. f \in Frames /\ f \in ToSet(a)
    <3> HIDE DEF a, n
    <3>1. 1 \in 1 .. Len(a)
      BY <2>1, <2>2
    <3>2. QED
      BY <2>2, <3>1 DEF ToSet
  <2>4. byte'[f] = ClearPage
    BY <1>4, <2>3 DEF Cleared
  <2>5. \A s \in Sets, g \in Frames : g \in Before(s) => byte'[g] = byte[g]
    BY MapOneBytes
  <2>6. /\ op' # Idle /\ op'.set = c /\ op'.from = op.from /\ op'.todo = op.todo
    BY <1>c, <1>0, <1>2, <1>4, <2>3, RoundFacts
  <2>7. /\ op'.next = v + 1
        /\ op'.frames = [w \in op.todo[1].start .. v |-> IF w = v THEN f ELSE op.frames[w]]
    <3>1. op = [set |-> op.set, from |-> op.from, todo |-> op.todo, next |-> op.next,
                frames |-> op.frames]
      BY <1>0 DEF OpTyped
    <3>2. QED
      BY <1>1, <1>4, <3>1 DEF Round
  <2> HIDE DEF f, a, n
  <2>8. ASSUME NEW w \in Fresh(op') PROVE byte'[op'.frames[w]] = ClearPage
    <3> DEFINE x == op.todo[1].start
    <3>1. x \in Int /\ v \in Int
      BY <1>1, <1>2, Sizes DEF Todo, Bounds, Vpns
    <3>2. Fresh(op') = x .. v /\ Fresh(op) = x .. v - 1
      <4>1. op'.todo[1].start = x /\ op'.next = v + 1
        BY <2>6, <2>7
      <4>2. Fresh(op') = x .. (v + 1) - 1 /\ Fresh(op) = x .. v - 1
        BY <4>1 DEF Fresh
      <4> HIDE DEF v, x
      <4>3. (v + 1) - 1 = v
        BY <3>1
      <4>4. QED
        BY <4>2, <4>3
    <3> HIDE DEF v, x
    <3>3. w = v \/ w \in Fresh(op)
      BY <3>1, <3>2
    <3>4. w \in x .. v
      BY <3>2
    <3>5. op'.frames[w] = IF w = v THEN f ELSE op.frames[w]
      BY <2>7, <3>4 DEF x
    <3>6. CASE w = v
      BY <2>4, <3>5, <3>6
    <3>7. CASE w # v
      <4>1. w \in Fresh(op)
        BY <3>3, <3>7
      <4>2. op.frames[w] \in Frames /\ op.frames[w] \in Before(c)
        BY <1>c, <1>0, <4>1, Disjoint
      <4>3. byte[op.frames[w]] = ClearPage
        BY <1>0, <4>1 DEF LoadInv
      <4>4. QED
        BY <1>0, <2>5, <3>5, <3>7, <4>2, <4>3
    <3>8. QED
      BY <3>6, <3>7
  <2>9. \A s \in Sets : \A g \in PageFrames(areas[s]) : byte'[g] = byte[g]
    BY <2>5, Disjoint DEF PageFrames
  <2>10. /\ \A prog : Loading(areas[c], op.todo, prog, byte) =>
                        Loading(areas[c], op.todo, prog, byte')
         /\ Copying(areas[c], op.todo, areas[op.from], byte) =>
              Copying(areas[c], op.todo, areas[op.from], byte')
    <3> DEFINE A == areas[c]
               F == areas[op.from]
               todo == op.todo
               e == byte'
    <3>1. A \in Seq(Area) /\ F \in Seq(Area)
      BY <1>0
    <3>2. \A g \in PageFrames(A) \cup PageFrames(F) : e[g] = byte[g]
      BY <1>0, <2>9
    <3> HIDE DEF A, F, todo, e
    <3>3. /\ \A prog : Loading(A, todo, prog, byte) => Loading(A, todo, prog, e)
          /\ Copying(A, todo, F, byte) => Copying(A, todo, F, e)
      BY ONLY <3>1, <3>2, PlansKept
    <3>4. QED
      BY <3>3 DEF A, F, todo, e
  <2>11. /\ status[c] = "live" =>
              Len(op.todo) = 1 /\ op.todo[1].file = 0 /\ op.from = Kernel
         /\ status[c] = "building" /\ op.from = Kernel =>
              \E prog \in Programs : Loading(areas[c], op.todo, prog, byte)
         /\ status[c] = "building" /\ op.from # Kernel =>
              Copying(areas[c], op.todo, areas[op.from], byte)
    BY <1>c, <1>0 DEF LoadInv
  <2>12. /\ status'[op'.set] = status[c] /\ areas'[op'.set] = areas[c]
         /\ areas'[op'.from] = areas[op.from] /\ op'.todo = op.todo /\ op'.from = op.from
    BY <1>4, <2>6
  <2>13. /\ status'[op'.set] = "building" /\ op'.from = Kernel =>
              \E prog \in Programs : Loading(areas'[op'.set], op'.todo, prog, byte')
         /\ status'[op'.set] = "building" /\ op'.from # Kernel =>
              Copying(areas'[op'.set], op'.todo, areas'[op'.from], byte')
    BY <2>10, <2>11, <2>12
  <2>14. status'[op'.set] = "live" =>
              Len(op'.todo) = 1 /\ op'.todo[1].file = 0 /\ op'.from = Kernel
    BY <2>11, <2>12
  <2>15. QED
    BY <2>8, <2>13, <2>14 DEF LoadInv
<1>5. QED
  BY <1>c, <1>3, <1>4 DEF MapOne, Round

(* One area of a plan is done.                                             *)
LEMMA PlannedPush ==
  ASSUME NEW A \in Seq(Area), NEW todo \in Seq(Todo), todo # <<>>, NEW L, NEW E, NEW b, NEW e,
         Planned(A, todo, L, E, b), \A f \in PageFrames(A) : e[f] = b[f],
         NEW a \in Area, PagesOf(a) = PagesOf(todo[1]),
         \A v \in PagesOf(a) : e[a.frames[v]] = E[Len(A) + 1][v]
  PROVE  Planned(A \o <<a>>, Tail(todo), L, E, e)
<1> DEFINE B == A \o <<a>>
           k == Len(A)
<1>1. Planned(A, todo, L, E, e)
  BY PlannedKept
<1>2. /\ Len(B) = k + 1 /\ \A i \in 1 .. k : B[i] = A[i]
      /\ B[k + 1] = a /\ k \in Nat
  BY OneMore
<1>3. /\ Len(todo) \in Nat /\ Len(Tail(todo)) = Len(todo) - 1 /\ 1 \in 1 .. Len(todo)
      /\ \A i \in 1 .. Len(Tail(todo)) : i + 1 \in 1 .. Len(todo) /\ Tail(todo)[i] = todo[i + 1]
  BY TailFacts
<1> DEFINE rest == Tail(todo)
<1>a. /\ Len(L) = k + Len(todo)
      /\ \A i \in 1 .. k : /\ PagesOf(A[i]) = PagesOf(L[i])
                           /\ \A v \in PagesOf(A[i]) : e[A[i].frames[v]] = E[i][v]
      /\ \A i \in 1 .. Len(todo) : PagesOf(todo[i]) = PagesOf(L[k + i])
  BY <1>1 DEF Planned
<1> HIDE DEF B, k, rest
<1>4. Len(L) = Len(B) + Len(rest)
  BY <1>2, <1>3, <1>a DEF rest
<1>5. ASSUME NEW i \in 1 .. Len(B)
      PROVE  PagesOf(B[i]) = PagesOf(L[i]) /\ \A v \in PagesOf(B[i]) : e[B[i].frames[v]] = E[i][v]
  <2>1. CASE i = k + 1
    BY <1>2, <1>3, <1>a, <2>1 DEF k
  <2>2. CASE i # k + 1
    <3>1. i \in 1 .. k
      BY <1>2, <2>2
    <3>2. QED
      BY <1>2, <1>a, <3>1
  <2>3. QED
    BY <2>1, <2>2
<1>6. ASSUME NEW i \in 1 .. Len(rest) PROVE PagesOf(rest[i]) = PagesOf(L[Len(B) + i])
  <2>1. i + 1 \in 1 .. Len(todo) /\ rest[i] = todo[i + 1]
    BY <1>3 DEF rest
  <2>2. Len(B) + i = k + (i + 1)
    BY <1>2
  <2>3. QED
    BY <1>a, <2>1, <2>2
<1>7. Planned(B, rest, L, E, e)
  BY <1>4, <1>5, <1>6 DEF Planned
<1>8. QED
  BY <1>7 DEF B, rest

(* The end of push: what is put into the pages of the area, and that no    *)
(* page of an area that was complete before changes.                       *)
LEMMA PushedBytes ==
  ASSUME PagesInv, LoadInv, PushArea
  PROVE  /\ Fresh(op) = PagesOf(op.todo[1])
         /\ op.from = Kernel => \A v \in Fresh(op) :
              byte'[op.frames[v]] = FileBytes(op.todo[1], v)
         /\ op.from # Kernel => \A v \in Fresh(op) :
              byte'[op.frames[v]] = byte[FindPte(root[op.from], v).ppn]
         /\ \A s \in Sets : \A g \in PageFrames(areas[s]) : byte'[g] = byte[g]
<1>c. PICK c : c = op.set
  OBVIOUS
<1> DEFINE h == op.todo[1]
           area == MapArea(Head(op.todo), op.frames)
           V == Fresh(op)
           fr == op.frames
<1>0. /\ op # Idle /\ OpTyped(op) /\ c \in Sets /\ op.from \in Sets
      /\ op.todo \in Seq(Todo) /\ op.todo # <<>> /\ op.next = Head(op.todo).end
      /\ byte' = IF op.from # Kernel THEN Copied(area) ELSE Loaded(area, Head(op.todo).file)
  BY <1>c DEF PagesInv, OpOK, OpTyped, PushArea
<1>1. Head(op.todo) = h /\ h \in Todo
  BY <1>0
<1>2. PagesOf(area) = V /\ area.start = h.start /\ V = PagesOf(h)
  BY <1>0, <1>1 DEF MapArea, PagesOf, Fresh
<1>3. \A v \in V : /\ fr[v] \in Frames /\ FindPte(root[c], v).ppn = fr[v]
                   /\ \A s \in Sets : fr[v] \notin PageFrames(areas[s])
                   /\ \A w \in V : fr[w] = fr[v] => w = v
                   /\ byte[fr[v]] = ClearPage
  BY <1>c, <1>0, Disjoint DEF LoadInv
<1> HIDE DEF area, V, fr
<1>4. ASSUME NEW g \in Frames, ~\E v \in V : FindPte(root[c], v).ppn = g PROVE byte'[g] = byte[g]
  BY <1>c, <1>0, <1>2, <1>4 DEF Copied, Loaded
<1>5. \A s \in Sets : \A g \in PageFrames(areas[s]) : byte'[g] = byte[g]
  BY <1>3, <1>4 DEF PageFrames
<1>6. ASSUME NEW v \in V
      PROVE  /\ \E w \in V : FindPte(root[c], w).ppn = fr[v]
             /\ (CHOOSE w \in V : FindPte(root[c], w).ppn = fr[v]) = v
  BY <1>3
<1>7. ASSUME op.from # Kernel, NEW v \in V
      PROVE  byte'[fr[v]] = byte[FindPte(root[op.from], v).ppn]
  <2> DEFINE f == fr[v]
  <2>1. byte' = Copied(area) /\ f \in Frames
    BY <1>0, <1>3, <1>7
  <2>2. byte'[f] = IF \E w \in V : FindPte(root[c], w).ppn = f
                   THEN byte[FindPte(root[op.from], CHOOSE w \in V : FindPte(root[c], w).ppn = f).ppn]
                   ELSE byte[f]
    BY <1>c, <1>2, <2>1 DEF Copied
  <2>3. QED
    BY <1>6, <2>2
<1>8. ASSUME op.from = Kernel, NEW v \in V
      PROVE  byte'[fr[v]] = FileBytes(h, v)
  <2> DEFINE f == fr[v]
             w == CHOOSE w \in V : FindPte(root[c], w).ppn = f
             start == (v - h.start) * PageSize
  <2>1. byte' = Loaded(area, h.file) /\ f \in Frames
    BY <1>0, <1>1, <1>3, <1>8
  <2>2. byte'[f] = IF \E u \in V : FindPte(root[c], u).ppn = f
                   THEN [i \in 0 .. PageSize - 1 |->
                           IF (w - h.start) * PageSize + i < h.file
                           THEN (w - h.start) * PageSize + i + 1 ELSE byte[f][i]]
                   ELSE byte[f]
    BY <1>c, <1>2, <2>1 DEF Loaded
  <2>3. (\E u \in V : FindPte(root[c], u).ppn = f) /\ w = v
    BY <1>6
  <2> HIDE DEF w
  <2>4. byte'[f] = [i \in 0 .. PageSize - 1 |-> IF start + i < h.file THEN start + i + 1 ELSE byte[f][i]]
    BY <2>2, <2>3
  <2>5. \A i \in 0 .. PageSize - 1 : byte[f][i] = 0
    <3>1. byte[f] = ClearPage
      BY <1>3
    <3> HIDE DEF f
    <3>2. QED
      BY <3>1 DEF ClearPage
  <2> HIDE DEF f, h
  <2>6. QED
    BY <2>4, <2>5 DEF FileBytes, f
<1>9. QED
  BY <1>2, <1>5, <1>7, <1>8 DEF V, fr

(* The areas after the end of push.                                        *)
LEMMA PushedAreas ==
  ASSUME PagesInv, PushArea, NEW c, c = op.set
  PROVE  /\ MapArea(op.todo[1], op.frames) \in Area
         /\ areas[c] \in Seq(Area) /\ c \in Sets
         /\ areas'[c] = areas[c] \o <<MapArea(op.todo[1], op.frames)>>
         /\ \A s \in Sets : s # c => areas'[s] = areas[s] /\ status'[s] = status[s]
         /\ Tail(op.todo) = <<>> => op' = Idle /\ status'[c] = "live"
         /\ Tail(op.todo) # <<>> => op' = Running(c, op.from, Tail(op.todo)) /\ status' = status
<1> DEFINE a == MapArea(op.todo[1], op.frames)
<1>0. /\ op # Idle /\ OpTyped(op) /\ c \in Sets
      /\ op.todo \in Seq(Todo) /\ op.todo # <<>> /\ op.next = Head(op.todo).end
      /\ areas \in [Sets -> Seq(Area)]
      /\ status \in [Sets -> {"none", "building", "live", "exited"}]
  BY DEF PagesInv, OpOK, OpTyped, PushArea, PageTypeOK
<1>1. op.todo[1] \in Todo /\ Head(op.todo) = op.todo[1]
  BY <1>0
<1>2. a = Growing(op)
  <2>1. [Head(op.todo) EXCEPT !.end = op.next] = Head(op.todo)
    BY <1>0, <1>1 DEF Todo
  <2>2. QED
    BY <1>1, <2>1 DEF Growing
<1>3. /\ areas' = [areas EXCEPT ![c] = Append(@, a)]
      /\ op' = IF Tail(op.todo) = <<>> THEN Idle ELSE Running(c, op.from, Tail(op.todo))
      /\ status' = IF Tail(op.todo) = <<>> THEN [status EXCEPT ![c] = "live"] ELSE status
  BY <1>1 DEF PushArea
<1> HIDE DEF a
<1>4. a \in Area /\ areas[c] \in Seq(Area)
  BY <1>0, <1>2, WithIs
<1>5. Append(areas[c], a) = areas[c] \o <<a>>
  BY <1>4, OneMore
<1>6. areas'[c] = areas[c] \o <<a>> /\ \A s \in Sets : s # c => areas'[s] = areas[s]
  BY <1>0, <1>3, <1>5
<1>7. /\ \A s \in Sets : s # c => status'[s] = status[s]
      /\ Tail(op.todo) = <<>> => op' = Idle /\ status'[c] = "live"
      /\ Tail(op.todo) # <<>> => op' = Running(c, op.from, Tail(op.todo)) /\ status' = status
  BY <1>0, <1>3
<1>8. QED
  BY <1>0, <1>4, <1>6, <1>7 DEF a

(* The plan after the end of push.                                         *)
LEMMA PushedPlan ==
  ASSUME PagesInv, LoadInv, PushArea, NEW c, c = op.set, status[c] = "building"
  PROVE  /\ op.from = Kernel =>
              \E prog \in Programs : Loading(areas'[c], Tail(op.todo), prog, byte')
         /\ op.from # Kernel => Copying(areas'[c], Tail(op.todo), areas[op.from], byte')
<1> DEFINE a == MapArea(op.todo[1], op.frames)
           A == areas[c]
           todo == op.todo
           h == op.todo[1]
           e == byte'
           rest == Tail(op.todo)
           k == Len(areas[c])
<1>1. /\ a \in Area /\ A \in Seq(Area) /\ c \in Sets /\ areas'[c] = A \o <<a>>
  BY PushedAreas
<1>2. /\ op # Idle /\ todo \in Seq(Todo) /\ todo # <<>> /\ op.from \in Sets
      /\ areas \in [Sets -> Seq(Area)] /\ OpTyped(op)
  BY DEF PagesInv, OpOK, OpTyped, PushArea
<1>3. PagesOf(a) = PagesOf(h) /\ a.frames = op.frames
  BY DEF MapArea, PagesOf
<1>4. /\ Fresh(op) = PagesOf(h)
      /\ op.from = Kernel => \A v \in PagesOf(h) : e[op.frames[v]] = FileBytes(h, v)
      /\ op.from # Kernel => \A v \in PagesOf(h) :
           e[op.frames[v]] = byte[FindPte(root[op.from], v).ppn]
      /\ \A s \in Sets : \A g \in PageFrames(areas[s]) : e[g] = byte[g]
  BY PushedBytes
<1>5. \A g \in PageFrames(A) : e[g] = byte[g]
  BY <1>1, <1>4
<1>6. /\ Len(todo) \in Nat /\ Len(rest) = Len(todo) - 1 /\ 1 \in 1 .. Len(todo) /\ k \in Nat
      /\ \A i \in 1 .. Len(rest) : i + 1 \in 1 .. Len(todo) /\ rest[i] = todo[i + 1]
      /\ Len(A \o <<a>>) = k + 1
  <2>1. Len(todo) \in Nat /\ Len(rest) = Len(todo) - 1 /\ 1 \in 1 .. Len(todo) /\ k \in Nat
    BY <1>1, <1>2
  <2>2. \A i \in 1 .. Len(rest) : i + 1 \in 1 .. Len(todo) /\ rest[i] = todo[i + 1]
    BY <1>2, TailFacts
  <2>3. Len(A \o <<a>>) = k + 1
    <3> HIDE DEF a
    <3>1. QED
      BY <1>1, OneMore
  <2>4. QED
    BY <2>1, <2>2, <2>3
<1>7. ASSUME op.from = Kernel
      PROVE  \E prog \in Programs : Loading(areas'[c], rest, prog, e)
  <2>1. PICK prog \in Programs : Loading(A, todo, prog, byte)
    BY <1>2, <1>7 DEF LoadInv
  <2> DEFINE L == ProgramAreas(prog)
             E == FileData(L)
  <2>2. /\ Planned(A, todo, L, E, byte)
        /\ \A i \in 1 .. Len(todo) : todo[i] = L[k + i]
    BY <2>1 DEF Loading
  <2>3. Len(L) = k + Len(todo)
    BY <2>2 DEF Planned
  <2>4. h = L[k + 1] /\ k + 1 \in 1 .. Len(L)
    <3>1. todo[1] = L[k + 1]
      BY <1>6, <2>2
    <3> HIDE DEF k, todo, L
    <3>2. k + 1 \in 1 .. Len(L)
      BY <1>6, <2>3
    <3>3. QED
      BY <3>1, <3>2 DEF todo
  <2>5. \A v \in PagesOf(a) : e[a.frames[v]] = E[k + 1][v]
    <3>1. \A v \in PagesOf(h) : E[k + 1][v] = FileBytes(h, v)
      <4> HIDE DEF k, L, h
      <4>1. QED
        BY <2>4 DEF FileData
    <3> HIDE DEF E, h, k
    <3>2. QED
      BY <1>3, <1>4, <1>7, <3>1
  <2> HIDE DEF a, A, todo, e, L, E
  <2>6. Planned(A \o <<a>>, Tail(todo), L, E, e)
    <3>1. /\ A \in Seq(Area) /\ todo \in Seq(Todo) /\ todo # <<>> /\ a \in Area
          /\ Planned(A, todo, L, E, byte)
          /\ \A g \in PageFrames(A) : e[g] = byte[g]
          /\ PagesOf(a) = PagesOf(todo[1])
          /\ \A v \in PagesOf(a) : e[a.frames[v]] = E[Len(A) + 1][v]
      BY <1>1, <1>2, <1>3, <1>5, <2>2, <2>5 DEF h, todo, k, A
    <3>2. QED
      BY ONLY <3>1, PlannedPush
  <2>7. \A i \in 1 .. Len(rest) : rest[i] = L[Len(A \o <<a>>) + i]
    <3> SUFFICES ASSUME NEW i \in 1 .. Len(rest) PROVE rest[i] = L[Len(A \o <<a>>) + i]
      OBVIOUS
    <3> HIDE DEF rest, k
    <3>1. (k + 1) + i = k + (i + 1)
      BY <1>6
    <3>2. QED
      BY <1>6, <2>2, <3>1
  <2>8. Loading(A \o <<a>>, rest, prog, e)
    BY <2>6, <2>7 DEF Loading, E, L, todo
  <2>9. QED
    BY <1>1, <2>8
<1>8. ASSUME op.from # Kernel
      PROVE  Copying(areas'[c], rest, areas[op.from], e)
  <2> DEFINE F == areas[op.from]
             E == CopyData(F, byte)
             t == op.from
  <2>1. Planned(A, todo, F, E, byte)
    BY <1>2, <1>8 DEF LoadInv, Copying
  <2>2. Len(F) = k + Len(todo) /\ \A i \in 1 .. Len(todo) : PagesOf(todo[i]) = PagesOf(F[k + i])
    BY <2>1 DEF Planned
  <2>3. PagesOf(h) = PagesOf(F[k + 1]) /\ k + 1 \in 1 .. Len(F)
    <3>1. PagesOf(todo[1]) = PagesOf(F[k + 1])
      BY <1>6, <2>2
    <3> HIDE DEF k, todo, F
    <3>2. k + 1 \in 1 .. Len(F)
      BY <1>6, <2>2
    <3>3. QED
      BY <3>1, <3>2 DEF todo
  <2>4. F \in Seq(Area) /\ t \in Sets /\ t # c /\ status[t] = "live"
    BY <1>2, <1>8 DEF PagesInv, OpOK
  <2>5. Leaves(pte, root[t], F)
    <3>1. With(F, op, t) = F
      <4>1. OpTyped(op) /\ F \in Seq(Area) /\ op.set # t
        BY <1>2, <2>4
      <4> HIDE DEF F, t
      <4>2. QED
        BY ONLY <4>1, WithIs
    <3>2. QED
      BY <2>4, <3>1 DEF PagesInv
  <2> HIDE DEF F, t
  <2>6. \A v \in PagesOf(h) : FindPte(root[t], v).ppn = F[k + 1].frames[v]
    <3> SUFFICES ASSUME NEW v \in PagesOf(h) PROVE FindPte(root[t], v).ppn = F[k + 1].frames[v]
      OBVIOUS
    <3>1. Owns(F, k + 1, v)
      BY <2>3 DEF Owns
    <3>2. Pte(pte, root[t], v) = Entry(F[k + 1].frames[v], F[k + 1].perm)
      BY <2>5, <3>1 DEF Leaves
    <3>3. QED
      BY <3>2, WalkIs DEF Entry
  <2>7. \A v \in PagesOf(a) : e[a.frames[v]] = E[k + 1][v]
    <3>1. \A v \in PagesOf(h) : E[k + 1][v] = byte[F[k + 1].frames[v]]
      BY <2>3 DEF CopyData
    <3> HIDE DEF E, h, k, e, a
    <3>2. QED
      BY <1>3, <1>4, <1>8, <2>6, <3>1 DEF t
  <2>8. CopyData(F, e) = E
    <3>1. \A g \in PageFrames(F) : e[g] = byte[g]
      BY <1>4, <2>4 DEF F, t
    <3> HIDE DEF e
    <3>2. QED
      BY <2>4, <3>1, CopyDataKept
  <2> HIDE DEF a, A, todo, e, E
  <2>9. Planned(A \o <<a>>, Tail(todo), F, E, e)
    <3>1. /\ A \in Seq(Area) /\ todo \in Seq(Todo) /\ todo # <<>> /\ a \in Area
          /\ Planned(A, todo, F, E, byte)
          /\ \A g \in PageFrames(A) : e[g] = byte[g]
          /\ PagesOf(a) = PagesOf(todo[1])
          /\ \A v \in PagesOf(a) : e[a.frames[v]] = E[Len(A) + 1][v]
      BY <1>1, <1>2, <1>3, <1>5, <2>1, <2>7 DEF h, todo, k, A
    <3>2. QED
      BY ONLY <3>1, PlannedPush
  <2>10. QED
    BY <1>1, <2>8, <2>9 DEF Copying, todo, F
<1>9. QED
  BY <1>7, <1>8

(* The next area, or the loop is over.                                     *)
LEMMA PushLoads ==
  ASSUME PagesInv, LoadInv, PushArea
  PROVE  LoadInv'
<1>c. PICK c : c = op.set
  OBVIOUS
<1> DEFINE rest == Tail(op.todo)
           from == op.from
           o == Running(c, from, rest)
<1>0. /\ op # Idle /\ op.todo \in Seq(Todo) /\ op.todo # <<>> /\ from \in Sets
      /\ status[c] \in {"building", "live"}
      /\ areas \in [Sets -> Seq(Area)] /\ c \in Sets /\ (from # Kernel => from # c)
  BY <1>c DEF PagesInv, OpOK, OpTyped, PushArea
<1>1. CASE rest = <<>>
  <2>1. op' = Idle
    BY <1>c, <1>1, PushedAreas
  <2>2. QED
    BY <2>1, IdleLoads
<1>2. CASE rest # <<>>
  <2>1. /\ op' = o /\ status' = status /\ c \in Sets
        /\ \A s \in Sets : s # c => areas'[s] = areas[s]
    BY <1>c, <1>2, PushedAreas
  <2>2. rest \in Seq(Todo)
    BY <1>0, TailFacts
  <2>a. Len(op.todo) # 1
    <3>1. Len(rest) = Len(op.todo) - 1 /\ Len(op.todo) \in Nat
      BY <1>0
    <3> HIDE DEF rest
    <3>2. Len(rest) # 0
      BY <1>2, <2>2
    <3>3. QED
      BY <3>1, <3>2
  <2> HIDE DEF rest, from
  <2>3. o # Idle /\ o.set = c /\ o.from = from /\ o.todo = rest /\ o.next = rest[1].start
    <3>1. o # Idle /\ o.set = c /\ o.from = from /\ o.todo = rest
      BY <1>0, <1>2, <2>1, <2>2, RunningFacts
    <3>2. QED
      BY <3>1 DEF Running
  <2> HIDE DEF o
  <2>4. Fresh(o) = {}
    <3> DEFINE x == rest[1].start
    <3>1. rest[1] \in Todo
      BY <1>2, <2>2
    <3>2. x \in Int
      BY <3>1, Sizes DEF Todo, Bounds
    <3> HIDE DEF x
    <3>3. x .. x - 1 = {}
      BY <3>2
    <3>4. QED
      BY <2>3, <3>3 DEF Fresh, x
  <2>5. status[c] = "building"
    <3>1. status[c] = "live" => Len(op.todo) = 1
      BY <1>c, <1>0 DEF LoadInv
    <3>2. QED
      BY <1>0, <2>a, <3>1
  <2>6. /\ from = Kernel => \E prog \in Programs : Loading(areas'[c], rest, prog, byte')
        /\ from # Kernel => Copying(areas'[c], rest, areas[from], byte')
    BY <1>c, <2>5, PushedPlan DEF rest, from
  <2>7. from # Kernel => areas'[from] = areas[from]
    BY <1>0, <2>1
  <2>8. QED
    BY <2>1, <2>3, <2>4, <2>5, <2>6, <2>7 DEF LoadInv
<1>3. QED
  BY <1>1, <1>2

(* Every step keeps what loops rely on.                                    *)
LEMMA StepLoads == PagesInv /\ LoadInv /\ [PageNext]_ptVars => LoadInv'
<1> SUFFICES ASSUME PagesInv, LoadInv, [PageNext]_ptVars PROVE LoadInv'
  OBVIOUS
<1>1. CASE UNCHANGED ptVars
  BY <1>1 DEF ptVars, LoadInv, Fresh
<1>2. CASE PageNext
  <2>1. ASSUME NEW s \in UserSets, NEW prog \in Programs, FromElf(s, prog) PROVE LoadInv'
    BY <2>1, FromElfLoads
  <2>2. ASSUME NEW s \in UserSets, NEW t \in UserSets, FromExistedUser(s, t) PROVE LoadInv'
    BY <2>2, FromExistedUserLoads
  <2>3. ASSUME NEW s \in UserSets, AllocateContext(s) PROVE LoadInv'
    <3>1. s \in Sets /\ status[s] = "live" /\ {"R", "W", "U"} \in SUBSET Perms
      BY <2>3 DEF AllocateContext, Sets, Perms
    <3>2. ContextVa \in Int /\ ContextVa + ContextPages * PageSize \in Int
      <4>1. ContextVa \in Nat /\ ContextPages * PageSize \in Nat
        BY PageAssumption
      <4>2. QED
        BY <4>1
    <3>3. QED
      BY <2>3, <3>1, <3>2, InsertLoads DEF AllocateContext
  <2>4. ASSUME NEW pid \in Pids, KernelStackNew(pid) PROVE LoadInv'
    <3>1. Kernel \in Sets /\ status[Kernel] = "live" /\ {"R", "W"} \in SUBSET Perms
      BY DEF PagesInv, StatusOK, Sets, Perms
    <3>2. StackBottom(pid) \in Int /\ StackTop(pid) \in Int
      <4>1. pid \in Nat /\ StackPages * PageSize \in Nat /\ PageSize \in Nat /\ TRAMPOLINE \in Int
        BY PageAssumption, Sizes DEF TRAMPOLINE, WordEnd
      <4>2. pid * (StackPages * PageSize + PageSize) \in Int
        BY <4>1
      <4>3. StackTop(pid) \in Int
        BY <4>1, <4>2 DEF StackTop
      <4>4. QED
        BY <4>1, <4>3 DEF StackBottom
    <3>3. QED
      BY <2>4, <3>1, <3>2, InsertLoads DEF KernelStackNew
  <2>5. ASSUME NEW pid \in Pids, KernelStackDrop(pid) PROVE LoadInv'
    BY <2>5, IdleLoads DEF KernelStackDrop, Begins, Ready
  <2>6. ASSUME NEW s \in UserSets, RecycleDataPages(s) PROVE LoadInv'
    BY <2>6, IdleLoads DEF RecycleDataPages, Begins, Ready
  <2>7. ASSUME NEW s \in UserSets, DropSet(s) PROVE LoadInv'
    BY <2>7, IdleLoads DEF DropSet, Begins, Ready
  <2>8. ASSUME NEW s \in UserSets, NEW b \in Buffers, WriteBuffer(s, b[1], b[2]) PROVE LoadInv'
    BY <2>8, IdleLoads DEF WriteBuffer, Begins, Ready
  <2>9. ASSUME NEW s \in UserSets, NEW va \in Refs, WriteRef(s, va) PROVE LoadInv'
    BY <2>9, IdleLoads DEF WriteRef, Begins, Ready
  <2>10. QED
    BY <1>2, <2>1, <2>2, <2>3, <2>4, <2>5, <2>6, <2>7, <2>8, <2>9, MapOneLoads, PushLoads
       DEF PageNext
<1>3. QED
  BY <1>1, <1>2

-------------------------------------------------------------------------------
(* Steps that no memory set that is complete takes notice of. *)

Views == [s \in Sets |-> View(s)]

(* A memory set that keeps its areas and their bytes keeps its view.       *)
LEMMA ViewKept ==
  ASSUME PagesInv, PagesInv', NEW s \in Sets, status'[s] = "live" <=> status[s] = "live",
         status[s] = "live" => /\ areas'[s] = areas[s]
                               /\ \A f \in PageFrames(areas[s]) : byte'[f] = byte[f]
  PROVE  View(s)' = View(s)
<1>1. View(s) = IF status[s] = "live" THEN Seen(areas[s], byte) ELSE [a \in {} |-> 0]
  BY ViewIs
<1>2. View(s)' = IF status'[s] = "live" THEN Seen(areas'[s], byte') ELSE [a \in {} |-> 0]
  BY ViewIsNext
<1>3. CASE status[s] = "live"
  <2> DEFINE A == areas[s]
             e == byte'
  <2>1. A \in Seq(Area) /\ \A f \in PageFrames(A) : e[f] = byte[f]
    BY <1>3 DEF PagesInv
  <2> HIDE DEF A, e
  <2>2. Seen(A, e) = Seen(A, byte)
    BY <2>1, SeenSame
  <2>3. QED
    BY <1>1, <1>2, <1>3, <2>2 DEF A, e
<1>4. CASE status[s] # "live"
  BY <1>1, <1>2, <1>4
<1>5. QED
  BY <1>3, <1>4

(* All views stay, or all but one.                                         *)
LEMMA ViewsKept ==
  /\ (\A s \in Sets : View(s)' = View(s)) => UNCHANGED Views
  /\ \A c \in Sets : (\A s \in Sets : s # c => View(s)' = View(s)) =>
        Views' = [Views EXCEPT ![c] = View(c)']
  /\ \A s \in Sets : Views[s] = View(s) /\ Views'[s] = View(s)'
<1>1. Views' = [s \in Sets |-> View(s)'] /\ Views = [s \in Sets |-> View(s)]
  BY DEF Views
<1>2. QED
  BY <1>1

(* Nor does a panic.                                                       *)
LEMMA PanicViews ==
  ASSUME PagesInv, PagesInv', NEW why, Panic(why)
  PROVE  UNCHANGED Views
<1>1. \A s \in Sets : View(s)' = View(s)
  BY ViewKept DEF Panic
<1>2. QED
  BY <1>1, ViewsKept

(* A memory set is begun.                                                  *)
LEMMA NewSetViews ==
  ASSUME PagesInv, PagesInv', NEW s, NEW from, NEW todo, NewSet(s, from, todo)
  PROVE  UNCHANGED Views
<1>1. CASE Panic("oom")
  BY <1>1, PanicViews
<1>2. CASE /\ Fits(3) /\ byte' = Cleared(byte, Alloc(3), ClearPage) /\ areas' = areas
           /\ status' = [status EXCEPT ![s] = "building"]
  <2>1. 3 \in Nat
    OBVIOUS
  <2>2. \A t \in Sets : Before(t) \cap ToSet(Alloc(3)) = {}
    BY <1>2, <2>1, TakenApart
  <2>3. \A t \in Sets : \A f \in PageFrames(areas[t]) : f \in Before(t) /\ f \in Frames
    BY Disjoint DEF PageFrames
  <2>4. \A t \in Sets : \A f \in PageFrames(areas[t]) : byte'[f] = byte[f]
    BY <1>2, <2>2, <2>3 DEF Cleared
  <2>5. \A t \in Sets : status'[t] = "live" <=> status[t] = "live"
    <3>1. status \in [Sets -> {"none", "building", "live", "exited"}] /\ status[s] = "none"
      BY DEF PagesInv, PageTypeOK, NewSet
    <3>2. QED
      BY <1>2, <3>1
  <2>6. \A t \in Sets : View(t)' = View(t)
    BY <1>2, <2>4, <2>5, ViewKept
  <2>7. QED
    BY <2>6, ViewsKept
<1>3. QED
  BY <1>1, <1>2 DEF NewSet

(* insert_framed_area begins.                                              *)
LEMMA InsertViews ==
  ASSUME PagesInv, PagesInv', NEW s, NEW x, NEW y, NEW p, InsertFramedArea(s, x, y, p)
  PROVE  UNCHANGED Views
<1>1. \A t \in Sets : View(t)' = View(t)
  BY ViewKept DEF InsertFramedArea
<1>2. QED
  BY <1>1, ViewsKept

(* A page is mapped.                                                       *)
LEMMA MapOneViews ==
  ASSUME PagesInv, PagesInv', MapOne
  PROVE  UNCHANGED Views
<1>1. status' = status /\ areas' = areas
  BY DEF MapOne, Panic
<1>2. \A t \in Sets : \A f \in PageFrames(areas[t]) : byte'[f] = byte[f]
  BY MapOneBytes, Disjoint DEF PageFrames
<1>3. \A t \in Sets : View(t)' = View(t)
  BY <1>1, <1>2, ViewKept
<1>4. QED
  BY <1>3, ViewsKept

(* The end of push: no other memory set takes notice, and the one that is  *)
(* built neither if there is more to do.                                   *)
LEMMA PushViews ==
  ASSUME PagesInv, PagesInv', LoadInv, PushArea, NEW c, c = op.set
  PROVE  /\ \A s \in Sets : s # c => View(s)' = View(s)
         /\ Tail(op.todo) # <<>> => UNCHANGED Views
<1>1. /\ \A s \in Sets : s # c => areas'[s] = areas[s] /\ status'[s] = status[s]
      /\ Tail(op.todo) # <<>> => status' = status
      /\ c \in Sets
  BY PushedAreas
<1>2. \A s \in Sets : \A f \in PageFrames(areas[s]) : byte'[f] = byte[f]
  BY PushedBytes
<1>3. \A s \in Sets : s # c => View(s)' = View(s)
  BY <1>1, <1>2, ViewKept
<1>4. ASSUME Tail(op.todo) # <<>> PROVE UNCHANGED Views
  <2>1. status[c] # "live"
    <3>1. status[c] = "live" => Len(op.todo) = 1
      BY DEF LoadInv, PushArea
    <3>2. op.todo \in Seq(Todo) /\ op.todo # <<>>
      BY DEF PagesInv, OpOK, OpTyped, PushArea
    <3>3. Len(op.todo) = 1 => Len(Tail(op.todo)) = 0 /\ Tail(op.todo) \in Seq(Todo)
      BY <3>2
    <3>4. Len(op.todo) = 1 => Tail(op.todo) = <<>>
      <4> DEFINE q == Tail(op.todo)
      <4>1. Len(op.todo) = 1 => Len(q) = 0 /\ q \in Seq(Todo)
        BY <3>3
      <4> HIDE DEF q
      <4>2. Len(op.todo) = 1 => q = <<>>
        BY <4>1
      <4>3. QED
        BY <4>2 DEF q
    <3>5. QED
      BY <1>4, <3>1, <3>4
  <2>2. View(c)' = View(c)
    BY <1>1, <1>4, <2>1, ViewKept
  <2>3. QED
    BY <1>3, <2>2, ViewsKept
<1>5. QED
  BY <1>3, <1>4

-------------------------------------------------------------------------------
(* Pages are added and removed. *)

(* The difference of two sets of pages is a set of pages.                  *)
LEMMA PagedAddrs ==
  ASSUME NEW P, P \subseteq Int, NEW Q, Q \subseteq Int
  PROVE  Private!Paged(Addrs(P) \ Addrs(Q))
<1> SUFFICES ASSUME NEW a \in Addrs(P) \ Addrs(Q),
                    NEW b \in (a \div PageSize) * PageSize
                                .. (a \div PageSize) * PageSize + PageSize - 1
             PROVE  b \in Addrs(P) \ Addrs(Q)
  BY DEF Private!Paged
<1> DEFINE v == Floor(a)
           i == b - v * PageSize
<1>1. a \in Int /\ v \in P /\ v \notin Q
  BY AddrsOf
<1>3. b \in v * PageSize .. v * PageSize + PageSize - 1
  BY DEF Floor
<1> HIDE DEF v
<1>2. v \in Int /\ v * PageSize \in Int /\ PageSize \in Nat
  BY <1>1, Sizes
<1>4. i \in 0 .. PageSize - 1 /\ b = v * PageSize + i /\ b \in Int
  BY <1>2, <1>3
<1> HIDE DEF i
<1>5. Floor(b) = v
  BY <1>2, <1>4, AddressParts
<1>6. b \in Addrs(P) /\ b \notin Addrs(Q)
  <2>1. \A x : x \in Addrs(P) <=> x \in Int /\ Floor(x) \in P
    BY AddrsOf
  <2>2. \A x : x \in Addrs(Q) <=> x \in Int /\ Floor(x) \in Q
    BY AddrsOf
  <2>3. QED
    BY ONLY <1>1, <1>4, <1>5, <2>1, <2>2
<1>7. QED
  BY <1>6

(* List B is list A with the blank area a appended to it.                  *)
BlankMore(A, a, b, B, e) ==
    /\ A \in Seq(Area) /\ a \in Area /\ B = A \o <<a>> /\ OneOwner(B)
    /\ \A f \in PageFrames(A) : e[f] = b[f]
    /\ \A v \in PagesOf(a) : e[a.frames[v]] = ClearPage

(* It shows zeros in the pages of the area.                                *)
LEMMA SeenMore ==
  ASSUME NEW A, NEW a, NEW b, NEW B, NEW e, BlankMore(A, a, b, B, e)
  PROVE  /\ DOMAIN Seen(A, b) = Addrs(PagesIn(A)) /\ DOMAIN Seen(B, e) = Addrs(PagesIn(B))
         /\ Addrs(PagesIn(A)) \subseteq Addrs(PagesIn(B))
         /\ Seen(B, e) = [x \in Addrs(PagesIn(B)) |->
                            IF x \in Addrs(PagesIn(A)) THEN Seen(A, b)[x] ELSE 0]
<1>0. /\ A \in Seq(Area) /\ a \in Area /\ B = A \o <<a>> /\ OneOwner(B)
      /\ \A f \in PageFrames(A) : e[f] = b[f]
      /\ \A v \in PagesOf(a) : e[a.frames[v]] = ClearPage
  BY DEF BlankMore
<1>1. /\ \A i, v : Owns(B, i, v) <=> Owns(A, i, v) \/ (i = Len(A) + 1 /\ v \in PagesOf(a))
      /\ \A i \in 1 .. Len(A) : B[i] = A[i]
      /\ B[Len(A) + 1] = a
      /\ \A i, v : Owns(A, i, v) => i \in 1 .. Len(A)
  BY <1>0, OwnsMore
<1>2. OneOwner(B) /\ B \in Seq(Area)
  BY <1>0, OneMore
<1>3. OneOwner(A)
  BY <1>1, <1>2 DEF OneOwner
<1>4. PagesIn(A) \subseteq PagesIn(B)
  BY <1>1 DEF PagesIn
<1>5. Addrs(PagesIn(A)) \subseteq Addrs(PagesIn(B))
  BY <1>4 DEF Addrs
<1>6. ASSUME NEW x \in Addrs(PagesIn(B)), x \in Addrs(PagesIn(A))
      PROVE  e[FrameAt(B, Floor(x))] = b[FrameAt(A, Floor(x))]
  <2> DEFINE v == Floor(x)
  <2>1. v \in PagesIn(A)
    BY <1>6, AddrsOf, PagesAreInts
  <2> HIDE DEF v
  <2>2. PICK i : Owns(A, i, v)
    BY <2>1 DEF PagesIn
  <2>3. Owns(B, i, v) /\ B[i] = A[i]
    BY <1>1, <2>2
  <2>4. FrameAt(B, v) = A[i].frames[v] /\ FrameAt(A, v) = A[i].frames[v]
    BY ONLY <1>2, <1>3, <2>2, <2>3, FrameIs
  <2>5. FrameAt(A, v) \in PageFrames(A)
    BY <1>0, <2>1, FrameFound
  <2>6. QED
    BY <1>0, <2>4, <2>5 DEF v
<1>7. ASSUME NEW x \in Addrs(PagesIn(B)), x \notin Addrs(PagesIn(A))
      PROVE  e[FrameAt(B, Floor(x))][PageOffset(x)] = 0
  <2> DEFINE v == Floor(x)
  <2>1. x \in Int /\ v \in PagesIn(B) /\ v \notin PagesIn(A) /\ v \in Vpns
    BY <1>7, AddrsOf, PagesAreInts
  <2>2. PageOffset(x) \in 0 .. PageSize - 1
    BY <2>1, AddressParts
  <2> HIDE DEF v
  <2>3. PICK i : Owns(B, i, v)
    BY <2>1 DEF PagesIn
  <2>4. i = Len(A) + 1 /\ v \in PagesOf(a)
    BY <1>1, <2>1, <2>3 DEF PagesIn
  <2>5. FrameAt(B, v) = a.frames[v]
    <3>1. FrameAt(B, v) = B[i].frames[v]
      BY ONLY <1>2, <2>3, FrameIs
    <3>2. QED
      BY ONLY <1>1, <2>4, <3>1
  <2>6. e[FrameAt(B, v)] = ClearPage
    BY <1>0, <2>4, <2>5
  <2>7. QED
    BY <2>2, <2>6 DEF ClearPage, v
<1>8. /\ DOMAIN Seen(A, b) = Addrs(PagesIn(A)) /\ DOMAIN Seen(B, e) = Addrs(PagesIn(B))
      /\ \A x \in Addrs(PagesIn(A)) : Seen(A, b)[x] = b[FrameAt(A, Floor(x))][PageOffset(x)]
      /\ Seen(B, e) = [x \in Addrs(PagesIn(B)) |-> e[FrameAt(B, Floor(x))][PageOffset(x)]]
  BY DEF Seen
<1>9. Seen(B, e) = [x \in Addrs(PagesIn(B)) |->
                      IF x \in Addrs(PagesIn(A)) THEN Seen(A, b)[x] ELSE 0]
  <2>1. ASSUME NEW x \in Addrs(PagesIn(B))
        PROVE  e[FrameAt(B, Floor(x))][PageOffset(x)]
                 = IF x \in Addrs(PagesIn(A)) THEN Seen(A, b)[x] ELSE 0
    BY <1>6, <1>7, <1>8
  <2>2. QED
    BY <1>8, <2>1
<1>10. QED
  BY <1>5, <1>8, <1>9

(* An area is removed from list A.                                         *)
LEMMA SeenLess ==
  ASSUME NEW A \in Seq(Area), OneOwner(A), NEW k \in 1 .. Len(A), NEW b,
         OneOwner(RemoveAt(A, k))
  PROVE  LET B == RemoveAt(A, k) IN
         /\ DOMAIN Seen(A, b) = Addrs(PagesIn(A)) /\ DOMAIN Seen(B, b) = Addrs(PagesIn(B))
         /\ Addrs(PagesIn(B)) \subseteq Addrs(PagesIn(A))
         /\ Seen(B, b) = [x \in Addrs(PagesIn(B)) |-> Seen(A, b)[x]]
<1> DEFINE B == RemoveAt(A, k)
<1>1. /\ B \in Seq(Area)
      /\ \A i, v : Owns(B, i, v) => Owns(A, Shift(k, i), v) /\ B[i] = A[Shift(k, i)]
  BY OwnsLess
<1>a. OneOwner(B)
  OBVIOUS
<1> HIDE DEF B
<1>2. PagesIn(B) \subseteq PagesIn(A)
  BY <1>1 DEF PagesIn
<1>3. Addrs(PagesIn(B)) \subseteq Addrs(PagesIn(A))
  BY <1>2 DEF Addrs
<1>4. ASSUME NEW x \in Addrs(PagesIn(B)) PROVE FrameAt(B, Floor(x)) = FrameAt(A, Floor(x))
  <2> DEFINE v == Floor(x)
  <2>1. v \in PagesIn(B)
    BY AddrsOf, PagesAreInts
  <2> HIDE DEF v
  <2>2. PICK i : Owns(B, i, v)
    BY <2>1 DEF PagesIn
  <2>3. Owns(A, Shift(k, i), v) /\ B[i] = A[Shift(k, i)]
    BY <1>1, <2>2
  <2>4. FrameAt(B, v) = B[i].frames[v] /\ FrameAt(A, v) = A[Shift(k, i)].frames[v]
    BY <1>a, <2>2, <2>3, FrameIs
  <2>5. QED
    BY <2>3, <2>4 DEF v
<1>5. /\ DOMAIN Seen(A, b) = Addrs(PagesIn(A)) /\ DOMAIN Seen(B, b) = Addrs(PagesIn(B))
      /\ \A x \in Addrs(PagesIn(A)) : Seen(A, b)[x] = b[FrameAt(A, Floor(x))][PageOffset(x)]
      /\ Seen(B, b) = [x \in Addrs(PagesIn(B)) |-> b[FrameAt(B, Floor(x))][PageOffset(x)]]
  BY DEF Seen
<1>6. QED
  BY <1>3, <1>4, <1>5 DEF B

(* A step that shows pages of memory set c and zeros in new pages extends  *)
(* it; a step that shows fewer pages removes some.                         *)
LEMMA ExtendOrRemove ==
  ASSUME NEW c \in Sets, \A s \in Sets : s # c => View(s)' = View(s),
         NEW P, P \subseteq Int, NEW Q, Q \subseteq Int,
         DOMAIN View(c) = Addrs(P), DOMAIN View(c)' = Addrs(Q)
  PROVE  /\ /\ Addrs(P) \subseteq Addrs(Q)
            /\ View(c)' = [x \in Addrs(Q) |-> IF x \in Addrs(P) THEN View(c)[x] ELSE 0]
            => Private!Extend(c)
         /\ /\ Addrs(Q) \subseteq Addrs(P)
            /\ View(c)' = [x \in Addrs(Q) |-> View(c)[x]]
            => Private!Remove(c)
<1> DEFINE W == View(c)'
<1>1. Views' = [Views EXCEPT ![c] = W] /\ Views[c] = View(c) /\ Views'[c] = W
  BY ViewsKept
<1>2. Private!Paged(Addrs(Q) \ Addrs(P)) /\ Private!Paged(Addrs(P) \ Addrs(Q))
  BY PagedAddrs
<1>3. ASSUME Addrs(P) \subseteq Addrs(Q),
             W = [x \in Addrs(Q) |-> IF x \in Addrs(P) THEN View(c)[x] ELSE 0]
      PROVE  Private!Extend(c)
  <2>1. \E after \in {Views'[c]} :
          /\ DOMAIN Views[c] \subseteq DOMAIN after
          /\ Private!Paged(DOMAIN after \ DOMAIN Views[c])
          /\ Views' = [Views EXCEPT ![c] = [a \in DOMAIN after |->
                         IF a \in DOMAIN Views[c] THEN Views[c][a] ELSE 0]]
    <3> HIDE DEF W
    <3>1. DOMAIN W = Addrs(Q) /\ DOMAIN Views[c] = Addrs(P)
      BY <1>1 DEF W
    <3>2. W = [a \in DOMAIN W |-> IF a \in DOMAIN Views[c] THEN Views[c][a] ELSE 0]
      BY <1>1, <1>3, <3>1
    <3>3. QED
      BY <1>1, <1>2, <1>3, <3>1, <3>2
  <2>2. QED
    BY <2>1 DEF Private!Extend, Views
<1>4. ASSUME Addrs(Q) \subseteq Addrs(P), W = [x \in Addrs(Q) |-> View(c)[x]]
      PROVE  Private!Remove(c)
  <2>1. \E after \in {Views'[c]} :
          /\ DOMAIN after \subseteq DOMAIN Views[c]
          /\ Private!Paged(DOMAIN Views[c] \ DOMAIN after)
          /\ Views' = [Views EXCEPT ![c] = [a \in DOMAIN after |-> Views[c][a]]]
    <3> HIDE DEF W
    <3>1. DOMAIN W = Addrs(Q) /\ DOMAIN Views[c] = Addrs(P)
      BY <1>1 DEF W
    <3>2. W = [a \in DOMAIN W |-> Views[c][a]]
      BY <1>1, <1>4, <3>1
    <3>3. QED
      BY <1>1, <1>2, <1>4, <3>1, <3>2
  <2>2. QED
    BY <2>1 DEF Private!Remove, Views
<1>5. QED
  BY <1>3, <1>4

(* The areas of a memory set that is complete are appended to.             *)
LEMMA PushExtends ==
  ASSUME PagesInv, PagesInv', LoadInv, PushArea, NEW c, c = op.set, status[c] = "live"
  PROVE  Private!Extend(c)
<1> DEFINE a == MapArea(op.todo[1], op.frames)
           A == areas[c]
           B == A \o <<a>>
           e == byte'
<1>0. /\ op # Idle /\ Len(op.todo) = 1 /\ op.todo[1].file = 0 /\ op.from = Kernel
      /\ op.todo \in Seq(Todo)
  BY DEF LoadInv, PushArea, PagesInv, OpOK, OpTyped
<1>1. /\ a \in Area /\ A \in Seq(Area) /\ c \in Sets /\ areas'[c] = B
      /\ Tail(op.todo) = <<>> => status'[c] = "live"
      /\ Tail(op.todo) # <<>> => status' = status
  BY PushedAreas
<1>2. status'[c] = "live"
  BY <1>1
<1>3. /\ Fresh(op) = PagesOf(op.todo[1])
      /\ \A v \in Fresh(op) : e[op.frames[v]] = FileBytes(op.todo[1], v)
      /\ \A f \in PageFrames(A) : e[f] = byte[f]
  BY <1>0, <1>1, PushedBytes
<1>4. \A v \in PagesOf(a) : e[a.frames[v]] = ClearPage
  <2>1. PagesOf(a) = PagesOf(op.todo[1]) /\ a.frames = op.frames
    BY DEF MapArea, PagesOf
  <2>2. \A v \in PagesOf(op.todo[1]) : FileBytes(op.todo[1], v) = ClearPage
    <3> DEFINE h == op.todo[1]
    <3>1. h.start \in Int /\ h.file = 0 /\ h.end \in Int
      <4>1. h \in Todo
        BY <1>0
      <4>2. QED
        BY <1>0, <4>1, Sizes DEF Todo, Bounds
    <3> HIDE DEF h
    <3>2. ASSUME NEW v \in PagesOf(h), NEW j \in 0 .. PageSize - 1
          PROVE  ~((v - h.start) * PageSize + j < h.file)
      <4>1. v - h.start \in Nat
        BY <3>1 DEF PagesOf
      <4>2. (v - h.start) * PageSize \in Nat
        BY <4>1, Sizes
      <4>3. QED
        BY <3>1, <4>2
    <3>3. QED
      BY <3>2 DEF FileBytes, ClearPage, h
  <2> HIDE DEF a
  <2>3. QED
    BY <1>3, <2>1, <2>2
<1>5. \A s \in Sets : s # c => View(s)' = View(s)
  BY PushViews
<1>6. View(c) = Seen(A, byte) /\ View(c)' = Seen(B, e)
  <2>1. View(c) = Seen(areas[c], byte)
    BY <1>1, ViewIs
  <2>2. View(c)' = Seen(areas'[c], byte')
    BY <1>1, <1>2, ViewIsNext
  <2>3. QED
    BY <1>1, <2>1, <2>2
<1>7. OneOwner(B)
  <2>1. (\A s \in Sets : status[s] = "live" => OneOwner(areas[s]))'
    BY OneOwnersNext
  <2>2. OneOwner(areas'[c])
    BY <1>1, <1>2, <2>1
  <2>3. QED
    BY <1>1, <2>2
<1> HIDE DEF a, A, e
<1>8. /\ DOMAIN Seen(A, byte) = Addrs(PagesIn(A)) /\ DOMAIN Seen(B, e) = Addrs(PagesIn(B))
      /\ Addrs(PagesIn(A)) \subseteq Addrs(PagesIn(B))
      /\ Seen(B, e) = [x \in Addrs(PagesIn(B)) |->
                         IF x \in Addrs(PagesIn(A)) THEN Seen(A, byte)[x] ELSE 0]
  <2>1. /\ A \in Seq(Area) /\ a \in Area /\ OneOwner(B) /\ B = A \o <<a>>
        /\ \A f \in PageFrames(A) : e[f] = byte[f]
        /\ \A v \in PagesOf(a) : e[a.frames[v]] = ClearPage
    BY <1>1, <1>3, <1>4, <1>7
  <2> HIDE DEF B
  <2>2. BlankMore(A, a, byte, B, e)
    BY <2>1 DEF BlankMore
  <2>3. QED
    BY ONLY <2>2, SeenMore
<1> DEFINE P == PagesIn(A)
           Q == PagesIn(B)
<1>9. P \subseteq Int /\ Q \subseteq Int
  BY PagesAreInts
<1> HIDE DEF P, Q, B
<1>10. /\ DOMAIN View(c) = Addrs(P) /\ DOMAIN View(c)' = Addrs(Q)
       /\ Addrs(P) \subseteq Addrs(Q)
       /\ View(c)' = [x \in Addrs(Q) |-> IF x \in Addrs(P) THEN View(c)[x] ELSE 0]
  BY <1>6, <1>8 DEF P, Q
<1>11. QED
  BY <1>1, <1>5, <1>9, <1>10, ExtendOrRemove

(* An empty set of pages.                                                  *)
LEMMA NoAddrs == Addrs({}) = {} /\ {} \subseteq Int /\ DOMAIN [a \in {} |-> 0] = {}
BY DEF Addrs

(* All that memory set c had is gone.                                      *)
LEMMA RemoveAll ==
  ASSUME PagesInv, PagesInv', NEW c \in Sets, status'[c] # "live", byte' = byte,
         \A s \in Sets : s # c => areas'[s] = areas[s] /\ status'[s] = status[s]
  PROVE  Private!Remove(c)
<1>1. \A s \in Sets : s # c => View(s)' = View(s)
  BY ViewKept
<1>2. View(c)' = [a \in {} |-> 0]
  <2>1. View(c)' = IF status'[c] = "live" THEN Seen(areas'[c], byte') ELSE [a \in {} |-> 0]
    BY ViewIsNext
  <2>2. QED
    BY <2>1
<1>3. PICK P : P \subseteq Int /\ DOMAIN View(c) = Addrs(P)
  <2>1. View(c) = IF status[c] = "live" THEN Seen(areas[c], byte) ELSE [a \in {} |-> 0]
    BY ViewIs
  <2>2. CASE status[c] = "live"
    <3>1. DOMAIN View(c) = Addrs(PagesIn(areas[c]))
      BY <2>1, <2>2 DEF Seen
    <3>2. QED
      BY <3>1, PagesAreInts
  <2>3. CASE status[c] # "live"
    BY <2>1, <2>3, NoAddrs
  <2>4. QED
    BY <2>2, <2>3
<1> DEFINE Q == {}
<1>4. /\ Q \subseteq Int /\ DOMAIN View(c)' = Addrs(Q) /\ Addrs(Q) \subseteq Addrs(P)
      /\ View(c)' = [x \in Addrs(Q) |-> View(c)[x]]
  BY <1>2, NoAddrs
<1> HIDE DEF Q
<1>5. QED
  BY <1>1, <1>3, <1>4, ExtendOrRemove

(* recycle_data_pages removes all of the space.                            *)
LEMMA RecycleRemoves ==
  ASSUME PagesInv, PagesInv', NEW s \in UserSets, RecycleDataPages(s)
  PROVE  Private!Remove(s)
<1>1. /\ s \in Sets /\ areas \in [Sets -> Seq(Area)]
      /\ status \in [Sets -> {"none", "building", "live", "exited"}]
  BY DEF Sets, PagesInv, PageTypeOK
<1>2. /\ status'[s] # "live" /\ byte' = byte
      /\ \A t \in Sets : t # s => areas'[t] = areas[t] /\ status'[t] = status[t]
  BY <1>1 DEF RecycleDataPages
<1>3. QED
  BY <1>1, <1>2, RemoveAll

(* So does the drop of a memory set, unless nothing was left of it.        *)
LEMMA DropRemoves ==
  ASSUME PagesInv, PagesInv', NEW s \in UserSets, DropSet(s)
  PROVE  Private!Remove(s)
<1>1. /\ s \in Sets /\ areas \in [Sets -> Seq(Area)]
      /\ status \in [Sets -> {"none", "building", "live", "exited"}]
  BY DEF Sets, PagesInv, PageTypeOK
<1>2. /\ status'[s] # "live" /\ byte' = byte
      /\ \A t \in Sets : t # s => areas'[t] = areas[t] /\ status'[t] = status[t]
  BY <1>1 DEF DropSet
<1>3. QED
  BY <1>1, <1>2, RemoveAll

(* KernelStack::drop removes the pages of the stack.                       *)
LEMMA StackDropRemoves ==
  ASSUME PagesInv, PagesInv', NEW pid \in Pids, KernelStackDrop(pid)
  PROVE  Private!Remove(Kernel)
<1> DEFINE A == areas[Kernel]
           starts == {i \in 1 .. Len(areas[Kernel]) :
                        areas[Kernel][i].start = Floor(VirtAddr(StackBottom(pid)))}
           k == Min(starts)
           B == RemoveAt(A, k)
<1>0. Kernel \in Sets /\ status[Kernel] = "live" /\ areas \in [Sets -> Seq(Area)]
  BY DEF Sets, PagesInv, StatusOK
<1>1. /\ areas' = [areas EXCEPT ![Kernel] = B] /\ status' = status /\ byte' = byte
  BY DEF KernelStackDrop
<1>2. k \in 1 .. Len(A)
  <2>1. starts # {} /\ starts \subseteq 1 .. Len(A)
    BY DEF KernelStackDrop, HasStack
  <2>2. starts \subseteq Nat
    BY <1>0, <2>1
  <2> HIDE DEF starts
  <2>3. \E x \in starts : \A y \in starts : x =< y
    BY <2>1, <2>2, Least
  <2>4. k \in starts
    BY <2>3 DEF Min
  <2>5. QED
    BY <2>1, <2>4
<1> HIDE DEF k
<1>3. areas'[Kernel] = B /\ \A s \in Sets : s # Kernel => areas'[s] = areas[s]
  BY <1>0, <1>1
<1>4. \A s \in Sets : s # Kernel => View(s)' = View(s)
  BY <1>1, <1>3, ViewKept
<1>5. View(Kernel) = Seen(A, byte) /\ View(Kernel)' = Seen(B, byte)
  <2>1. View(Kernel) = Seen(areas[Kernel], byte)
    BY <1>0, ViewIs
  <2>2. View(Kernel)' = Seen(areas'[Kernel], byte')
    BY <1>0, <1>1, ViewIsNext
  <2>3. QED
    BY <1>1, <1>3, <2>1, <2>2
<1>6. OneOwner(A) /\ OneOwner(B) /\ A \in Seq(Area)
  <2>1. OneOwner(areas[Kernel])
    BY <1>0, OneOwners
  <2>2. (\A s \in Sets : status[s] = "live" => OneOwner(areas[s]))'
    BY OneOwnersNext
  <2>3. OneOwner(areas'[Kernel])
    BY <1>0, <1>1, <2>2
  <2>4. QED
    BY <1>0, <1>3, <2>1, <2>3
<1> HIDE DEF A
<1>7. /\ DOMAIN Seen(A, byte) = Addrs(PagesIn(A)) /\ DOMAIN Seen(B, byte) = Addrs(PagesIn(B))
      /\ Addrs(PagesIn(B)) \subseteq Addrs(PagesIn(A))
      /\ Seen(B, byte) = [x \in Addrs(PagesIn(B)) |-> Seen(A, byte)[x]]
  BY <1>2, <1>6, SeenLess
<1> DEFINE P == PagesIn(A)
           Q == PagesIn(B)
<1>8. P \subseteq Int /\ Q \subseteq Int
  BY PagesAreInts
<1> HIDE DEF P, Q, B
<1>9. /\ DOMAIN View(Kernel) = Addrs(P) /\ DOMAIN View(Kernel)' = Addrs(Q)
      /\ Addrs(Q) \subseteq Addrs(P)
      /\ View(Kernel)' = [x \in Addrs(Q) |-> View(Kernel)[x]]
  BY <1>5, <1>7 DEF P, Q
<1>10. QED
  BY <1>0, <1>4, <1>8, <1>9, ExtendOrRemove

-------------------------------------------------------------------------------
(* A memory set is complete. *)

(* What the pages E of a list of areas show.                               *)
Spread(L, E) ==
    [x \in Addrs(PagesIn(L)) |->
        E[CHOOSE i : Owns(L, i, Floor(x))][Floor(x)][PageOffset(x)]]

(* A plan that is done has its pages, and is shown as planned.             *)
LEMMA PlanDone ==
  ASSUME NEW A \in Seq(Area), OneOwner(A), NEW L, NEW E, NEW b, Planned(A, <<>>, L, E, b)
  PROVE  OneOwner(L) /\ Seen(A, b) = Spread(L, E)
<1>1. Len(<<>>) = 0 /\ Len(A) \in Nat
  OBVIOUS
<1>2. Len(L) = Len(A)
  BY <1>1 DEF Planned
<1>3. \A i, v : Owns(L, i, v) <=> Owns(A, i, v)
  BY <1>2 DEF Planned, Owns
<1>4. \A i, v : Owns(A, i, v) => b[A[i].frames[v]] = E[i][v]
  BY DEF Planned, Owns
<1>5. OneOwner(L)
  BY <1>3 DEF OneOwner
<1>6. PagesIn(L) = PagesIn(A)
  BY <1>3 DEF PagesIn
<1>7. ASSUME NEW x \in Addrs(PagesIn(A))
      PROVE  b[FrameAt(A, Floor(x))] = E[CHOOSE i : Owns(L, i, Floor(x))][Floor(x)]
  <2> DEFINE v == Floor(x)
             j == CHOOSE i : Owns(L, i, v)
  <2>1. v \in PagesIn(A)
    BY AddrsOf, PagesAreInts
  <2> HIDE DEF v
  <2>2. PICK i : Owns(A, i, v)
    BY <2>1 DEF PagesIn
  <2>3. Owns(L, j, v)
    BY <1>3, <2>2
  <2>4. j = i
    BY <1>3, <2>2, <2>3 DEF OneOwner
  <2> HIDE DEF j
  <2>5. FrameAt(A, v) = A[i].frames[v]
    BY <2>2, FrameIs
  <2>6. b[FrameAt(A, v)] = E[j][v]
    BY <1>4, <2>2, <2>4, <2>5
  <2>7. QED
    BY <2>6 DEF v, j
<1>8. Seen(A, b) = Spread(L, E)
  BY <1>6, <1>7 DEF Seen, Spread
<1>9. QED
  BY <1>5, <1>8

(* A copy shows what the memory set shows that was copied.                 *)
LEMMA CopyDone ==
  ASSUME NEW F \in Seq(Area), NEW b
  PROVE  Spread(F, CopyData(F, b)) = Seen(F, b)
<1>1. ASSUME NEW x \in Addrs(PagesIn(F))
      PROVE  CopyData(F, b)[CHOOSE i : Owns(F, i, Floor(x))][Floor(x)] = b[FrameAt(F, Floor(x))]
  <2> DEFINE v == Floor(x)
             j == CHOOSE i : Owns(F, i, v)
  <2>1. v \in PagesIn(F)
    BY AddrsOf, PagesAreInts
  <2>2. \E i : Owns(F, i, v)
    BY <2>1 DEF PagesIn
  <2>3. Owns(F, j, v)
    BY <2>2
  <2>4. FrameAt(F, v) = F[j].frames[v]
    BY DEF FrameAt
  <2> HIDE DEF v, j
  <2>5. CopyData(F, b)[j][v] = b[F[j].frames[v]]
    BY <2>3 DEF CopyData, Owns
  <2>6. QED
    BY <2>4, <2>5 DEF v, j
<1>2. QED
  BY <1>1 DEF Spread, Seen

(* The last page of an area covers its end.                                *)
LEMMA CeilCovers ==
  ASSUME NEW z \in Nat
  PROVE  Ceil(z) \in Int /\ Ceil(z) * PageSize >= z
<1>1. CASE z = 0
  BY <1>1, Sizes DEF Ceil
<1>2. CASE z # 0
  <2> DEFINE y == z - 1 + PageSize
             q == y \div PageSize
             t == y % PageSize
  <2>1. y \in Int
    BY Sizes
  <2> HIDE DEF y
  <2>2. q \in Int /\ t \in 0 .. PageSize - 1 /\ y = q * PageSize + t
    BY <2>1, Sizes, Division
  <2> HIDE DEF q, t
  <2>3. q * PageSize \in Int
    BY <2>2, Sizes
  <2>4. q * PageSize >= z
    BY <2>2, <2>3, Sizes DEF y
  <2>5. Ceil(z) = q
    BY <1>2 DEF Ceil, q, y
  <2>6. QED
    BY <2>2, <2>4, <2>5
<1>3. QED
  BY <1>1, <1>2

(* The greater of two multiples of PageSize belongs to the greater page.   *)
LEMMA PageOrder ==
  ASSUME NEW v \in Int, NEW w \in Int
  PROVE  /\ v * PageSize < w * PageSize => v < w
         /\ v >= w => (v - w) * PageSize >= 0
         /\ (v - w) * PageSize = v * PageSize - w * PageSize
         /\ v * PageSize \in Int /\ w * PageSize \in Int
<1>0. PageSize \in Nat /\ PageSize > 0
  BY Sizes
<1>1. (v - w) * PageSize = v * PageSize - w * PageSize /\ v * PageSize \in Int /\ w * PageSize \in Int
  BY <1>0
<1>2. v >= w => (v - w) * PageSize >= 0
  <2> DEFINE d == v - w
  <2>1. d \in Int
    OBVIOUS
  <2>2. v >= w => d \in Nat
    OBVIOUS
  <2> HIDE DEF d
  <2>3. d \in Nat => d * PageSize \in Nat
    BY <1>0
  <2>4. v >= w => d * PageSize >= 0
    BY <2>2, <2>3
  <2>5. QED
    BY <2>4 DEF d
<1>3. v * PageSize < w * PageSize => v < w
  <2> SUFFICES ASSUME v >= w PROVE ~(v * PageSize < w * PageSize)
    OBVIOUS
  <2> DEFINE x == v * PageSize
             y == w * PageSize
             z == (v - w) * PageSize
  <2>1. z >= 0 /\ z = x - y /\ x \in Int /\ y \in Int
    BY <1>1, <1>2
  <2> HIDE DEF x, y, z
  <2>2. ~(x < y)
    BY <2>1
  <2>3. QED
    BY <2>2 DEF x, y
<1>4. QED
  BY <1>1, <1>2, <1>3

(* The areas L of a program: segments begin with a page and cover what is  *)
(* in memory; the others have no data.                                     *)
Segments(prog, L) ==
    /\ Len(prog) \in Nat /\ L \in Seq(Todo) /\ Len(L) = Len(prog) + 2
    /\ \A j \in 1 .. Len(prog) :
         /\ prog[j].va \in Nat /\ prog[j].mem \in Nat /\ prog[j].file \in Nat
         /\ prog[j].file =< prog[j].mem /\ prog[j].va + prog[j].mem < VaEnd
         /\ L[j].start \in Int /\ L[j].start * PageSize = prog[j].va
         /\ L[j].end \in Int /\ L[j].end * PageSize >= prog[j].va + prog[j].mem
         /\ L[j].file = prog[j].file
    /\ \A j \in Len(prog) + 1 .. Len(prog) + 2 : L[j].file = 0

(* from_elf makes such areas.                                              *)
LEMMA SegmentAreas ==
  ASSUME NEW prog \in Programs
  PROVE  Segments(prog, ProgramAreas(prog))
<1> DEFINE L == ProgramAreas(prog)
           n == Len(prog)
           seg == [i \in 1 .. n |->
                     NewArea(prog[i].va, prog[i].va + prog[i].mem, {"R", "U"}, prog[i].file)]
           bottom == seg[n].end * PageSize + PageSize
           stack == NewArea(bottom, bottom + StackPages * PageSize, {"R", "W", "U"}, 0)
           trap == NewArea(TRAP_CONTEXT, TRAMPOLINE, {"R", "W"}, 0)
           q == <<stack, trap>>
           S == [va : Nat, mem : Nat, file : Nat]
<1>1. prog \in Seq(S)
  BY PageAssumption
<1>2. n \in Nat
  BY <1>1
<1>3. \A j \in 1 .. n :
        /\ prog[j].va \in Nat /\ prog[j].mem \in Nat /\ prog[j].file \in Nat
        /\ prog[j].va % PageSize = 0 /\ prog[j].file =< prog[j].mem
        /\ prog[j].va + prog[j].mem < VaEnd
  <2>1. ASSUME NEW j \in 1 .. n PROVE prog[j] \in S
    <3> HIDE DEF S
    <3>1. QED
      BY <1>1
  <2>2. \A j \in 1 .. n :
          /\ prog[j].va % PageSize = 0 /\ prog[j].file =< prog[j].mem
          /\ prog[j].va + prog[j].mem < VaEnd
    BY UserAssumption
  <2>3. QED
    BY <2>1, <2>2
<1>4. L = seg \o q
  BY DEF ProgramAreas
<1> HIDE DEF stack, trap, bottom, L
<1>5. Len(seg) = n /\ seg \in Seq({seg[i] : i \in 1 .. n})
  BY <1>2
<1>6. Len(q) = 2 /\ q \in Seq({stack, trap}) /\ q[1] = stack /\ q[2] = trap
  OBVIOUS
<1>7. Len(L) = n + 2 /\ (\A j \in 1 .. n : L[j] = seg[j]) /\ L[n + 1] = stack /\ L[n + 2] = trap
  <2> DEFINE X == {seg[i] : i \in 1 .. n} \cup {stack, trap}
             x == seg
  <2>1. x \in Seq(X) /\ q \in Seq(X) /\ Len(x) = n
    BY <1>5, <1>6
  <2> HIDE DEF X, x, q
  <2>a. /\ Len(x \o q) = Len(x) + Len(q)
        /\ \A i \in 1 .. Len(x) : (x \o q)[i] = x[i]
        /\ \A i \in Len(x) + 1 .. Len(x) + Len(q) : (x \o q)[i] = q[i - Len(x)]
    BY ONLY <2>1
  <2> DEFINE u == x \o q
  <2> HIDE DEF u
  <2>2. Len(u) = n + 2
    BY <1>6, <2>1, <2>a DEF u
  <2>3. \A j \in 1 .. n : u[j] = x[j]
    BY <1>2, <2>1, <2>a DEF u
  <2>4. u[n + 1] = q[1] /\ u[n + 2] = q[2]
    <3>1. /\ n + 1 \in n + 1 .. n + 2 /\ n + 2 \in n + 1 .. n + 2
          /\ (n + 1) - n = 1 /\ (n + 2) - n = 2
      BY <1>2
    <3>2. \A i \in n + 1 .. n + 2 : u[i] = q[i - n]
      BY <1>6, <2>1, <2>a DEF u
    <3>3. QED
      BY <3>1, <3>2
  <2>5. QED
    BY <1>4, <1>6, <2>2, <2>3, <2>4 DEF x, u
<1>8. \A j \in n + 1 .. n + 2 : L[j].file = 0
  <2>1. stack.file = 0 /\ trap.file = 0
    BY DEF stack, trap, NewArea
  <2>2. \A j \in n + 1 .. n + 2 : j = n + 1 \/ j = n + 2
    BY <1>2
  <2>3. QED
    BY <1>7, <2>1, <2>2
<1>9. ASSUME NEW j \in 1 .. n
      PROVE  /\ L[j].start \in Int /\ L[j].start * PageSize = prog[j].va
             /\ L[j].end \in Int /\ L[j].end * PageSize >= prog[j].va + prog[j].mem
             /\ L[j].file = prog[j].file
  <2> DEFINE va == prog[j].va
             z == va + prog[j].mem
  <2>1. va \in Nat /\ z \in Nat /\ va \in 0 .. VaEnd - 1 /\ z \in 0 .. VaEnd - 1
        /\ va % PageSize = 0
    BY <1>3, Sizes
  <2>2. L[j] = NewArea(va, z, {"R", "U"}, prog[j].file)
    BY <1>7
  <2> HIDE DEF va, z
  <2>3. VirtAddr(va) = va /\ VirtAddr(z) = z
    BY <2>1, SmallWord
  <2>4. L[j].start = Floor(va) /\ L[j].end = Ceil(z) /\ L[j].file = prog[j].file
    BY <2>2, <2>3 DEF NewArea
  <2>5. Floor(va) \in Int /\ Floor(va) * PageSize = va
    <3>1. Floor(va) \in Int /\ va = Floor(va) * PageSize + PageOffset(va)
      BY <2>1, AddressParts
    <3>2. PageOffset(va) = 0
      BY <2>1 DEF PageOffset
    <3> DEFINE w == Floor(va) * PageSize
    <3>3. w \in Int
      BY <3>1, Sizes
    <3>4. va = w + 0
      BY <3>1, <3>2
    <3> HIDE DEF w
    <3>5. w = va
      BY <3>3, <3>4
    <3>6. QED
      BY <3>1, <3>5 DEF w
  <2>6. Ceil(z) \in Int /\ Ceil(z) * PageSize >= z
    BY <2>1, CeilCovers
  <2>7. QED
    BY <2>4, <2>5, <2>6 DEF va, z
<1>10. L \in Seq(Todo)
  BY ProgramAreasTodo DEF L
<1>11. \A j \in 1 .. n :
         /\ prog[j].va \in Nat /\ prog[j].mem \in Nat /\ prog[j].file \in Nat
         /\ prog[j].file =< prog[j].mem /\ prog[j].va + prog[j].mem < VaEnd
         /\ L[j].start \in Int /\ L[j].start * PageSize = prog[j].va
         /\ L[j].end \in Int /\ L[j].end * PageSize >= prog[j].va + prog[j].mem
         /\ L[j].file = prog[j].file
  BY <1>3, <1>9
<1>12. Segments(prog, L)
  BY <1>2, <1>7, <1>8, <1>10, <1>11 DEF Segments
<1>13. QED
  BY <1>12 DEF L

(* The bytes of the file at address x.                                     *)
InFile(prog, j, x) ==
    j \in 1 .. Len(prog) /\ x \in prog[j].va .. prog[j].va + prog[j].file - 1

(* They are in the pages of their segment, before the end of its data.     *)
LEMMA FilePages ==
  ASSUME NEW prog \in Programs, NEW L, L = ProgramAreas(prog), NEW v \in Int,
         NEW o \in 0 .. PageSize - 1, NEW j \in 1 .. Len(prog)
  PROVE  LET x == v * PageSize + o
             k == (v - L[j].start) * PageSize + o IN
         /\ InFile(prog, j, x) <=> Owns(L, j, v) /\ k < L[j].file
         /\ k = x - prog[j].va
<1> DEFINE n == Len(prog)
           va == prog[j].va
           mem == prog[j].mem
           file == prog[j].file
           x == v * PageSize + o
           b == L[j].start
           e == L[j].end
           k == (v - b) * PageSize + o
<1>1. /\ n \in Nat /\ Len(L) = n + 2 /\ va \in Nat /\ mem \in Nat /\ file \in Nat /\ file =< mem
      /\ b \in Int /\ b * PageSize = va /\ e \in Int /\ e * PageSize >= va + mem
      /\ L[j].file = file
  <2>1. Segments(prog, L)
    BY SegmentAreas
  <2>2. QED
    BY ONLY <2>1, j \in 1 .. n DEF Segments
<1>2. j \in 1 .. Len(L)
  BY <1>1
<1>3. PagesOf(L[j]) = b .. e - 1
  BY DEF PagesOf
<1>4. Owns(L, j, v) <=> v >= b /\ v < e
  BY <1>1, <1>2, <1>3 DEF Owns
<1> HIDE DEF n, va, mem, file, b, e
<1>5. /\ (v - b) * PageSize = v * PageSize - b * PageSize
      /\ v * PageSize \in Int /\ b * PageSize \in Int /\ e * PageSize \in Int
      /\ v * PageSize < e * PageSize => v < e
      /\ b * PageSize < (v + 1) * PageSize => b < v + 1
      /\ v >= b => (v - b) * PageSize >= 0
      /\ (v + 1) * PageSize = v * PageSize + PageSize
  <2>1. (v + 1) * PageSize = v * PageSize + PageSize
    BY Sizes
  <2>2. v + 1 \in Int
    OBVIOUS
  <2>3. QED
    BY <1>1, <2>1, <2>2, PageOrder
<1>6. x \in Int /\ k = x - va
  <2> DEFINE y == v * PageSize
             w == b * PageSize
             d == (v - b) * PageSize
  <2>1. y \in Int /\ w \in Int /\ d = y - w /\ w = va /\ x = y + o /\ k = d + o
    BY <1>1, <1>5
  <2> HIDE DEF x, k, y, w, d
  <2>2. o \in Int
    BY Sizes
  <2>3. QED
    BY ONLY <2>1, <2>2
<1>7. ASSUME x \in va .. va + file - 1 PROVE v >= b /\ v < e /\ k < file
  <2> DEFINE y == v * PageSize
             z == e * PageSize
             w == b * PageSize
             u == (v + 1) * PageSize
  <2>1. y \in Int /\ z \in Int /\ w = va /\ w \in Int /\ z >= va + mem /\ x = y + o
        /\ u = y + PageSize /\ (y < z => v < e) /\ (w < u => b < v + 1)
    BY <1>1, <1>5
  <2> HIDE DEF y, z, w, u
  <2>2. y < z /\ w < u
    BY <1>1, <1>7, <2>1, Sizes
  <2>3. v < e /\ v >= b
    BY <1>1, <2>1, <2>2
  <2>4. QED
    BY <1>1, <1>6, <1>7, <2>3
<1>8. ASSUME v >= b, k < file PROVE x \in va .. va + file - 1
  <2>1. k >= 0
    BY <1>5, <1>6, <1>8
  <2> HIDE DEF x, k
  <2>2. QED
    BY <1>1, <1>6, <1>8, <2>1
<1>9. InFile(prog, j, x) <=> x \in va .. va + file - 1
  BY DEF InFile, va, file
<1> HIDE DEF x, k
<1>10. InFile(prog, j, x) <=> Owns(L, j, v) /\ k < L[j].file
  BY <1>1, <1>4, <1>7, <1>8, <1>9
<1>11. QED
  BY <1>6, <1>10 DEF x, k, va, b

(* A loaded program is shown as its image.                                 *)
LEMMA LoadDone ==
  ASSUME NEW prog \in Programs, NEW L, L = ProgramAreas(prog), OneOwner(L)
  PROVE  Spread(L, FileData(L)) = Image(prog)
<1> DEFINE E == FileData(L)
           n == Len(prog)
<1>1. Segments(prog, L) /\ L \in Seq(Todo) /\ Len(L) = n + 2 /\ n \in Nat
  BY SegmentAreas DEF Segments
<1>2. \A i \in 1 .. Len(L) : L[i] \in Todo
  BY <1>1
<1>3. \A i, v : Owns(L, i, v) => v \in Vpns /\ v \in Int /\ v >= L[i].start /\ L[i].start \in Int
  <2>1. ASSUME NEW i, NEW v, Owns(L, i, v)
        PROVE  v \in Vpns /\ v \in Int /\ v >= L[i].start /\ L[i].start \in Int
    <3> DEFINE b == L[i].start
               e == L[i].end
    <3>1. b \in Bounds /\ e \in Bounds /\ v \in b .. e - 1
      BY <1>2, <2>1 DEF Owns, PagesOf, Todo
    <3> HIDE DEF b, e
    <3>2. v \in Vpns /\ v \in Int /\ v >= b /\ b \in Int
      BY <3>1, Sizes DEF Bounds, Vpns
    <3>3. QED
      BY <3>2 DEF b
  <2>2. QED
    BY <2>1
<1>4. UNION {{v * PageSize + i : v \in PagesOf(area), i \in 0 .. PageSize - 1} :
               area \in ToSet(L)} = Addrs(PagesIn(L))
  <2>1. ToSet(L) = {L[i] : i \in 1 .. Len(L)}
    BY <1>1 DEF ToSet
  <2>2. ASSUME NEW a \in Addrs(PagesIn(L))
        PROVE  \E area \in ToSet(L) :
                 a \in {v * PageSize + i : v \in PagesOf(area), i \in 0 .. PageSize - 1}
    <3>1. PICK v \in PagesIn(L), i \in 0 .. PageSize - 1 : a = v * PageSize + i
      BY DEF Addrs
    <3>2. PICK k : Owns(L, k, v)
      BY DEF PagesIn
    <3>3. L[k] \in ToSet(L) /\ v \in PagesOf(L[k])
      BY <2>1, <3>2 DEF Owns
    <3>4. QED
      BY <3>1, <3>3
  <2>3. ASSUME NEW area \in ToSet(L),
               NEW a \in {v * PageSize + i : v \in PagesOf(area), i \in 0 .. PageSize - 1}
        PROVE  a \in Addrs(PagesIn(L))
    <3>1. PICK k \in 1 .. Len(L) : area = L[k]
      BY <2>1
    <3>2. PICK v \in PagesOf(area), i \in 0 .. PageSize - 1 : a = v * PageSize + i
      OBVIOUS
    <3>3. Owns(L, k, v)
      BY <3>1 DEF Owns
    <3>4. v \in PagesIn(L)
      BY <1>3, <3>3 DEF PagesIn
    <3>5. QED
      BY <3>2, <3>4 DEF Addrs
  <2>4. QED
    BY <2>2, <2>3
<1> DEFINE Value(a) == IF \E i \in 1 .. n : a \in prog[i].va .. prog[i].va + prog[i].file - 1
                       THEN LET i == CHOOSE i \in 1 .. n :
                                        a \in prog[i].va .. prog[i].va + prog[i].file - 1
                            IN  a - prog[i].va + 1
                       ELSE 0
<1>5. Image(prog) = [a \in Addrs(PagesIn(L)) |-> Value(a)]
  BY <1>4 DEF Image
<1>6. ASSUME NEW a \in Addrs(PagesIn(L))
      PROVE  E[CHOOSE i : Owns(L, i, Floor(a))][Floor(a)][PageOffset(a)] = Value(a)
  <2> DEFINE v == Floor(a)
             o == PageOffset(a)
             k == CHOOSE i : Owns(L, i, v)
             c == CHOOSE i \in 1 .. n : a \in prog[i].va .. prog[i].va + prog[i].file - 1
             d == (v - L[k].start) * PageSize + o
  <2>1. v \in PagesIn(L) /\ a \in Int
    BY AddrsOf, PagesAreInts
  <2>2. v \in Int /\ o \in 0 .. PageSize - 1 /\ a = v * PageSize + o
    BY <2>1, AddressParts
  <2>3. \E i : Owns(L, i, v)
    BY <2>1 DEF PagesIn
  <2>4. Owns(L, k, v)
    BY <2>3
  <2> HIDE DEF v, o, k
  <2>5. k \in 1 .. n + 2 /\ v \in PagesOf(L[k])
    BY <1>1, <2>4 DEF Owns
  <2>6. E[k][v] = FileBytes(L[k], v)
    BY <1>1, <2>5 DEF FileData
  <2>7. E[k][v][o] = IF d < L[k].file THEN d + 1 ELSE 0
    BY <2>2, <2>6 DEF FileBytes
  <2>8. d >= 0 /\ d \in Int
    <3> DEFINE b == L[k].start
    <3>1. b \in Int /\ v >= b
      BY <1>3, <2>4
    <3> HIDE DEF b
    <3>2. (v - b) * PageSize >= 0 /\ (v - b) * PageSize \in Int
      <4>1. v - b \in Int
        BY <2>2, <3>1
      <4>2. (v - b) * PageSize \in Int
        BY <4>1, Sizes
      <4>3. QED
        BY <2>2, <3>1, <4>2, PageOrder
    <3> DEFINE y == (v - b) * PageSize
    <3>3. y \in Int /\ y >= 0
      BY <3>2
    <3> HIDE DEF y
    <3>4. y + o >= 0 /\ y + o \in Int
      BY <2>2, <3>3
    <3>5. QED
      BY <3>4 DEF y, b
  <2>9. ASSUME NEW j \in 1 .. n
        PROVE  /\ a \in prog[j].va .. prog[j].va + prog[j].file - 1
                    <=> Owns(L, j, v) /\ (v - L[j].start) * PageSize + o < L[j].file
               /\ (v - L[j].start) * PageSize + o = a - prog[j].va
    <3>1. /\ InFile(prog, j, a) <=> Owns(L, j, v) /\ (v - L[j].start) * PageSize + o < L[j].file
          /\ (v - L[j].start) * PageSize + o = a - prog[j].va
      BY <2>2, FilePages
    <3>2. QED
      BY <3>1 DEF InFile
  <2>10. \A j : Owns(L, j, v) => j = k
    BY <2>4 DEF OneOwner
  <2> HIDE DEF d, E, n
  <2>11. CASE \E i \in 1 .. n : a \in prog[i].va .. prog[i].va + prog[i].file - 1
    <3>1. c \in 1 .. n /\ a \in prog[c].va .. prog[c].va + prog[c].file - 1
      BY <2>11
    <3>2. Value(a) = a - prog[c].va + 1
      BY <2>11
    <3> HIDE DEF c, Value
    <3>3. /\ Owns(L, c, v) /\ (v - L[c].start) * PageSize + o < L[c].file
          /\ (v - L[c].start) * PageSize + o = a - prog[c].va
      BY <2>9, <3>1
    <3>4. c = k
      BY <2>10, <3>3
    <3>5. d < L[k].file /\ d = a - prog[k].va
      BY <3>3, <3>4 DEF d
    <3>6. E[k][v][o] = Value(a)
      BY <2>7, <3>2, <3>4, <3>5
    <3>7. QED
      BY <3>6 DEF v, o, k
  <2>12. CASE ~\E i \in 1 .. n : a \in prog[i].va .. prog[i].va + prog[i].file - 1
    <3>1. Value(a) = 0
      BY <2>12
    <3> HIDE DEF Value
    <3>2. ~(d < L[k].file)
      <4>1. CASE k \in 1 .. n
        BY <2>4, <2>9, <2>12, <4>1 DEF d
      <4>2. CASE k \notin 1 .. n
        <5>1. k \in n + 1 .. n + 2
          BY <1>1, <2>5, <4>2
        <5>2. L[k].file = 0
          BY <1>1, <5>1 DEF Segments, n
        <5>3. QED
          BY <2>8, <5>2
      <4>3. QED
        BY <4>1, <4>2
    <3>3. E[k][v][o] = 0
      BY <2>7, <3>2
    <3>4. QED
      BY <3>1, <3>3 DEF v, o, k
  <2>13. QED
    BY <2>11, <2>12
<1> HIDE DEF Value, E
<1>7. Spread(L, E) = [a \in Addrs(PagesIn(L)) |-> Value(a)]
  BY <1>6 DEF Spread
<1>8. QED
  BY <1>5, <1>7 DEF E

(* The end of the last push completes a memory set: a program is loaded or *)
(* a memory set copied.                                                    *)
LEMMA PushCompletes ==
  ASSUME PagesInv, PagesInv', LoadInv, PushArea, NEW c, c = op.set, status[c] = "building",
         Tail(op.todo) = <<>>
  PROVE  Private!Load(c) \/ \E t \in Sets : Private!Copy(t, c)
<1> DEFINE A == areas'[c]
           e == byte'
           F == areas[op.from]
<1>1. c \in Sets /\ status'[c] = "live"
  BY PushedAreas
<1>2. /\ op.from = Kernel => \E prog \in Programs : Loading(A, <<>>, prog, e)
      /\ op.from # Kernel => Copying(A, <<>>, F, e)
  BY PushedPlan
<1>3. A \in Seq(Area) /\ OneOwner(A) /\ View(c)' = Seen(A, e)
  <2>1. (\A s \in Sets : status[s] = "live" => OneOwner(areas[s]))'
    BY OneOwnersNext
  <2>2. View(c)' = Seen(A, e)
    BY <1>1, ViewIsNext
  <2>3. A \in Seq(Area)
    BY <1>1 DEF PagesInv
  <2>4. QED
    BY <1>1, <2>1, <2>2, <2>3
<1>4. Views[c] = Private!Nothing /\ Views' = [Views EXCEPT ![c] = View(c)']
  <2>1. View(c) = [a \in {} |-> 0]
    BY <1>1, ViewIs
  <2>2. \A s \in Sets : s # c => View(s)' = View(s)
    BY PushViews
  <2>3. QED
    BY <1>1, <2>1, <2>2, ViewsKept DEF Private!Nothing
<1> HIDE DEF A, e
<1>5. CASE op.from = Kernel
  <2>1. PICK prog \in Programs : Loading(A, <<>>, prog, e)
    BY <1>2, <1>5
  <2> DEFINE L == ProgramAreas(prog)
             E == FileData(L)
  <2>2. Planned(A, <<>>, L, E, e)
    BY <2>1 DEF Loading
  <2> HIDE DEF L, E
  <2>3. OneOwner(L) /\ Seen(A, e) = Spread(L, E)
    BY ONLY <1>3, <2>2, PlanDone
  <2>4. Spread(L, E) = Image(prog)
    BY <2>3, LoadDone DEF E, L
  <2>5. Views' = [Views EXCEPT ![c] = Image(prog)]
    BY <1>3, <1>4, <2>3, <2>4
  <2>6. QED
    BY <1>4, <2>5 DEF Private!Load, Views
<1>6. CASE op.from # Kernel
  <2> DEFINE t == op.from
             E == CopyData(F, e)
  <2>1. t \in Sets /\ t # c /\ status[t] = "live" /\ F \in Seq(Area)
    BY <1>6 DEF PagesInv, OpOK, OpTyped, PushArea
  <2>2. \A f \in PageFrames(F) : e[f] = byte[f]
    BY <2>1, PushedBytes DEF e
  <2>3. Planned(A, <<>>, F, E, e)
    BY <1>2, <1>6 DEF Copying
  <2>4. View(t) = Seen(F, byte)
    BY <2>1, ViewIs
  <2> HIDE DEF F, E, t
  <2>5. Seen(A, e) = Spread(F, E)
    BY ONLY <1>3, <2>3, PlanDone
  <2>6. Spread(F, E) = Seen(F, e)
    BY <2>1, CopyDone DEF E
  <2>7. Seen(F, e) = Seen(F, byte)
    BY ONLY <2>1, <2>2, SeenSame
  <2>8. Views' = [Views EXCEPT ![c] = Views[t]]
    <3> DEFINE W == View(c)'
    <3>1. Views' = [Views EXCEPT ![c] = W]
      BY <1>4
    <3>2. W = View(t)
      BY <1>3, <2>4, <2>5, <2>6, <2>7
    <3>3. View(t) = Views[t]
      BY <2>1, ViewsKept
    <3> HIDE DEF W
    <3>4. QED
      BY <3>1, <3>2, <3>3
  <2>9. Private!Copy(t, c)
    BY <1>4, <2>8 DEF Private!Copy, Views
  <2>10. QED
    BY <2>1, <2>9
<1>7. QED
  BY <1>5, <1>6

(* What the end of push is to the spaces.                                  *)
LEMMA PushSpaces ==
  ASSUME PagesInv, PagesInv', LoadInv, PushArea
  PROVE  Private!SpacesNext \/ UNCHANGED Views
<1>1. PICK c : c = op.set
  OBVIOUS
<1>2. c \in Sets /\ status[c] \in {"building", "live"}
  BY <1>1 DEF PagesInv, OpOK, OpTyped, PushArea
<1>3. CASE status[c] = "live"
  BY <1>1, <1>2, <1>3, PushExtends DEF Private!SpacesNext
<1>4. CASE status[c] = "building" /\ Tail(op.todo) = <<>>
  BY <1>1, <1>2, <1>4, PushCompletes DEF Private!SpacesNext
<1>5. CASE Tail(op.todo) # <<>>
  BY <1>1, <1>5, PushViews
<1>6. QED
  BY <1>2, <1>3, <1>4, <1>5

-------------------------------------------------------------------------------
(* The kernel writes to user memory. *)

(* Numbers are in order as their multiples are.                            *)
LEMMA Multiples ==
  ASSUME NEW d \in Nat, d > 0, NEW a \in Int, NEW b \in Int, a * d < b * d
  PROVE  a < b /\ (a + 1) * d =< b * d
<1>1. a < b
  <2> SUFFICES ASSUME b =< a PROVE FALSE
    OBVIOUS
  <2>1. PICK k \in Nat : a = b + k
    <3>1. a - b \in Nat /\ a = b + (a - b)
      OBVIOUS
    <3>2. QED
      BY <3>1
  <2>2. a * d = b * d + k * d /\ k * d \in Nat /\ b * d \in Int
    BY <2>1
  <2>3. QED
    BY <2>2
<1>2. PICK k \in Nat : b = (a + 1) + k
  <2>1. b - (a + 1) \in Nat /\ b = (a + 1) + (b - (a + 1))
    BY <1>1
  <2>2. QED
    BY <2>1
<1>3. b * d = (a + 1) * d + k * d /\ k * d \in Nat /\ (a + 1) * d \in Int
  BY <1>2
<1>4. QED
  BY <1>1, <1>3

(* The trampoline is the last page, which is not in the lower half of the  *)
(* address space.                                                          *)
LEMMA LowerHalf ==
  ASSUME NEW x \in Nat, x < VaEnd \div 2
  PROVE  VirtAddr(x) = x /\ Floor(x) \in Vpns /\ Floor(x) # TrampolineVpn
<1> DEFINE P == PageSize
           n == VpnEnd
           last == n * P - P
<1>1. x \in 0 .. VaEnd - 1 /\ x + x < VaEnd
  BY Sizes
<1>2. VirtAddr(x) = x
  BY <1>1, SmallWord
<1>3. Floor(x) \in Vpns
  BY <1>2, VpnBounds
<1>4. n \in Nat /\ P \in Nat /\ P > 0 /\ n * P \in Nat /\ VaEnd = n * P /\ n >= 2
  <2>1. Fan >= 2
    BY PageAssumption
  <2>2. Fan * Fan >= 2 /\ Fan * Fan \in Nat
    BY <2>1, Sizes
  <2>3. Fan * Fan * Fan >= 2
    <3> DEFINE g == Fan * Fan
    <3>1. PICK k \in Nat : Fan = 1 + k
      <4>1. Fan - 1 \in Nat /\ Fan = 1 + (Fan - 1)
        BY <2>1, Sizes
      <4>2. QED
        BY <4>1
    <3>2. g \in Nat /\ g >= 2
      BY <2>2
    <3> HIDE DEF g
    <3>3. g * Fan = g + g * k /\ g * k \in Nat
      BY <3>1, <3>2
    <3>4. QED
      BY <3>2, <3>3 DEF g
  <2>4. QED
    BY <2>3, Sizes DEF VpnEnd, VaEnd
<1>5. TrampolineVpn = n - 1
  <2>1. TRAMPOLINE = 2 * VaEnd - P
    BY DEF TRAMPOLINE, WordEnd
  <2>2. last \in 0 .. VaEnd - 1 /\ last = (n - 1) * P + 0
    <3>1. n * P = P + (n - 1) * P /\ (n - 1) * P \in Nat
      BY <1>4
    <3>2. QED
      BY <1>4, <3>1
  <2> HIDE DEF n, P, last
  <2>3. VirtAddr(2 * VaEnd - P) = last
    <3> DEFINE w == 2 * VaEnd - P
               y == w \div VaEnd
               z == w % VaEnd
    <3>1. w \in Int /\ w = 1 * VaEnd + last
      BY <1>4, <2>2, Sizes DEF last
    <3> HIDE DEF w
    <3>2. y \in Int /\ z \in 0 .. VaEnd - 1 /\ w = y * VaEnd + z
      BY <3>1, Sizes, Division
    <3> HIDE DEF y, z
    <3>3. y * VaEnd + z = 1 * VaEnd + last /\ VaEnd \in Nat /\ 1 \in Int
      BY <3>1, <3>2, Sizes
    <3>4. z = last
      BY <2>2, <3>2, <3>3, DivisionUnique
    <3>5. QED
      BY <3>4 DEF VirtAddr, w, z
  <2>4. Floor((n - 1) * P + 0) = n - 1
    <3>1. n - 1 \in Int /\ 0 \in 0 .. P - 1
      BY <1>4
    <3>2. QED
      BY <3>1, AddressParts DEF P
  <2>5. QED
    BY <2>1, <2>2, <2>3, <2>4 DEF TrampolineVpn
<1>6. Floor(x) # n - 1
  <2> SUFFICES ASSUME Floor(x) = n - 1 PROVE FALSE
    OBVIOUS
  <2>1. PageOffset(x) \in 0 .. P - 1 /\ x = (n - 1) * P + PageOffset(x)
    BY AddressParts
  <2> HIDE DEF n, P
  <2>2. PICK k \in Nat : n = 2 + k
    <3>1. n - 2 \in Nat /\ n = 2 + (n - 2)
      BY <1>4
    <3>2. QED
      BY <3>1
  <2>3. (n - 1) * P = P + k * P /\ n * P = P + P + k * P /\ k * P \in Nat
    BY <1>4, <2>2
  <2>4. QED
    BY <1>1, <1>4, <2>1, <2>3
<1>7. QED
  BY <1>2, <1>3, <1>5, <1>6

(* The addresses the kernel may write to are those of pages of the memory  *)
(* set.                                                                    *)
LEMMA AccessiblePages ==
  ASSUME PagesInv, op = Idle, NEW s \in Sets, status[s] = "live",
         NEW ptr, NEW len, InLowerHalf(ptr, len), Accessible(s, ptr, len)
  PROVE  \A x \in ptr .. ptr + len - 1 :
           /\ x \in Nat /\ x < VaEnd \div 2
           /\ Floor(x) \in PagesIn(areas[s]) /\ x \in Addrs(PagesIn(areas[s]))
           /\ FindPte(root[s], Floor(x)).ppn = FrameAt(areas[s], Floor(x))
<1> SUFFICES ASSUME NEW x \in ptr .. ptr + len - 1
             PROVE  /\ x \in Nat /\ x < VaEnd \div 2
                    /\ Floor(x) \in PagesIn(areas[s]) /\ x \in Addrs(PagesIn(areas[s]))
                    /\ FindPte(root[s], Floor(x)).ppn = FrameAt(areas[s], Floor(x))
  OBVIOUS
<1>1. x \in Nat /\ x < VaEnd \div 2
  BY Half DEF InLowerHalf
<1>2. VirtAddr(x) = x /\ Floor(x) \in Vpns /\ Floor(x) # TrampolineVpn
  BY <1>1, LowerHalf
<1>3. IsMapped(root[s], Floor(x))
  BY <1>2 DEF Accessible
<1>4. Floor(x) \in PagesIn(areas[s])
  BY <1>2, <1>3, PagesFound
<1>5. x \in Addrs(PagesIn(areas[s]))
  BY <1>1, <1>4, AddrsOf, PagesAreInts
<1>6. QED
  BY <1>1, <1>4, <1>5, PagesFound

(* From bytes b to e, exactly the bytes ptr .. ptr + len - 1 of the pages  *)
(* of list A changed.                                                      *)
Written(A, ptr, len, b, e) ==
    /\ \A x \in ptr .. ptr + len - 1 :
         /\ x \in Addrs(PagesIn(A))
         /\ e[FrameAt(A, Floor(x))][PageOffset(x)] = -(x - ptr + 1)
    /\ \A f \in Frames, i \in 0 .. PageSize - 1 :
         (\A x \in ptr .. ptr + len - 1 : FrameAt(A, Floor(x)) # f \/ PageOffset(x) # i)
           => e[f][i] = b[f][i]

(* So the space sees the write, and no other space does.                   *)
LEMMA WriteSpaces ==
  ASSUME PagesInv, PagesInv', NEW s \in Sets, status[s] = "live",
         areas' = areas, status' = status,
         NEW ptr \in Nat, NEW len \in Nat, Written(areas[s], ptr, len, byte, byte')
  PROVE  Private!Write(s, ptr, len)
<1> DEFINE A == areas[s]
           e == byte'
           window == ptr .. ptr + len - 1
<1>0. /\ byte \in [Frames -> [0 .. PageSize - 1 -> Int]]
      /\ e \in [Frames -> [0 .. PageSize - 1 -> Int]]
  BY DEF PagesInv, PageTypeOK
<1>1. /\ A \in Seq(Area)
      /\ \A v, w \in PagesIn(A) : FrameAt(A, v) = FrameAt(A, w) => v = w
  BY PagesFound
<1>2. View(s) = Seen(A, byte) /\ View(s)' = Seen(A, e)
  <2>1. View(s)' = Seen(areas'[s], byte')
    BY ViewIsNext
  <2>2. QED
    BY <2>1, ViewIs
<1>a. \A t \in Sets : PageFrames(areas[t]) \subseteq Before(t)
  BY Disjoint
<1>b. \A t, u \in Sets : t # u => Before(t) \cap Before(u) = {}
  BY Disjoint
<1> HIDE DEF e
<1>3. \A x \in window : /\ x \in Addrs(PagesIn(A)) /\ x \in Int /\ Floor(x) \in PagesIn(A)
                        /\ FrameAt(A, Floor(x)) \in PageFrames(A)
                        /\ e[FrameAt(A, Floor(x))][PageOffset(x)] = -(x - ptr + 1)
  <2> SUFFICES ASSUME NEW x \in window
               PROVE  /\ x \in Addrs(PagesIn(A)) /\ x \in Int /\ Floor(x) \in PagesIn(A)
                      /\ FrameAt(A, Floor(x)) \in PageFrames(A)
                      /\ e[FrameAt(A, Floor(x))][PageOffset(x)] = -(x - ptr + 1)
    OBVIOUS
  <2>1. x \in Addrs(PagesIn(A)) /\ e[FrameAt(A, Floor(x))][PageOffset(x)] = -(x - ptr + 1)
    BY DEF Written, e
  <2>2. x \in Int /\ Floor(x) \in PagesIn(A)
    BY <2>1, AddrsOf, PagesAreInts
  <2> HIDE DEF A
  <2>3. QED
    BY <1>1, <2>1, <2>2, FrameFound
<1>4. \A f \in Frames, i \in 0 .. PageSize - 1 :
        (\A x \in window : FrameAt(A, Floor(x)) # f \/ PageOffset(x) # i) => e[f][i] = byte[f][i]
  BY DEF Written, e
<1>5. ASSUME NEW t \in Sets, t # s PROVE View(t)' = View(t)
  <2>1. ASSUME NEW f \in PageFrames(areas[t]) PROVE e[f] = byte[f]
    <3>1. f \in Frames /\ f \notin PageFrames(A)
      BY <1>5, <1>a, <1>b, <2>1 DEF PageFrames
    <3>2. \A i \in 0 .. PageSize - 1 : e[f][i] = byte[f][i]
      BY <1>3, <1>4, <3>1
    <3>3. e[f] \in [0 .. PageSize - 1 -> Int] /\ byte[f] \in [0 .. PageSize - 1 -> Int]
      BY <1>0, <3>1
    <3> DEFINE g == e[f]
               h == byte[f]
               D == 0 .. PageSize - 1
    <3>4. g \in [D -> Int] /\ h \in [D -> Int] /\ \A i \in D : g[i] = h[i]
      BY <3>2, <3>3
    <3> HIDE DEF g, h, D
    <3>5. g = h
      BY <3>4
    <3>6. QED
      BY <3>5 DEF g, h
  <2>2. QED
    BY <2>1, ViewKept DEF e
<1>6. \A x \in Addrs(PagesIn(A)) :
        Seen(A, e)[x] = IF x \in window THEN -(x - ptr + 1) ELSE Seen(A, byte)[x]
  <2> SUFFICES ASSUME NEW x \in Addrs(PagesIn(A))
               PROVE  Seen(A, e)[x] = IF x \in window THEN -(x - ptr + 1) ELSE Seen(A, byte)[x]
    OBVIOUS
  <2> DEFINE v == Floor(x)
             i == PageOffset(x)
             f == FrameAt(A, v)
  <2>1. x \in Int /\ v \in PagesIn(A) /\ x = v * PageSize + i /\ i \in 0 .. PageSize - 1
    BY AddrsOf, PagesAreInts, AddressParts
  <2>2. Seen(A, e)[x] = e[f][i] /\ Seen(A, byte)[x] = byte[f][i]
    BY DEF Seen
  <2>3. f \in Frames
    <3> HIDE DEF A, v
    <3>1. QED
      BY <1>1, <2>1, FrameFound
  <2>4. CASE x \in window
    BY <1>3, <2>2, <2>4
  <2>5. CASE x \notin window
    <3>1. ASSUME NEW y \in window, FrameAt(A, Floor(y)) = f, PageOffset(y) = i PROVE FALSE
      <4>1. Floor(y) = v /\ y = Floor(y) * PageSize + PageOffset(y)
        BY <1>1, <1>3, <2>1, <3>1, AddressParts
      <4>2. y = x
        BY <2>1, <3>1, <4>1
      <4>3. QED
        BY <2>5, <3>1, <4>2
    <3>2. e[f][i] = byte[f][i]
      BY <1>4, <2>1, <2>3, <3>1
    <3>3. QED
      BY <2>2, <2>5, <3>2
  <2>6. QED
    BY <2>4, <2>5
<1>7. DOMAIN Seen(A, byte) = Addrs(PagesIn(A)) /\ DOMAIN Seen(A, e) = Addrs(PagesIn(A))
      /\ Seen(A, e) = [x \in Addrs(PagesIn(A)) |-> Seen(A, e)[x]]
  BY DEF Seen
<1> HIDE DEF A
<1>8. Seen(A, e) = [x \in DOMAIN Seen(A, byte) |->
                      IF x \in window THEN -(x - ptr + 1) ELSE Seen(A, byte)[x]]
  BY <1>6, <1>7
<1> DEFINE W == View(s)'
<1>9. Views' = [Views EXCEPT ![s] = W] /\ Views[s] = View(s)
  BY <1>5, ViewsKept
<1>10. W = Seen(A, e)
  BY <1>2
<1> HIDE DEF W
<1>11. /\ window \subseteq DOMAIN Views[s]
       /\ Views' = [Views EXCEPT ![s] = [x \in DOMAIN Views[s] |->
                      IF x \in window THEN -(x - ptr + 1) ELSE Views[s][x]]]
  BY <1>2, <1>3, <1>7, <1>8, <1>9, <1>10
<1>12. QED
  BY <1>11 DEF Private!Write, Views

(* The places of len bytes.                                                *)
LEMMA StretchIs ==
  ASSUME NEW r, NEW ptr \in Nat, NEW len \in Nat
  PROVE  /\ Len(Stretch(r, ptr, ptr + len)) = len
         /\ \A k \in 1 .. len : Stretch(r, ptr, ptr + len)[k] = Place(r, ptr + k - 1)
<1> DEFINE end == ptr + len
<1>1. end - ptr = len
  OBVIOUS
<1> HIDE DEF end
<1>2. Stretch(r, ptr, end) = [k \in 1 .. len |-> Place(r, ptr + k - 1)]
  BY <1>1 DEF Stretch
<1>3. QED
  BY <1>2 DEF end

(* write_user_bytes writes the bytes of the buffer, in order.              *)
LEMMA BufferWritten ==
  ASSUME PagesInv, PagesInv', NEW s \in UserSets, NEW ptr, NEW len, InLowerHalf(ptr, len),
         WriteBuffer(s, ptr, len)
  PROVE  Private!Write(s, ptr, len)
<1> DEFINE A == areas[s]
           r == root[s]
           e == byte'
           window == ptr .. ptr + len - 1
           places == TranslatedByteBuffer(r, ptr, len)
<1>0. /\ s \in Sets /\ status[s] = "live" /\ op = Idle /\ ptr \in Nat /\ len \in Nat
      /\ areas' = areas /\ status' = status /\ Accessible(s, ptr, len)
  BY DEF WriteBuffer, Begins, Ready, Sets, InLowerHalf
<1>1. e = [f \in Frames |-> [i \in 0 .. PageSize - 1 |->
             IF \E k \in 1 .. Len(places) : places[k] = <<f, i>>
             THEN -(CHOOSE k \in 1 .. Len(places) : places[k] = <<f, i>>)
             ELSE byte[f][i]]]
  BY DEF WriteBuffer
<1>2. \A x \in window :
        /\ x \in Nat /\ Floor(x) \in PagesIn(A) /\ x \in Addrs(PagesIn(A))
        /\ FindPte(r, Floor(x)).ppn = FrameAt(A, Floor(x))
  BY <1>0, AccessiblePages
<1>3. A \in Seq(Area) /\ \A v, w \in PagesIn(A) : FrameAt(A, v) = FrameAt(A, w) => v = w
  BY <1>0, PagesFound
<1>4. Len(places) = len /\ \A k \in 1 .. len : places[k] = Place(r, ptr + k - 1)
  <2>1. places = Stretch(r, ptr, ptr + len)
    BY BufferPlaces
  <2>2. \A k \in 1 .. len : Stretch(r, ptr, ptr + len)[k] = Place(r, ptr + k - 1)
    BY <1>0, StretchIs
  <2>3. Len(Stretch(r, ptr, ptr + len)) = len
    BY <1>0, StretchIs
  <2> HIDE DEF places
  <2>4. QED
    BY <2>1, <2>2, <2>3
<1> HIDE DEF A, r, e, places
<1>5. \A k \in 1 .. len : /\ ptr + k - 1 \in window
                          /\ places[k] = <<FrameAt(A, Floor(ptr + k - 1)), PageOffset(ptr + k - 1)>>
  <2> SUFFICES ASSUME NEW k \in 1 .. len
               PROVE  /\ ptr + k - 1 \in window
                      /\ places[k] = <<FrameAt(A, Floor(ptr + k - 1)), PageOffset(ptr + k - 1)>>
    OBVIOUS
  <2>1. ptr + k - 1 \in window
    BY <1>0
  <2>2. QED
    BY <1>2, <1>4, <2>1 DEF Place
<1>6. ASSUME NEW x \in window, NEW y \in window, FrameAt(A, Floor(x)) = FrameAt(A, Floor(y)),
             PageOffset(x) = PageOffset(y)
      PROVE  x = y
  <2>1. Floor(x) = Floor(y)
    BY <1>2, <1>3, <1>6
  <2>2. x = Floor(x) * PageSize + PageOffset(x) /\ y = Floor(y) * PageSize + PageOffset(y)
    BY <1>2, AddressParts
  <2>3. QED
    BY <1>6, <2>1, <2>2
<1>7. ASSUME NEW x \in window
      PROVE  e[FrameAt(A, Floor(x))][PageOffset(x)] = -(x - ptr + 1)
  <2> DEFINE f == FrameAt(A, Floor(x))
             i == PageOffset(x)
             m == x - ptr + 1
             k == CHOOSE k \in 1 .. Len(places) : places[k] = <<f, i>>
  <2>1. m \in 1 .. len /\ ptr + m - 1 = x
    BY <1>0
  <2>2. f \in Frames /\ i \in 0 .. PageSize - 1
    BY <1>2, <1>3, FrameFound, AddressParts
  <2> HIDE DEF m
  <2>3. places[m] = <<f, i>>
    BY <1>5, <2>1
  <2>4. k \in 1 .. len /\ places[k] = <<f, i>> /\ \E j \in 1 .. Len(places) : places[j] = <<f, i>>
    BY <1>4, <2>1, <2>3
  <2>5. e[f][i] = -k
    BY <1>1, <2>2, <2>4
  <2> HIDE DEF k
  <2>6. ptr + k - 1 \in window /\ FrameAt(A, Floor(ptr + k - 1)) = f /\ PageOffset(ptr + k - 1) = i
    BY <1>5, <2>4
  <2>7. ptr + k - 1 = x
    BY <1>6, <2>6
  <2>8. k = m
    BY <1>0, <2>1, <2>4, <2>7
  <2>9. QED
    BY <2>5, <2>8 DEF m
<1>8. ASSUME NEW f \in Frames, NEW i \in 0 .. PageSize - 1,
             \A x \in window : FrameAt(A, Floor(x)) # f \/ PageOffset(x) # i
      PROVE  e[f][i] = byte[f][i]
  <2>1. ~\E k \in 1 .. Len(places) : places[k] = <<f, i>>
    BY <1>4, <1>5, <1>8
  <2>2. QED
    BY <1>1, <2>1
<1>9. Written(A, ptr, len, byte, e)
  BY <1>2, <1>7, <1>8 DEF Written
<1>10. QED
  BY <1>0, <1>9, WriteSpaces DEF A, e

(* An integer does not cross the end of a page.                            *)
LEMMA InOnePage ==
  ASSUME NEW ptr \in Refs
  PROVE  /\ ptr \in Nat /\ RefSize \in Nat /\ RefSize > 0
         /\ PageOffset(ptr) + RefSize =< PageSize
         /\ \A x \in ptr .. ptr + RefSize - 1 :
              Floor(x) = Floor(ptr) /\ PageOffset(x) = PageOffset(ptr) + (x - ptr)
<1> DEFINE R == RefSize
           P == PageSize
           n == P \div R
           j == ptr \div R
           q == Floor(ptr)
           off == PageOffset(ptr)
<1>1. ptr \in Nat /\ R \in Nat /\ R > 0 /\ P \in Nat /\ P % R = 0 /\ ptr % R = 0
  BY PageAssumption
<1> HIDE DEF R, P
<1>2. /\ n \in Int /\ P = n * R
      /\ j \in Int /\ ptr = j * R
  <2>1. ASSUME NEW w \in Nat, w % R = 0 PROVE w \div R \in Int /\ w = (w \div R) * R
    <3> DEFINE x == w \div R
               y == w % R
    <3>1. x \in Int /\ w = x * R + y
      BY <1>1, Division
    <3>2. y = 0
      BY <2>1
    <3> HIDE DEF x, y
    <3>3. x * R \in Int
      BY <1>1, <3>1
    <3>4. w = x * R
      BY <3>1, <3>2, <3>3
    <3>5. QED
      BY <3>1, <3>4 DEF x
  <2>2. QED
    BY <1>1, <2>1
<1> HIDE DEF n, j
<1>3. q \in Int /\ off \in 0 .. P - 1 /\ ptr = q * P + off
  BY <1>1, AddressParts DEF P
<1> HIDE DEF q, off
<1>4. off = (j - q * n) * R
  <2>1. q * P = (q * n) * R /\ q * n \in Int
    BY <1>1, <1>2, <1>3
  <2> DEFINE m == q * n
  <2> HIDE DEF m
  <2>2. m \in Int /\ q * P = m * R
    BY <2>1 DEF m
  <2>3. (j - m) * R = j * R - m * R /\ j * R \in Int /\ m * R \in Int
    BY <1>1, <1>2, <2>2
  <2>4. off = j * R - m * R
    BY <1>2, <1>3, <2>2, <2>3
  <2>5. QED
    BY <2>3, <2>4 DEF m
<1>5. off + R =< P
  <2> DEFINE m == j - q * n
  <2>1. m \in Int
    <3>1. q * n \in Int
      BY <1>2, <1>3
    <3>2. QED
      BY <1>2, <3>1
  <2> HIDE DEF m
  <2>2. off = m * R
    BY <1>4 DEF m
  <2>3. m * R < n * R
    BY <1>2, <1>3, <2>2
  <2>4. (m + 1) * R =< n * R
    BY <1>1, <1>2, <2>1, <2>3, Multiples
  <2>5. (m + 1) * R = m * R + R /\ m * R \in Int
    BY <1>1, <2>1
  <2>6. QED
    BY <1>2, <2>2, <2>4, <2>5
<1>6. ASSUME NEW x \in ptr .. ptr + R - 1
      PROVE  Floor(x) = q /\ PageOffset(x) = off + (x - ptr)
  <2> DEFINE i == off + (x - ptr)
  <2>1. i \in 0 .. P - 1 /\ x = q * P + i
    <3>1. q * P \in Int
      BY <1>1, <1>3
    <3>2. QED
      BY <1>1, <1>3, <1>5, <3>1
  <2> HIDE DEF i
  <2>2. QED
    BY <1>3, <2>1, AddressParts DEF i, P
<1>7. QED
  BY <1>1, <1>5, <1>6 DEF R, P, q, off

(* A store through translated_refmut writes the bytes of the integer.      *)
LEMMA RefWritten ==
  ASSUME PagesInv, PagesInv', NEW s \in UserSets, NEW ptr \in Refs, WriteRef(s, ptr)
  PROVE  Private!Write(s, ptr, RefSize)
<1> DEFINE A == areas[s]
           r == root[s]
           e == byte'
           window == ptr .. ptr + RefSize - 1
           P == PageSize
           F == FrameAt(A, Floor(ptr))
           off == PageOffset(ptr)
           pa == TranslateVa(r, VirtAddr(ptr))
<1>0. /\ s \in Sets /\ status[s] = "live" /\ op = Idle
      /\ areas' = areas /\ status' = status /\ Accessible(s, ptr, RefSize)
      /\ InLowerHalf(ptr, RefSize)
  BY UserAssumption DEF WriteRef, Begins, Ready, Sets
<1>1. e = [f \in Frames |-> [i \in 0 .. PageSize - 1 |->
             IF f * PageSize + i \in pa .. pa + RefSize - 1
             THEN -(f * PageSize + i - pa + 1) ELSE byte[f][i]]]
  BY DEF WriteRef
<1>2. \A x \in window :
        /\ x \in Nat /\ x < VaEnd \div 2 /\ Floor(x) \in PagesIn(A) /\ x \in Addrs(PagesIn(A))
        /\ FindPte(r, Floor(x)).ppn = FrameAt(A, Floor(x))
  BY <1>0, AccessiblePages
<1>3. A \in Seq(Area)
  BY <1>0, PagesFound
<1>4. /\ ptr \in Nat /\ RefSize \in Nat /\ RefSize > 0 /\ off + RefSize =< P
      /\ \A x \in window : Floor(x) = Floor(ptr) /\ PageOffset(x) = off + (x - ptr)
  BY InOnePage
<1>5. ptr \in window /\ off \in 0 .. P - 1 /\ P \in Nat
  BY <1>4, Sizes, AddressParts
<1>6. F \in Frames /\ F \in Int /\ pa = F * P + off
  <2>1. VirtAddr(ptr) = ptr
    BY <1>2, <1>5, LowerHalf
  <2>2. FindPte(r, Floor(ptr)).ppn = F
    BY <1>2, <1>5
  <2>3. F \in Frames
    BY <1>2, <1>3, <1>5, FrameFound
  <2>4. F \in Int
    BY <2>3, Sizes DEF Frames
  <2>5. QED
    BY <2>1, <2>2, <2>3, <2>4 DEF TranslateVa
<1> HIDE DEF A, r, e, F, off, pa, P
<1>7. ASSUME NEW f \in Frames, NEW i \in 0 .. P - 1
      PROVE  /\ f * P + i \in pa .. pa + RefSize - 1 <=> f = F /\ i - off \in 0 .. RefSize - 1
             /\ f = F => f * P + i - pa + 1 = i - off + 1
  <2>0. f \in Int /\ f * P \in Int /\ F * P \in Int /\ i \in Int
    BY <1>5, <1>6, Sizes DEF Frames
  <2>1. ASSUME f * P + i \in pa .. pa + RefSize - 1 PROVE f = F /\ i - off \in 0 .. RefSize - 1
    <3> DEFINE d == f * P + i - pa
    <3>1. d \in 0 .. RefSize - 1 /\ f * P + i = F * P + (off + d)
      BY <1>4, <1>5, <1>6, <2>0, <2>1
    <3> HIDE DEF d
    <3>2. off + d \in 0 .. P - 1
      BY <1>4, <1>5, <3>1
    <3>3. f = F /\ i = off + d
      BY <1>5, <1>6, <2>0, <3>1, <3>2, DivisionUnique
    <3>4. QED
      BY <1>5, <3>1, <3>3
  <2>2. ASSUME f = F PROVE f * P + i - pa = i - off
    BY <1>5, <1>6, <2>0, <2>2
  <2>3. ASSUME f = F, i - off \in 0 .. RefSize - 1 PROVE f * P + i \in pa .. pa + RefSize - 1
    BY <1>4, <1>5, <1>6, <2>0, <2>3
  <2>4. QED
    BY <2>1, <2>2, <2>3
<1>8. ASSUME NEW x \in window
      PROVE  e[FrameAt(A, Floor(x))][PageOffset(x)] = -(x - ptr + 1)
  <2> DEFINE i == PageOffset(x)
  <2>1. FrameAt(A, Floor(x)) = F
    BY <1>4 DEF F
  <2>2. i - off = x - ptr /\ i \in 0 .. P - 1 /\ x - ptr \in 0 .. RefSize - 1
    BY <1>4, <1>5
  <2> HIDE DEF i
  <2>3. F * P + i \in pa .. pa + RefSize - 1 /\ F * P + i - pa + 1 = x - ptr + 1
    BY <1>6, <1>7, <2>2
  <2>4. e[F][i] = -(F * P + i - pa + 1)
    BY <1>1, <1>6, <2>2, <2>3 DEF P
  <2>5. QED
    BY <2>1, <2>3, <2>4 DEF i
<1>9. ASSUME NEW f \in Frames, NEW i \in 0 .. PageSize - 1,
             \A x \in window : FrameAt(A, Floor(x)) # f \/ PageOffset(x) # i
      PROVE  e[f][i] = byte[f][i]
  <2>1. ASSUME f * P + i \in pa .. pa + RefSize - 1 PROVE FALSE
    <3> DEFINE x == ptr + (i - off)
    <3>1. f = F /\ i - off \in 0 .. RefSize - 1
      BY <1>7, <2>1 DEF P
    <3>2. x \in window /\ x - ptr = i - off /\ i \in Int
      BY <1>4, <1>5, <3>1
    <3> HIDE DEF x
    <3>3. PageOffset(x) = i
      BY <1>4, <1>5, <3>2
    <3>4. FrameAt(A, Floor(x)) = f
      BY <1>4, <3>1, <3>2 DEF F
    <3>5. QED
      BY <1>9, <3>2, <3>3, <3>4
  <2>2. QED
    BY <1>1, <2>1 DEF P
<1>10. Written(A, ptr, RefSize, byte, e)
  BY <1>2, <1>8, <1>9 DEF Written
<1>11. QED
  BY <1>0, <1>4, <1>10, WriteSpaces DEF A, e

-------------------------------------------------------------------------------
(* The refinement. *)

(* At first no space maps anything, and no loop is running.                *)
LEMMA InitSpaces == PageInit => Private!SpacesInit /\ LoadInv
<1> SUFFICES ASSUME PageInit PROVE Private!SpacesInit /\ LoadInv
  OBVIOUS
<1>1. PagesInv
  BY InitPages
<1>2. LoadInv
  BY IdleLoads DEF PageInit
<1>3. ASSUME NEW s \in Sets PROVE View(s) = [a \in {} |-> 0]
  <2>1. areas[s] = <<>>
    BY <1>3 DEF PageInit
  <2>2. PagesIn(<<>>) = {}
    <3>1. Len(<<>>) = 0 /\ 1 .. 0 = {}
      OBVIOUS
    <3>2. QED
      BY <3>1 DEF PagesIn, Owns
  <2>3. Seen(<<>>, byte) = [a \in {} |-> 0]
    BY <2>2, NoAddrs DEF Seen
  <2>4. QED
    BY <1>1, <1>3, <2>1, <2>3, ViewIs
<1>4. [s \in Sets |-> View(s)] = [s \in Sets |-> Private!Nothing]
  BY <1>3 DEF Private!Nothing
<1>5. QED
  BY <1>2, <1>4 DEF Private!SpacesInit

(* Every step is a step of the spaces or changes none of them.             *)
LEMMA StepSpaces ==
  PagesInv /\ PagesInv' /\ LoadInv /\ [PageNext]_ptVars => Private!SpacesNext \/ UNCHANGED Views
<1> SUFFICES ASSUME PagesInv, PagesInv', LoadInv, [PageNext]_ptVars
             PROVE  Private!SpacesNext \/ UNCHANGED Views
  OBVIOUS
<1>1. CASE UNCHANGED ptVars
  <2>1. \A s \in Sets : View(s)' = View(s)
    BY <1>1, ViewKept DEF ptVars
  <2>2. QED
    BY <2>1, ViewsKept
<1>2. ASSUME NEW s \in UserSets, NEW prog \in Programs, FromElf(s, prog) PROVE UNCHANGED Views
  BY <1>2, NewSetViews DEF FromElf
<1>3. ASSUME NEW s \in UserSets, NEW t \in UserSets, FromExistedUser(s, t)
      PROVE  UNCHANGED Views
  BY <1>3, NewSetViews DEF FromExistedUser
<1>4. ASSUME NEW s \in UserSets, AllocateContext(s) PROVE UNCHANGED Views
  BY <1>4, InsertViews DEF AllocateContext
<1>5. ASSUME NEW pid \in Pids, KernelStackNew(pid) PROVE UNCHANGED Views
  BY <1>5, InsertViews DEF KernelStackNew
<1>6. ASSUME NEW pid \in Pids, KernelStackDrop(pid) PROVE Private!SpacesNext
  <2>1. Kernel \in Sets
    BY DEF Sets
  <2>2. QED
    BY <1>6, <2>1, StackDropRemoves DEF Private!SpacesNext
<1>7. ASSUME NEW s \in UserSets, RecycleDataPages(s) \/ DropSet(s) PROVE Private!SpacesNext
  <2>1. s \in Sets
    BY DEF Sets
  <2>2. QED
    BY <1>7, <2>1, RecycleRemoves, DropRemoves DEF Private!SpacesNext
<1>8. ASSUME NEW s \in UserSets, NEW b \in Buffers, WriteBuffer(s, b[1], b[2])
      PROVE  Private!SpacesNext
  <2>1. s \in Sets /\ InLowerHalf(b[1], b[2])
    BY UserAssumption DEF Sets
  <2>2. Private!Write(s, b[1], b[2])
    BY <1>8, <2>1, BufferWritten
  <2>3. QED
    BY <2>1, <2>2 DEF Private!SpacesNext
<1>9. ASSUME NEW s \in UserSets, NEW va \in Refs, WriteRef(s, va) PROVE Private!SpacesNext
  <2> DEFINE w == <<va, RefSize>>
  <2>1. s \in Sets /\ w \in {<<a, RefSize>> : a \in Refs} /\ w[1] = va /\ w[2] = RefSize
    BY DEF Sets
  <2>2. Private!Write(s, w[1], w[2])
    BY <1>9, <2>1, RefWritten
  <2> HIDE DEF w
  <2>3. QED
    BY <2>1, <2>2 DEF Private!SpacesNext
<1>10. QED
  BY <1>1, <1>2, <1>3, <1>4, <1>5, <1>6, <1>7, <1>8, <1>9, MapOneViews, PushSpaces DEF PageNext

(* Page tables implement private address spaces: a program that is loaded  *)
(* has the bytes of its file at its addresses and zeros behind them, a     *)
(* forked space is a copy, and a write of the kernel through               *)
(* translated_byte_buffer or translated_refmut changes exactly the bytes   *)
(* it names, in order, in one space.                                       *)
THEOREM PagesImplementSpaces == PageSpec => ImplementsSpaces
<1>1. PageInit => PagesInv /\ LoadInv /\ Private!SpacesInit
  BY InitPages, InitSpaces
<1>2. PagesInv /\ LoadInv /\ [PageNext]_ptVars => PagesInv' /\ LoadInv'
  BY StepPages, StepLoads
<1>3. PagesInv /\ LoadInv /\ [PageNext]_ptVars /\ PagesInv'
        => [Private!SpacesNext]_[s \in Sets |-> View(s)]
  BY StepSpaces DEF Views
<1>4. QED
  BY <1>1, <1>2, <1>3, PTL DEF PageSpec, ImplementsSpaces, Private!SpacesSpec
===============================================================================
