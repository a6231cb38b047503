-------------------------- MODULE AgentMemoryProofs ---------------------------
(***************************************************************************)
(* No frame is leaked, shared or freed twice, and no task sees the data of *)
(* a dead or replaced program, for every number of frames and tasks and    *)
(* every size of stacks, images and Context areas.                         *)
(*                                                                         *)
(* The invariants the run checks are not inductive as they stand: a fork   *)
(* is safe because a free pid holds no frame, and a write because a task's *)
(* program is in its own lineage.  Counting the places of a frame is       *)
(* replaced by FramesOnce, which says the same with disjoint sets.         *)
(***************************************************************************)
EXTENDS AgentMemory, TLAPS, FiniteSetTheorems

(* The frames of a task's parts.                                           *)
Held(s) == UNION {Of(s[part]) : part \in Parts}

(* No frame is twice in a task's parts.                                    *)
Exclusive(s) ==
    /\ \A part \in Parts : IsInjective(s[part])
    /\ \A a, b \in Parts : a # b => Of(s[a]) \cap Of(s[b]) = {}

(* Every frame below `fresh`, and no other, is in one place.               *)
FramesOnce ==
    /\ IsInjective(recycled)
    /\ \A p \in Pids : Exclusive(space[p])
    /\ \A p \in Pids : Held(space[p]) \cap Of(recycled) = {}
    /\ \A p, q \in Pids : p # q => Held(space[p]) \cap Held(space[q]) = {}
    /\ \A f \in Frames : f < fresh <=> \/ f \in Of(recycled)
                                       \/ \E p \in Pids : f \in Held(space[p])

FreeHoldsNothing == \A p \in Pids : state[p] = "Free" => space[p] = NoSpace

OwnProgram == \A p \in Pids : label[p] \in lineage[p]

(* The inductive invariant.                                                *)
MemInv ==
    /\ MemTypeOK /\ FramesOnce /\ FreeHoldsNothing /\ OwnProgram
    /\ MappingsOwned /\ PrivateData

-------------------------------------------------------------------------------
(* The frames of a sequence, by index.                                     *)
LEMMA InOf ==
  ASSUME NEW S, NEW s \in Seq(S), NEW f
  PROVE  f \in Of(s) <=> \E i \in 1 .. Len(s) : s[i] = f
BY DEF Of, ToSet

(* A segment of a sequence.                                                *)
LEMMA CutOf ==
  ASSUME NEW S, NEW s \in Seq(S), NEW l \in Nat \ {0}, NEW m \in Nat,
         l =< m + 1, m =< Len(s)
  PROVE  /\ SubSeq(s, l, m) \in Seq(S)
         /\ Len(SubSeq(s, l, m)) = m + 1 - l
         /\ \A i \in 1 .. m + 1 - l : SubSeq(s, l, m)[i] = s[l + i - 1]
         /\ \A f : f \in Of(SubSeq(s, l, m)) <=> \E i \in l .. m : s[i] = f
         /\ IsInjective(s) => IsInjective(SubSeq(s, l, m))
<1> DEFINE c == SubSeq(s, l, m)
<1>1. /\ Len(c) = m + 1 - l
      /\ \A i \in 1 .. m + 1 - l : c[i] = s[l + i - 1]
  OBVIOUS
<1>2. c \in Seq(S)
  OBVIOUS
<1> HIDE DEF c
<1>3. ASSUME NEW f PROVE f \in Of(c) <=> \E i \in l .. m : s[i] = f
  <2>1. ASSUME f \in Of(c) PROVE \E i \in l .. m : s[i] = f
    <3>1. PICK i \in 1 .. m + 1 - l : c[i] = f
      BY <1>1, <1>2, <2>1, InOf
    <3>2. l + i - 1 \in l .. m /\ s[l + i - 1] = f
      BY <1>1, <3>1
    <3>3. QED
      BY <3>2
  <2>2. ASSUME NEW i \in l .. m, s[i] = f PROVE f \in Of(c)
    <3>1. i + 1 - l \in 1 .. m + 1 - l /\ l + (i + 1 - l) - 1 = i
      OBVIOUS
    <3>2. c[i + 1 - l] = f
      BY <1>1, <2>2, <3>1
    <3>3. QED
      BY <1>1, <1>2, <3>1, <3>2, InOf
  <2>3. QED
    BY <2>1, <2>2
<1>4. ASSUME IsInjective(s) PROVE IsInjective(c)
  <2> SUFFICES ASSUME NEW i \in 1 .. m + 1 - l, NEW j \in 1 .. m + 1 - l, c[i] = c[j]
               PROVE  i = j
    BY <1>1, <1>2 DEF IsInjective
  <2>0. s[l + i - 1] = s[l + j - 1]
    BY <1>1
  <2>1. s[l + i - 1] = s[l + j - 1] /\ l + i - 1 \in 1 .. Len(s) /\ l + j - 1 \in 1 .. Len(s)
    BY <2>0
  <2>2. l + i - 1 = l + j - 1
    BY <1>4, <2>1 DEF IsInjective
  <2>3. QED
    BY <2>2
<1>5. QED
  BY <1>1, <1>2, <1>3, <1>4 DEF c

(* Two sequences joined.                                                   *)
LEMMA JoinOf ==
  ASSUME NEW S, NEW s \in Seq(S), NEW t \in Seq(S)
  PROVE  /\ s \o t \in Seq(S)
         /\ Len(s \o t) = Len(s) + Len(t)
         /\ Of(s \o t) = Of(s) \cup Of(t)
         /\ IsInjective(s) /\ IsInjective(t) /\ Of(s) \cap Of(t) = {} => IsInjective(s \o t)
<1> DEFINE j == s \o t
<1>1. /\ j \in Seq(S)
      /\ Len(j) = Len(s) + Len(t)
      /\ \A i \in 1 .. Len(s) : j[i] = s[i]
      /\ \A i \in Len(s) + 1 .. Len(s) + Len(t) : j[i] = t[i - Len(s)]
  OBVIOUS
<1>0. Len(s) \in Nat /\ Len(t) \in Nat
  OBVIOUS
<1> HIDE DEF j
<1>2. ASSUME NEW f PROVE f \in Of(j) <=> f \in Of(s) \/ f \in Of(t)
  <2>1. ASSUME f \in Of(j) PROVE f \in Of(s) \/ f \in Of(t)
    <3>1. PICK i \in 1 .. Len(s) + Len(t) : j[i] = f
      BY <1>1, <2>1, InOf
    <3>2. CASE i =< Len(s)
      BY <1>0, <1>1, <3>1, <3>2, InOf
    <3>3. CASE i > Len(s)
      <4>1. i - Len(s) \in 1 .. Len(t) /\ t[i - Len(s)] = f
        BY <1>0, <1>1, <3>1, <3>3
      <4>2. QED
        BY <4>1, InOf
    <3>4. QED
      BY <1>0, <3>2, <3>3
  <2>2. ASSUME f \in Of(s) PROVE f \in Of(j)
    <3>1. PICK i \in 1 .. Len(s) : s[i] = f
      BY <2>2, InOf
    <3>2. i \in 1 .. Len(j) /\ j[i] = f
      BY <1>0, <1>1, <3>1
    <3>3. QED
      BY <1>1, <3>2, InOf
  <2>3. ASSUME f \in Of(t) PROVE f \in Of(j)
    <3>1. PICK i \in 1 .. Len(t) : t[i] = f
      BY <2>3, InOf
    <3>2. /\ i + Len(s) \in Len(s) + 1 .. Len(s) + Len(t)
          /\ (i + Len(s)) - Len(s) = i
          /\ i + Len(s) \in 1 .. Len(j)
      BY <1>0, <1>1
    <3>3. j[i + Len(s)] = t[(i + Len(s)) - Len(s)]
      BY <1>1, <3>2
    <3>4. QED
      BY <1>1, <3>1, <3>2, <3>3, InOf
  <2>4. QED
    BY <2>1, <2>2, <2>3
<1>3. ASSUME IsInjective(s), IsInjective(t), Of(s) \cap Of(t) = {} PROVE IsInjective(j)
  <2> SUFFICES ASSUME NEW a \in 1 .. Len(s) + Len(t), NEW b \in 1 .. Len(s) + Len(t),
                      j[a] = j[b]
               PROVE  a = b
    BY <1>1 DEF IsInjective
  <2>1. CASE a =< Len(s) /\ b =< Len(s)
    BY <1>0, <1>1, <1>3, <2>1 DEF IsInjective
  <2>2. CASE a > Len(s) /\ b > Len(s)
    <3>1. a - Len(s) \in 1 .. Len(t) /\ b - Len(s) \in 1 .. Len(t)
      BY <1>0, <2>2
    <3>2. t[a - Len(s)] = t[b - Len(s)]
      BY <1>0, <1>1, <2>2
    <3>3. a - Len(s) = b - Len(s)
      BY <1>3, <3>1, <3>2 DEF IsInjective
    <3>4. QED
      BY <1>0, <3>3
  <2>3. ASSUME NEW x \in 1 .. Len(s), NEW y \in Len(s) + 1 .. Len(s) + Len(t), j[x] = j[y]
        PROVE  FALSE
    <3>1. j[x] \in Of(s)
      BY <1>1, InOf
    <3>2. y - Len(s) \in 1 .. Len(t) /\ j[y] = t[y - Len(s)]
      BY <1>0, <1>1
    <3>3. j[y] \in Of(t)
      BY <3>2, InOf
    <3>4. QED
      BY <1>3, <2>3, <3>1, <3>3
  <2>4. QED
    BY <1>0, <2>1, <2>2, <2>3
<1>4. QED
  BY <1>1, <1>2, <1>3 DEF j

-------------------------------------------------------------------------------
(* What n calls of alloc() return and what they leave: the frames are      *)
(* distinct, nobody holds them, and the allocator keeps the others.        *)
LEMMA AllocFacts ==
  ASSUME fresh \in 0 .. FrameEnd, recycled \in Seq(Frames), FramesOnce,
         NEW n \in Nat, Fits(n),
         NEW old \in Nat, old =< n, old =< Len(recycled), old < n => old = Len(recycled)
  PROVE  /\ Alloc(n) \in Seq(Frames) /\ Len(Alloc(n)) = n /\ IsInjective(Alloc(n))
         /\ SubSeq(recycled, 1, Len(recycled) - old) \in Seq(Frames)
         /\ IsInjective(SubSeq(recycled, 1, Len(recycled) - old))
         /\ Of(SubSeq(recycled, 1, Len(recycled) - old)) \subseteq Of(recycled)
         /\ Of(SubSeq(recycled, 1, Len(recycled) - old)) \cap Of(Alloc(n)) = {}
         /\ \A p \in Pids : Held(space[p]) \cap Of(Alloc(n)) = {}
         /\ fresh + (n - old) \in 0 .. FrameEnd
         /\ \A f \in Frames : f < fresh + (n - old) <=>
                \/ f \in Of(SubSeq(recycled, 1, Len(recycled) - old)) \cup Of(Alloc(n))
                \/ \E p \in Pids : f \in Held(space[p])
<1> DEFINE L == Len(recycled)
           a == Alloc(n)
           kept == SubSeq(recycled, 1, L - old)
<1>0. L \in Nat /\ old \in 0 .. n /\ old \in 0 .. L /\ (old < n => old = L) /\ FrameEnd \in Nat
      /\ fresh \in Nat /\ fresh =< FrameEnd
  BY FrameAssumption
<1>1. n =< L + (FrameEnd - fresh)
  BY DEF Fits
<1>2. /\ DOMAIN a = 1 .. n
      /\ \A i \in 1 .. n : a[i] = IF i =< L THEN recycled[L + 1 - i] ELSE fresh + (i - L) - 1
      /\ a = [i \in 1 .. n |-> a[i]]
  BY DEF Alloc
<1>3. /\ kept \in Seq(Frames)
      /\ \A f : f \in Of(kept) <=> \E i \in 1 .. L - old : recycled[i] = f
      /\ IsInjective(kept)
  <2>1. 1 \in Nat \ {0} /\ L - old \in Nat /\ 1 =< (L - old) + 1 /\ L - old =< Len(recycled)
    BY <1>0
  <2>2. IsInjective(recycled)
    BY DEF FramesOnce
  <2> DEFINE m == L - old
  <2> HIDE DEF L, m
  <2>3. m \in Nat /\ 1 =< m + 1 /\ m =< Len(recycled)
    BY <2>1 DEF m
  <2>4. LET c == SubSeq(recycled, 1, m) IN
          /\ c \in Seq(Frames) /\ IsInjective(c)
          /\ \A f : f \in Of(c) <=> \E i \in 1 .. m : recycled[i] = f
    BY <2>1, <2>2, <2>3, CutOf
  <2>5. QED
    BY <2>4 DEF m
<1> HIDE DEF a, kept
<1>4. fresh + (n - old) \in 0 .. FrameEnd
  BY <1>0, <1>1
<1>5. ASSUME NEW i \in 1 .. n, i =< L
      PROVE  /\ L + 1 - i \in L - old + 1 .. L
             /\ a[i] = recycled[L + 1 - i]
             /\ a[i] \in Of(recycled) /\ a[i] \in Frames
  <2>1. L + 1 - i \in L - old + 1 .. L
    BY <1>0, <1>5
  <2>2. a[i] = recycled[L + 1 - i]
    BY <1>2, <1>5
  <2>3. L + 1 - i \in 1 .. L
    BY <1>0, <1>5
  <2>4. QED
    BY <2>1, <2>2, <2>3, InOf
<1>6. ASSUME NEW i \in 1 .. n, i > L
      PROVE  /\ a[i] = fresh + (i - L) - 1
             /\ a[i] \in fresh .. fresh + (n - old) - 1
             /\ a[i] \in Frames /\ a[i] \notin Of(recycled)
  <2>1. a[i] = fresh + (i - L) - 1
    BY <1>0, <1>2, <1>6
  <2>2. a[i] \in fresh .. fresh + (n - old) - 1 /\ a[i] \in Frames /\ ~(a[i] < fresh)
    BY <1>0, <1>1, <1>6, <2>1 DEF Frames
  <2>3. QED
    BY <2>1, <2>2 DEF FramesOnce
<1>7. a \in Seq(Frames) /\ Len(a) = n
  <2>1. \A i \in 1 .. n : a[i] \in Frames
    BY <1>0, <1>5, <1>6
  <2>2. a \in [1 .. n -> Frames]
    BY <1>2, <2>1
  <2>3. QED
    BY <2>2
<1>8. IsInjective(a)
  <2> SUFFICES ASSUME NEW i \in 1 .. n, NEW j \in 1 .. n, a[i] = a[j] PROVE i = j
    BY <1>2 DEF IsInjective
  <2>1. CASE i =< L /\ j =< L
    <3>1. recycled[L + 1 - i] = recycled[L + 1 - j]
      BY <1>5, <2>1
    <3>2. L + 1 - i \in 1 .. L /\ L + 1 - j \in 1 .. L
      BY <1>0, <2>1
    <3>3. L + 1 - i = L + 1 - j
      BY <3>1, <3>2 DEF FramesOnce, IsInjective
    <3>4. QED
      BY <1>0, <3>3
  <2>2. CASE i > L /\ j > L
    BY <1>0, <1>6, <2>2
  <2>3. CASE ~(i > L <=> j > L)
    BY <1>0, <1>5, <1>6, <2>3
  <2>4. QED
    BY <1>0, <2>1, <2>2, <2>3
<1>9. Of(kept) \subseteq Of(recycled)
  <2>1. 1 .. L - old \subseteq 1 .. L
    BY <1>0
  <2>2. QED
    BY <1>3, <2>1, InOf
<1>10. Of(kept) \cap Of(a) = {}
  <2> SUFFICES ASSUME NEW f \in Of(kept), f \in Of(a) PROVE FALSE
    OBVIOUS
  <2>1. PICK i \in 1 .. L - old : recycled[i] = f
    BY <1>3
  <2>2. PICK j \in 1 .. n : a[j] = f
    BY <1>7, InOf
  <2>3. j =< L
    BY <1>0, <1>6, <1>9, <2>2
  <2>4. recycled[L + 1 - j] = f /\ L + 1 - j \in L - old + 1 .. L
    BY <1>5, <2>2, <2>3
  <2>5. i \in 1 .. L /\ L + 1 - j \in 1 .. L /\ i # L + 1 - j
    BY <1>0, <2>4
  <2>6. QED
    BY <2>1, <2>4, <2>5 DEF FramesOnce, IsInjective
<1>11. ASSUME NEW p \in Pids PROVE Held(space[p]) \cap Of(a) = {}
  <2> SUFFICES ASSUME NEW f \in Of(a), f \in Held(space[p]) PROVE FALSE
    OBVIOUS
  <2>1. PICK j \in 1 .. n : a[j] = f
    BY <1>7, InOf
  <2>2. f \in Frames
    BY <1>0, <1>5, <1>6, <2>1
  <2>3. f < fresh /\ f \notin Of(recycled)
    BY <2>2 DEF FramesOnce
  <2>4. j > L
    BY <1>0, <1>5, <2>1, <2>3
  <2>5. QED
    BY <1>0, <1>6, <2>1, <2>3, <2>4
<1>12. ASSUME NEW f \in Of(recycled) PROVE f \in Of(kept) \cup Of(a)
  <2>1. PICK i \in 1 .. L : recycled[i] = f
    BY InOf
  <2>2. CASE i =< L - old
    BY <1>0, <1>3, <2>1, <2>2
  <2>3. CASE i > L - old
    <3>1. L + 1 - i \in 1 .. n /\ L + 1 - i =< L /\ L + 1 - (L + 1 - i) = i
      BY <1>0, <2>3
    <3>2. a[L + 1 - i] = f
      BY <1>5, <2>1, <3>1
    <3>3. QED
      BY <1>7, <3>1, <3>2, InOf
  <2>4. QED
    BY <1>0, <2>2, <2>3
<1>13. ASSUME NEW f \in Frames, f >= fresh, f < fresh + (n - old) PROVE f \in Of(a)
  <2>1. f - fresh + L + 1 \in 1 .. n /\ f - fresh + L + 1 > L
    BY <1>0, <1>13 DEF Frames
  <2>2. a[f - fresh + L + 1] = f
    BY <1>0, <1>6, <2>1 DEF Frames
  <2>3. QED
    BY <1>7, <2>1, <2>2, InOf
<1>14. ASSUME NEW f \in Frames
       PROVE  f < fresh + (n - old) <=> \/ f \in Of(kept) \cup Of(a)
                                        \/ \E p \in Pids : f \in Held(space[p])
  <2>0. f \in Nat /\ fresh \in Nat /\ fresh =< fresh + (n - old)
    BY <1>0, FrameAssumption DEF Frames
  <2>1. ASSUME f < fresh PROVE \/ f \in Of(kept) \cup Of(a)
                               \/ \E p \in Pids : f \in Held(space[p])
    BY <1>12, <2>1 DEF FramesOnce
  <2>2. ASSUME f \in Of(a) PROVE f < fresh + (n - old)
    <3>1. PICK j \in 1 .. n : a[j] = f
      BY <1>7, <2>2, InOf
    <3>2. CASE j =< L
      <4>1. f < fresh
        BY <1>5, <3>1, <3>2 DEF FramesOnce
      <4>2. QED
        BY <1>0, <2>0, <4>1
    <3>3. CASE j > L
      BY <1>0, <1>6, <2>0, <3>1, <3>3
    <3>4. QED
      BY <1>0, <3>2, <3>3
  <2>3. ASSUME f \in Of(recycled) \/ \E p \in Pids : f \in Held(space[p])
        PROVE  f < fresh + (n - old)
    <3>1. f < fresh
      BY <2>3 DEF FramesOnce
    <3>2. QED
      BY <1>0, <2>0, <3>1
  <2>4. CASE f < fresh
    BY <1>0, <2>0, <2>1, <2>4
  <2>5. CASE f >= fresh
    BY <1>9, <1>13, <2>2, <2>3, <2>5
  <2>6. QED
    BY <2>0, <2>4, <2>5
<1>15. QED
  BY <1>3, <1>4, <1>7, <1>8, <1>9, <1>10, <1>11, <1>14 DEF a, kept

(* The frames of a task are those of its parts.                            *)
LEMMA InHeld ==
  ASSUME NEW s, NEW f
  PROVE  f \in Held(s) <=> \E part \in Parts : f \in Of(s[part])
BY DEF Held

(* A task's frames are exchanged: it gives `dropped` back and keeps or     *)
(* takes those of s.  Every frame stays in one place.                      *)
LEMMA Exchange ==
  ASSUME MemTypeOK, FramesOnce, NEW c \in Pids, NEW n \in Nat, Fits(n),
         NEW s \in [Parts -> Seq(Frames)], NEW dropped \in Seq(Frames),
         AllocAndFree(n, dropped), space' = [space EXCEPT ![c] = s],
         Exclusive(s), IsInjective(dropped), Held(s) \cap Of(dropped) = {},
         Held(s) \cup Of(dropped) = Held(space[c]) \cup Of(Alloc(n))
  PROVE  /\ FramesOnce' /\ fresh' \in 0 .. FrameEnd /\ recycled' \in Seq(Frames)
         /\ space' \in [Pids -> [Parts -> Seq(Frames)]]
<1> DEFINE old == IF n < Len(recycled) THEN n ELSE Len(recycled)
           kept == SubSeq(recycled, 1, Len(recycled) - old)
           a == Alloc(n)
<1>1. /\ fresh \in 0 .. FrameEnd /\ recycled \in Seq(Frames)
      /\ space \in [Pids -> [Parts -> Seq(Frames)]]
  BY DEF MemTypeOK
<1>2. old \in Nat /\ old =< n /\ old =< Len(recycled) /\ (old < n => old = Len(recycled))
  BY <1>1
<1>3. recycled' = kept \o dropped /\ fresh' = fresh + (n - old)
  BY DEF AllocAndFree
<1> HIDE DEF old
<1>4. /\ kept \in Seq(Frames) /\ IsInjective(kept)
      /\ Of(kept) \subseteq Of(recycled)
      /\ Of(kept) \cap Of(a) = {}
      /\ \A p \in Pids : Held(space[p]) \cap Of(a) = {}
      /\ fresh' \in 0 .. FrameEnd
      /\ \A f \in Frames : f < fresh' <=> \/ f \in Of(kept) \cup Of(a)
                                          \/ \E p \in Pids : f \in Held(space[p])
  BY <1>1, <1>2, <1>3, AllocFacts
<1> HIDE DEF kept, a
<1>5. /\ \A p \in Pids : Exclusive(space[p])
      /\ \A p \in Pids : Held(space[p]) \cap Of(recycled) = {}
      /\ \A p, q \in Pids : p # q => Held(space[p]) \cap Held(space[q]) = {}
  BY DEF FramesOnce
<1>6. Held(s) \cup Of(dropped) = Held(space[c]) \cup Of(a)
  BY DEF a
<1>7. /\ space' \in [Pids -> [Parts -> Seq(Frames)]]
      /\ space'[c] = s /\ \A p \in Pids \ {c} : space'[p] = space[p]
  BY <1>1
<1>8. Of(dropped) \cap Of(kept) = {}
  BY <1>4, <1>5, <1>6
<1>9. /\ recycled' \in Seq(Frames) /\ Of(recycled') = Of(kept) \cup Of(dropped)
      /\ IsInjective(recycled')
  BY <1>3, <1>4, <1>8, JoinOf
<1>10. \A p \in Pids : Exclusive(space'[p])
  BY <1>5, <1>7
<1>11. \A p \in Pids \ {c} : Held(space[p]) \cap Held(s) = {} /\ Held(space[p]) \cap Of(dropped) = {}
  BY <1>4, <1>5, <1>6
<1>12. \A p \in Pids : Held(space'[p]) \cap Of(recycled') = {}
  <2>1. Held(s) \cap Of(kept) = {}
    BY <1>4, <1>5, <1>6
  <2>2. Held(s) \cap Of(recycled') = {}
    BY <1>9, <2>1
  <2>3. \A p \in Pids \ {c} : Held(space[p]) \cap Of(recycled') = {}
    BY <1>4, <1>5, <1>9, <1>11
  <2>4. QED
    BY <1>7, <2>2, <2>3
<1>13. \A p, q \in Pids : p # q => Held(space'[p]) \cap Held(space'[q]) = {}
  BY <1>5, <1>7, <1>11
<1>14. ASSUME NEW f \in Frames
       PROVE  f < fresh' <=> f \in Of(recycled') \/ \E p \in Pids : f \in Held(space'[p])
  <2>1. (\E p \in Pids : f \in Held(space'[p]))
          <=> f \in Held(s) \/ \E p \in Pids \ {c} : f \in Held(space[p])
    BY <1>7
  <2>2. (\E p \in Pids : f \in Held(space[p]))
          <=> f \in Held(space[c]) \/ \E p \in Pids \ {c} : f \in Held(space[p])
    OBVIOUS
  <2>3. QED
    BY <1>4, <1>6, <1>9, <2>1, <2>2
<1>15. QED
  BY <1>4, <1>7, <1>9, <1>10, <1>12, <1>13, <1>14 DEF FramesOnce

(* The parts of a task's space, one by one.                                *)
LEMMA SpaceParts ==
  ASSUME NEW s \in [Parts -> Seq(Frames)]
  PROVE  /\ \A part \in {"stack", "tables", "image", "context"} :
                part \in Parts /\ s[part] \in Seq(Frames)
         /\ Held(s) = Of(s["stack"]) \cup Of(s["tables"]) \cup Of(s["image"]) \cup Of(s["context"])
<1>1. Parts = {"stack", "tables", "image", "context"}
  BY DEF Parts
<1>2. \A part \in Parts : s[part] \in Seq(Frames)
  OBVIOUS
<1>3. \A f : f \in Held(s) <=> \/ f \in Of(s["stack"]) \/ f \in Of(s["tables"])
                               \/ f \in Of(s["image"]) \/ f \in Of(s["context"])
  BY <1>1, InHeld
<1>4. QED
  BY <1>1, <1>2, <1>3

(* A space is exclusive when its parts are, pairwise.                      *)
LEMMA MakeExclusive ==
  ASSUME NEW s,
         IsInjective(s["stack"]), IsInjective(s["tables"]),
         IsInjective(s["image"]), IsInjective(s["context"]),
         Of(s["stack"]) \cap Of(s["tables"]) = {}, Of(s["stack"]) \cap Of(s["image"]) = {},
         Of(s["stack"]) \cap Of(s["context"]) = {}, Of(s["tables"]) \cap Of(s["image"]) = {},
         Of(s["tables"]) \cap Of(s["context"]) = {}, Of(s["image"]) \cap Of(s["context"]) = {}
  PROVE  Exclusive(s)
<1>1. ASSUME NEW x \in Parts PROVE IsInjective(s[x])
  BY DEF Parts
<1>2. ASSUME NEW x \in Parts, NEW y \in Parts, x # y PROVE Of(s[x]) \cap Of(s[y]) = {}
  <2>1. CASE x = "stack"
    BY <1>2, <2>1 DEF Parts
  <2>2. CASE x = "tables"
    BY <1>2, <2>2 DEF Parts
  <2>3. CASE x = "image"
    BY <1>2, <2>3 DEF Parts
  <2>4. CASE x = "context"
    BY <1>2, <2>4 DEF Parts
  <2>5. QED
    BY <2>1, <2>2, <2>3, <2>4 DEF Parts
<1>3. QED
  BY <1>1, <1>2 DEF Exclusive

(* And the converse.                                                       *)
LEMMA UseExclusive ==
  ASSUME NEW s, Exclusive(s)
  PROVE  /\ IsInjective(s["stack"]) /\ IsInjective(s["tables"])
         /\ IsInjective(s["image"]) /\ IsInjective(s["context"])
         /\ Of(s["stack"]) \cap Of(s["tables"]) = {} /\ Of(s["stack"]) \cap Of(s["image"]) = {}
         /\ Of(s["stack"]) \cap Of(s["context"]) = {} /\ Of(s["tables"]) \cap Of(s["image"]) = {}
         /\ Of(s["tables"]) \cap Of(s["context"]) = {} /\ Of(s["image"]) \cap Of(s["context"]) = {}
BY DEF Exclusive, Parts

(* The empty sequence holds no frame.                                      *)
LEMMA EmptyOf == Of(<<>>) = {} /\ IsInjective(<<>>) /\ <<>> \in Seq(Frames)
BY DEF Of, ToSet, IsInjective

(* Nor does an address space that is not there.                            *)
LEMMA NoSpaceFacts ==
  NoSpace \in [Parts -> Seq(Frames)] /\ Held(NoSpace) = {} /\ Exclusive(NoSpace)
<1>1. \A part \in Parts : NoSpace[part] = <<>>
  BY DEF NoSpace
<1>2. NoSpace \in [Parts -> Seq(Frames)]
  BY EmptyOf DEF NoSpace
<1>3. QED
  BY <1>1, <1>2, EmptyOf DEF Held, Exclusive

(* Two segments, one before the other, of a sequence without repetition.   *)
LEMMA CutsApart ==
  ASSUME NEW S, NEW s \in Seq(S), IsInjective(s), NEW l \in Nat \ {0}, NEW m \in Nat,
         NEW k \in Nat \ {0}, NEW o \in Nat, l =< m + 1, m < k, k =< o + 1, o =< Len(s)
  PROVE  Of(SubSeq(s, l, m)) \cap Of(SubSeq(s, k, o)) = {}
<1> SUFFICES ASSUME NEW f, f \in Of(SubSeq(s, l, m)), f \in Of(SubSeq(s, k, o)) PROVE FALSE
  OBVIOUS
<1>0. m =< Len(s)
  OBVIOUS
<1>1. PICK i \in l .. m : s[i] = f
  BY <1>0, CutOf
<1>2. PICK j \in k .. o : s[j] = f
  BY CutOf
<1>3. i \in DOMAIN s /\ j \in DOMAIN s /\ i # j
  BY <1>0
<1>4. QED
  BY <1>1, <1>2, <1>3 DEF IsInjective

(* s divides the list a at t, u and v.                                     *)
Divides(s, a, t, u, v) ==
    /\ a \in Seq(Frames) /\ IsInjective(a) /\ s \in [Parts -> Seq(Frames)]
    /\ t \in Nat /\ u \in Nat /\ v \in Nat /\ t =< u /\ u =< v /\ v =< Len(a)
    /\ s["tables"] = SubSeq(a, 1, t)
    /\ s["image"] = SubSeq(a, t + 1, u)
    /\ s["context"] = SubSeq(a, u + 1, v)
    /\ s["stack"] = SubSeq(a, v + 1, Len(a))

(* A sequence without repetition, cut in four.                             *)
LEMMA FourParts ==
  ASSUME NEW a, NEW t, NEW u, NEW v, NEW s, Divides(s, a, t, u, v)
  PROVE  Exclusive(s) /\ Held(s) = Of(a)
<1> USE DEF Divides
<1> DEFINE w == Len(a)
<1>0. /\ w \in Nat /\ t =< w /\ u =< w /\ v =< w /\ t =< v
      /\ 1 \in Nat \ {0} /\ t + 1 \in Nat \ {0} /\ u + 1 \in Nat \ {0} /\ v + 1 \in Nat \ {0}
      /\ 1 =< t + 1 /\ t + 1 =< u + 1 /\ u + 1 =< v + 1 /\ v + 1 =< w + 1
      /\ t < t + 1 /\ t < u + 1 /\ t < v + 1 /\ u < u + 1 /\ u < v + 1 /\ v < v + 1
  OBVIOUS
<1>1. /\ \A f : f \in Of(s["tables"]) <=> \E x \in 1 .. t : a[x] = f
      /\ IsInjective(s["tables"])
  BY <1>0, CutOf
<1>2. /\ \A f : f \in Of(s["image"]) <=> \E x \in t + 1 .. u : a[x] = f
      /\ IsInjective(s["image"])
  BY <1>0, CutOf
<1>3. /\ \A f : f \in Of(s["context"]) <=> \E x \in u + 1 .. v : a[x] = f
      /\ IsInjective(s["context"])
  BY <1>0, CutOf
<1>4. /\ \A f : f \in Of(s["stack"]) <=> \E x \in v + 1 .. w : a[x] = f
      /\ IsInjective(s["stack"])
  BY <1>0, CutOf
<1>5. Exclusive(s)
  <2> DEFINE Seg(l, m) == Of(SubSeq(a, l, m))
  <2>1. \A l, k \in Nat \ {0} : \A m, o \in Nat :
            l =< m + 1 /\ m < k /\ k =< o + 1 /\ o =< w => Seg(l, m) \cap Seg(k, o) = {}
    BY CutsApart
  <2>2. /\ Of(s["tables"]) = Seg(1, t) /\ Of(s["image"]) = Seg(t + 1, u)
        /\ Of(s["context"]) = Seg(u + 1, v) /\ Of(s["stack"]) = Seg(v + 1, w)
    OBVIOUS
  <2> HIDE DEF Seg, w
  <2>3. /\ Seg(1, t) \cap Seg(t + 1, u) = {}
        /\ Seg(1, t) \cap Seg(u + 1, v) = {}
    BY <1>0, <2>1
  <2>4. Seg(1, t) \cap Seg(v + 1, w) = {}
    BY <1>0, <2>1
  <2>7. Seg(t + 1, u) \cap Seg(u + 1, v) = {}
    BY <1>0, <2>1
  <2>8. Seg(t + 1, u) \cap Seg(v + 1, w) = {}
    BY <1>0, <2>1
  <2>9. Seg(u + 1, v) \cap Seg(v + 1, w) = {}
    BY <1>0, <2>1
  <2>5. /\ IsInjective(s["stack"]) /\ IsInjective(s["tables"])
        /\ IsInjective(s["image"]) /\ IsInjective(s["context"])
    BY <1>1, <1>2, <1>3, <1>4
  <2>6. QED
    BY <2>2, <2>3, <2>4, <2>5, <2>7, <2>8, <2>9, MakeExclusive
<1>6. ASSUME NEW f PROVE f \in Held(s) <=> f \in Of(a)
  <2>1. f \in Of(a) <=> \E x \in 1 .. w : a[x] = f
    BY InOf
  <2>2. f \in Held(s) <=> \/ f \in Of(s["stack"]) \/ f \in Of(s["tables"])
                          \/ f \in Of(s["image"]) \/ f \in Of(s["context"])
    BY SpaceParts
  <2> HIDE DEF w
  <2>3. /\ f \in Of(s["tables"]) \/ f \in Of(s["image"]) => f \in Of(a)
        /\ f \in Of(s["context"]) \/ f \in Of(s["stack"]) => f \in Of(a)
    <3>1. /\ 1 .. t \subseteq 1 .. w /\ t + 1 .. u \subseteq 1 .. w
          /\ u + 1 .. v \subseteq 1 .. w /\ v + 1 .. w \subseteq 1 .. w
      BY <1>0
    <3> DEFINE A == 1 .. t
               B == t + 1 .. u
               C == u + 1 .. v
               D == v + 1 .. w
               W == 1 .. w
    <3>2. /\ A \subseteq W /\ B \subseteq W /\ C \subseteq W /\ D \subseteq W
          /\ f \in Of(s["tables"]) <=> \E x \in A : a[x] = f
          /\ f \in Of(s["image"]) <=> \E x \in B : a[x] = f
          /\ f \in Of(s["context"]) <=> \E x \in C : a[x] = f
          /\ f \in Of(s["stack"]) <=> \E x \in D : a[x] = f
          /\ f \in Of(a) <=> \E x \in W : a[x] = f
      BY <1>1, <1>2, <1>3, <1>4, <2>1, <3>1
    <3> HIDE DEF A, B, C, D, W
    <3>3. QED
      BY <3>2
  <2>4. ASSUME NEW x \in 1 .. w, a[x] = f PROVE f \in Held(s)
    <3>1. x \in 1 .. t \/ x \in t + 1 .. u \/ x \in u + 1 .. v \/ x \in v + 1 .. w
      BY <1>0
    <3>2. QED
      BY <1>1, <1>2, <1>3, <1>4, <2>2, <2>4, <3>1
  <2>5. QED
    BY <2>1, <2>2, <2>3, <2>4
<1>7. QED
  BY <1>5, <1>6

-------------------------------------------------------------------------------
(* A panic changes nothing but the reason.                                 *)
LEMMA PanicKeeps ==
  ASSUME MemInv, NEW why \in {"oom", "mapped before mapping", "not mapped"}, Panic(why)
  PROVE  MemInv'
<1>1. MemTypeOK'
  BY DEF MemInv, MemTypeOK, Panic
<1>2. FramesOnce'
  BY DEF MemInv, FramesOnce, Panic
<1>3. FreeHoldsNothing' /\ OwnProgram' /\ MappingsOwned' /\ PrivateData'
  BY DEF MemInv, FreeHoldsNothing, OwnProgram, MappingsOwned, PrivateData, Panic
<1>4. QED
  BY <1>1, <1>2, <1>3 DEF MemInv

(* What the rest of the invariant says of two tasks: the pages of a task   *)
(* that runs are held by no other.                                         *)
LEMMA PagesApart ==
  ASSUME MemInv, NEW p \in Pids, NEW q \in Pids, p # q, state[q] = "Live"
  PROVE  mapped[q] \cap Held(space[p]) = {} /\ mapped[q] \subseteq Held(space[q])
<1>1. space[q] \in [Parts -> Seq(Frames)]
  BY DEF MemInv, MemTypeOK
<1>2. mapped[q] \subseteq Held(space[q])
  BY <1>1, SpaceParts DEF MemInv, MappingsOwned
<1>3. Held(space[p]) \cap Held(space[q]) = {}
  BY DEF MemInv, FramesOnce
<1>4. QED
  BY <1>2, <1>3

(* Boundaries of the frames alloc() returns for a fork.                    *)
LEMMA NatSums ==
  ASSUME NEW t \in Nat, NEW i \in Nat, NEW c \in Nat, NEW k \in Nat
  PROVE  /\ t + i \in Nat /\ t + i + c \in Nat /\ t + i + c + k \in Nat
         /\ t =< t + i /\ t + i =< t + i + c /\ t + i + c =< t + i + c + k
         /\ t =< t + i + c + k /\ t + i =< t + i + c + k
         /\ 1 =< t + 1 /\ t + 1 =< (t + i) + 1 /\ t + i + 1 =< (t + i + c) + 1
         /\ t + i + c + 1 =< (t + i + c + k) + 1
         /\ (t + i) + 1 - (t + 1) = i /\ (t + i + c) + 1 - (t + i + 1) = c
         /\ 1 \in Nat \ {0} /\ t + 1 \in Nat \ {0} /\ t + i + 1 \in Nat \ {0}
         /\ t + i + c + 1 \in Nat \ {0}
OBVIOUS

(* The frames alloc() returns are distinct and nobody's.                   *)
LEMMA AllocTaken ==
  ASSUME MemInv, NEW n \in Nat, Fits(n)
  PROVE  /\ Alloc(n) \in Seq(Frames) /\ Len(Alloc(n)) = n /\ IsInjective(Alloc(n))
         /\ \A p \in Pids : Held(space[p]) \cap Of(Alloc(n)) = {}
<1>1. fresh \in 0 .. FrameEnd /\ recycled \in Seq(Frames) /\ FramesOnce
  BY DEF MemInv, MemTypeOK
<1>2. PICK old \in Nat : old =< n /\ old =< Len(recycled) /\ (old < n => old = Len(recycled))
  <2>0. Len(recycled) \in Nat
    BY <1>1
  <2>1. CASE n < Len(recycled)
    BY <2>0, <2>1
  <2>2. CASE ~(n < Len(recycled))
    BY <2>0, <2>2
  <2>3. QED
    BY <2>1, <2>2
<1>3. QED
  BY <1>1, <1>2, AllocFacts

(* fork: the child's frames are new, its data is its parent's.             *)
LEMMA ForkKeeps ==
  ASSUME MemInv, NEW p \in Pids, NEW c \in Pids, SysFork(p, c)
  PROVE  MemInv'
<1> DEFINE T == Len(space[p]["tables"])
           I == Len(space[p]["image"])
           C == Len(space[p]["context"])
           n == T + I + C + StackPages
           a == Alloc(n)
           child == [stack   |-> SubSeq(a, T + I + C + 1, n),
                     tables  |-> SubSeq(a, 1, T),
                     image   |-> SubSeq(a, T + 1, T + I),
                     context |-> SubSeq(a, T + I + 1, T + I + C)]
           pages == child["image"] \o child["context"]
           from  == space[p]["image"] \o space[p]["context"]
           copies == [f \in Of(pages) |->
                         data[from[CHOOSE i \in 1 .. Len(pages) : pages[i] = f]]]
<1>1. CASE Panic("oom")
  BY <1>1, PanicKeeps
<1>2. CASE ~Panic("oom")
  <2>1. /\ Runs(p) /\ state[c] = "Free" /\ births < MaxBirths
        /\ Fits(n) /\ AllocAndFree(n, <<>>)
        /\ data' = Contents(Of(a), copies)
        /\ state' = [state EXCEPT ![c] = "Live"]
        /\ space' = [space EXCEPT ![c] = child]
        /\ mapped' = [mapped EXCEPT ![c] = Of(pages)]
        /\ births' = births + 1
        /\ label' = [label EXCEPT ![c] = births + 1]
        /\ lineage' = [lineage EXCEPT ![c] = lineage[p] \cup {births + 1}]
        /\ UNCHANGED <<agents, panicked>>
    BY <1>2 DEF SysFork
  <2> HIDE DEF T, I, C, n, a, child, pages, from, copies
  <2>2. /\ MemTypeOK /\ FramesOnce /\ FreeHoldsNothing /\ OwnProgram
        /\ MappingsOwned /\ PrivateData
    BY DEF MemInv
  <2>3. /\ space[p]["image"] \in Seq(Frames) /\ space[p]["context"] \in Seq(Frames)
        /\ T \in Nat /\ I \in Nat /\ C \in Nat /\ StackPages \in Nat
    <3>1. space[p] \in [Parts -> Seq(Frames)]
      BY <2>2 DEF MemTypeOK
    <3>2. QED
      BY <3>1, SpaceParts, MemoryAssumption DEF T, I, C
  <2>4. n \in Nat
    BY <2>3 DEF n
  <2>5. /\ a \in Seq(Frames) /\ Len(a) = n /\ IsInjective(a)
        /\ \A q \in Pids : Held(space[q]) \cap Of(a) = {}
    BY <2>1, <2>4, AllocTaken DEF a
  <2>6. /\ SubSeq(a, 1, T) \in Seq(Frames)
        /\ SubSeq(a, T + 1, T + I) \in Seq(Frames) /\ Len(SubSeq(a, T + 1, T + I)) = I
        /\ SubSeq(a, T + I + 1, T + I + C) \in Seq(Frames)
        /\ Len(SubSeq(a, T + I + 1, T + I + C)) = C
        /\ SubSeq(a, T + I + C + 1, n) \in Seq(Frames)
    <3>1. SubSeq(a, 1, T) \in Seq(Frames)
      BY <2>3, <2>5, NatSums, CutOf DEF n
    <3>2. SubSeq(a, T + 1, T + I) \in Seq(Frames) /\ Len(SubSeq(a, T + 1, T + I)) = I
      BY <2>3, <2>5, NatSums, CutOf DEF n
    <3>3. /\ SubSeq(a, T + I + 1, T + I + C) \in Seq(Frames)
          /\ Len(SubSeq(a, T + I + 1, T + I + C)) = C
      BY <2>3, <2>5, NatSums, CutOf DEF n
    <3>4. SubSeq(a, T + I + C + 1, n) \in Seq(Frames)
      BY <2>3, <2>5, NatSums, CutOf DEF n
    <3>5. QED
      BY <3>1, <3>2, <3>3, <3>4
  <2>7. /\ child \in [Parts -> Seq(Frames)]
        /\ child["stack"] = SubSeq(a, T + I + C + 1, n)
        /\ child["tables"] = SubSeq(a, 1, T)
        /\ child["image"] = SubSeq(a, T + 1, T + I)
        /\ child["context"] = SubSeq(a, T + I + 1, T + I + C)
    <3>1. /\ child["stack"] = SubSeq(a, T + I + C + 1, n)
          /\ child["tables"] = SubSeq(a, 1, T)
          /\ child["image"] = SubSeq(a, T + 1, T + I)
          /\ child["context"] = SubSeq(a, T + I + 1, T + I + C)
          /\ DOMAIN child = Parts /\ child = [part \in DOMAIN child |-> child[part]]
      BY DEF child, Parts
    <3>2. ASSUME NEW part \in Parts PROVE child[part] \in Seq(Frames)
      BY <2>6, <3>1 DEF Parts
    <3>3. QED
      BY <3>1, <3>2
  <2>8. Exclusive(child) /\ Held(child) = Of(a)
    <3>1. /\ T + I \in Nat /\ T + I + C \in Nat /\ T =< T + I /\ T + I =< T + I + C
          /\ T + I + C =< Len(a) /\ n = Len(a)
      <4>1. T \in Nat /\ I \in Nat /\ C \in Nat /\ StackPages \in Nat
        BY <2>3
      <4>2. n = Len(a)
        BY <2>5
      <4>3. n = T + I + C + StackPages
        BY DEF n
      <4>4. QED
        BY ONLY <4>1, <4>2, <4>3
    <3>2. child["stack"] = SubSeq(a, T + I + C + 1, Len(a))
      BY <2>7, <3>1
    <3> DEFINE u == T + I
               v == T + I + C
    <3>3. /\ u \in Nat /\ v \in Nat /\ T =< u /\ u =< v /\ v =< Len(a)
          /\ child["image"] = SubSeq(a, T + 1, u) /\ child["context"] = SubSeq(a, u + 1, v)
          /\ child["stack"] = SubSeq(a, v + 1, Len(a)) /\ child["tables"] = SubSeq(a, 1, T)
      BY <2>7, <3>1, <3>2
    <3>4. child \in [Parts -> Seq(Frames)] /\ T \in Nat
      BY <2>3, <2>7
    <3>5. a \in Seq(Frames) /\ IsInjective(a)
      BY <2>5
    <3>6. Divides(child, a, T, u, v)
      BY <3>3, <3>4, <3>5 DEF Divides
    <3>7. QED
      BY <3>6, FourParts
  <2>9. /\ FramesOnce' /\ fresh' \in 0 .. FrameEnd /\ recycled' \in Seq(Frames)
        /\ space' \in [Pids -> [Parts -> Seq(Frames)]]
    <3>1. Held(space[c]) = {}
      BY <2>1, <2>2, NoSpaceFacts DEF FreeHoldsNothing
    <3>2. Held(child) \cup Of(<<>>) = Held(space[c]) \cup Of(Alloc(n))
      BY <2>8, <3>1, EmptyOf DEF a
    <3>3. Held(child) \cap Of(<<>>) = {}
      BY EmptyOf
    <3>4. QED
      BY <2>1, <2>2, <2>4, <2>7, <2>8, <3>2, <3>3, EmptyOf, Exchange
  <2>10. /\ pages \in Seq(Frames) /\ Len(pages) = I + C
         /\ Of(pages) = Of(child["image"]) \cup Of(child["context"])
         /\ Of(pages) \subseteq Of(a) /\ Of(pages) \subseteq Frames
    <3>1. /\ child["image"] \in Seq(Frames) /\ Len(child["image"]) = I
          /\ child["context"] \in Seq(Frames) /\ Len(child["context"]) = C
      BY <2>6, <2>7
    <3>2. /\ pages \in Seq(Frames) /\ Len(pages) = I + C
          /\ Of(pages) = Of(child["image"]) \cup Of(child["context"])
      <4> DEFINE x == child["image"]
                 y == child["context"]
      <4>1. x \in Seq(Frames) /\ Len(x) = I /\ y \in Seq(Frames) /\ Len(y) = C /\ pages = x \o y
        BY <3>1 DEF pages
      <4> HIDE DEF x, y
      <4>2. /\ x \o y \in Seq(Frames) /\ Len(x \o y) = Len(x) + Len(y)
            /\ Of(x \o y) = Of(x) \cup Of(y)
        <5>1. x \in Seq(Frames) /\ y \in Seq(Frames)
          BY <4>1
        <5>2. QED
          BY ONLY <5>1, JoinOf
      <4>3. QED
        BY <4>1, <4>2 DEF x, y
    <3>3. Of(pages) \subseteq Frames
      BY <3>2, InOf
    <3>4. "image" \in Parts /\ "context" \in Parts
      BY DEF Parts
    <3>5. Of(child["image"]) \subseteq Held(child) /\ Of(child["context"]) \subseteq Held(child)
      BY <3>4, InHeld
    <3>6. QED
      BY <2>8, <3>2, <3>3, <3>5
  <2>11. /\ from \in Seq(Frames) /\ Len(from) = I + C /\ Of(from) = mapped[p]
    <3>1. /\ from \in Seq(Frames) /\ Len(from) = I + C
          /\ Of(from) = Of(space[p]["image"]) \cup Of(space[p]["context"])
      BY <2>3, JoinOf DEF from, I, C
    <3>2. QED
      BY <2>1, <2>2, <3>1 DEF MappingsOwned, Runs
  <2>12. /\ lineage[p] \in SUBSET (1 .. MaxBirths) /\ births + 1 \in 1 .. MaxBirths
         /\ MaxBirths \in Nat /\ data \in [Frames -> 0 .. MaxBirths]
    <3>1. births \in 1 .. MaxBirths /\ MaxBirths \in Nat
      BY <2>2, MemoryAssumption DEF MemTypeOK
    <3>2. births + 1 \in 1 .. MaxBirths
      BY <2>1, <3>1
    <3>3. QED
      BY <2>2, <3>1, <3>2 DEF MemTypeOK
  <2>13. ASSUME NEW f \in Of(pages)
         PROVE  /\ data'[f] \in 0 .. MaxBirths
                /\ data'[f] = Zero \/ data'[f] \in lineage[p]
    <3> DEFINE k == CHOOSE i \in 1 .. Len(pages) : pages[i] = f
    <3>1. \E i \in 1 .. Len(pages) : pages[i] = f
      BY <2>10, InOf
    <3>2. k \in 1 .. Len(pages)
      BY <3>1
    <3>3. data'[f] = data[from[k]]
      BY <2>1, <2>10 DEF Contents, copies
    <3> HIDE DEF k
    <3>4. from[k] \in mapped[p]
      BY <2>3, <2>10, <2>11, <3>2, InOf
    <3>5. data[from[k]] = Zero \/ data[from[k]] \in lineage[p]
      BY <2>1, <2>2, <3>4 DEF PrivateData, Runs
    <3>6. QED
      BY <2>12, <3>3, <3>5 DEF Zero
  <2>14. \A f \in Frames \ Of(a) : data'[f] = data[f]
    BY <2>1, <2>10 DEF Contents, copies
  <2>15. data' \in [Frames -> 0 .. MaxBirths]
    <3>1. ASSUME NEW f \in Frames \ Of(pages) PROVE data'[f] \in 0 .. MaxBirths
      BY <2>1, <2>12 DEF Contents, copies, Zero
    <3>2. data' = [f \in Frames |-> data'[f]]
      BY <2>1 DEF Contents
    <3>3. QED
      BY <2>13, <3>1, <3>2
  <2>16. MemTypeOK'
    BY <2>1, <2>2, <2>9, <2>10, <2>12, <2>15 DEF MemTypeOK
  <2>17. FreeHoldsNothing' /\ OwnProgram'
    BY <2>1, <2>2 DEF FreeHoldsNothing, OwnProgram, MemTypeOK
  <2>18. MappingsOwned'
    BY <2>1, <2>2, <2>10 DEF MappingsOwned, MemTypeOK
  <2>19. PrivateData'
    <3> SUFFICES ASSUME NEW q \in Pids, state'[q] = "Live", NEW f \in mapped'[q]
                 PROVE  data'[f] = Zero \/ data'[f] \in lineage'[q]
      BY DEF PrivateData
    <3>1. CASE q = c
      BY <2>1, <2>2, <2>13, <3>1 DEF MemTypeOK
    <3>2. CASE q # c
      <4>1. state[q] = "Live" /\ mapped'[q] = mapped[q] /\ lineage'[q] = lineage[q]
        BY <2>1, <2>2, <3>2 DEF MemTypeOK
      <4>2. f \notin Of(a) /\ f \in Frames
        BY <2>2, <2>5, <3>2, <4>1, PagesApart DEF MemTypeOK
      <4>3. QED
        BY <2>2, <2>14, <4>1, <4>2 DEF PrivateData
    <3>3. QED
      BY <3>1, <3>2
  <2>20. QED
    BY <2>9, <2>16, <2>17, <2>18, <2>19 DEF MemInv
<1>3. QED
  BY <1>1, <1>2

(* A sequence without repetition, cut in two.                              *)
LEMMA TwoParts ==
  ASSUME NEW a \in Seq(Frames), IsInjective(a), NEW t \in Nat, t =< Len(a)
  PROVE  LET x == SubSeq(a, 1, t)
             y == SubSeq(a, t + 1, Len(a)) IN
         /\ x \in Seq(Frames) /\ y \in Seq(Frames) /\ IsInjective(x) /\ IsInjective(y)
         /\ Of(x) \cap Of(y) = {} /\ Of(x) \cup Of(y) = Of(a)
<1> DEFINE w == Len(a)
           x == SubSeq(a, 1, t)
           y == SubSeq(a, t + 1, w)
<1>1. /\ w \in Nat /\ w =< Len(a) /\ t =< w /\ 1 \in Nat \ {0} /\ t + 1 \in Nat \ {0}
      /\ 1 =< t + 1 /\ t < t + 1 /\ t + 1 =< w + 1
  OBVIOUS
<1>2. \A f : f \in Of(a) <=> \E i \in 1 .. w : a[i] = f
  BY InOf
<1> HIDE DEF w
<1>3. /\ x \in Seq(Frames) /\ IsInjective(x)
      /\ \A f : f \in Of(x) <=> \E i \in 1 .. t : a[i] = f
  BY <1>1, CutOf
<1>4. /\ y \in Seq(Frames) /\ IsInjective(y)
      /\ \A f : f \in Of(y) <=> \E i \in t + 1 .. w : a[i] = f
  BY <1>1, CutOf
<1>5. Of(x) \cap Of(y) = {}
  BY <1>1, CutsApart
<1> HIDE DEF x, y
<1>6. \A f : f \in Of(a) <=> f \in Of(x) \/ f \in Of(y)
  BY <1>1, <1>2, <1>3, <1>4
<1>7. x \in Seq(Frames) /\ y \in Seq(Frames) /\ IsInjective(x) /\ IsInjective(y)
      /\ Of(x) \cap Of(y) = {} /\ Of(x) \cup Of(y) = Of(a)
  BY <1>3, <1>4, <1>5, <1>6
<1>8. QED
  BY <1>7 DEF x, y, w

(* Three disjoint sequences joined.                                        *)
LEMMA JoinThree ==
  ASSUME NEW s \in Seq(Frames), NEW t \in Seq(Frames), NEW u \in Seq(Frames),
         IsInjective(s), IsInjective(t), IsInjective(u),
         Of(s) \cap Of(t) = {}, Of(s) \cap Of(u) = {}, Of(t) \cap Of(u) = {}
  PROVE  /\ s \o t \o u \in Seq(Frames) /\ IsInjective(s \o t \o u)
         /\ Of(s \o t \o u) = Of(s) \cup Of(t) \cup Of(u)
<1>1. /\ s \o t \in Seq(Frames) /\ Of(s \o t) = Of(s) \cup Of(t) /\ IsInjective(s \o t)
  BY JoinOf
<1> DEFINE v == s \o t
<1>2. v \in Seq(Frames) /\ Of(v) = Of(s) \cup Of(t) /\ IsInjective(v) /\ Of(v) \cap Of(u) = {}
  BY <1>1
<1> HIDE DEF v
<1>3. v \o u \in Seq(Frames) /\ Of(v \o u) = Of(v) \cup Of(u) /\ IsInjective(v \o u)
  BY <1>2, JoinOf
<1>4. QED
  BY <1>2, <1>3 DEF v

(* exec: the old image, tables and Context area go back, the new ones are  *)
(* empty.                                                                  *)
LEMMA ExecKeeps ==
  ASSUME MemInv, NEW p \in Pids, NEW size \in ImageSizes, SysExec(p, size)
  PROVE  MemInv'
<1> DEFINE n == ImageTables + size
           a == Alloc(n)
           tables == SubSeq(a, 1, ImageTables)
           image == SubSeq(a, ImageTables + 1, n)
           o == space[p]
           s == [o EXCEPT !["tables"] = tables, !["image"] = image, !["context"] = <<>>]
           dropped == o["tables"] \o o["image"] \o o["context"]
<1>1. CASE Panic("oom")
  BY <1>1, PanicKeeps
<1>2. CASE ~Panic("oom")
  <2>0. space \in [Pids -> [Parts -> Seq(Frames)]]
    BY DEF MemInv, MemTypeOK
  <2>1. /\ state[p] = "Live" /\ births < MaxBirths
        /\ Fits(n) /\ AllocAndFree(n, dropped)
        /\ data' = Contents(Of(a), NoCopies)
        /\ space' = [space EXCEPT ![p] = s]
        /\ mapped' = [mapped EXCEPT ![p] = Of(image)]
        /\ births' = births + 1
        /\ label' = [label EXCEPT ![p] = births + 1]
        /\ lineage' = [lineage EXCEPT ![p] = {births + 1}]
        /\ UNCHANGED <<state, agents, panicked>>
    BY <1>2, <2>0 DEF SysExec, RunsApp, Runs
  <2>2. /\ MemTypeOK /\ FramesOnce /\ FreeHoldsNothing /\ OwnProgram
        /\ MappingsOwned /\ PrivateData
    BY DEF MemInv
  <2>3. n \in Nat /\ ImageTables \in Nat /\ ImageTables =< n
    BY MemoryAssumption
  <2>4. o \in [Parts -> Seq(Frames)] /\ Exclusive(o)
    BY <2>0, <2>2 DEF FramesOnce
  <2> HIDE DEF n, a, tables, image, o, s, dropped
  <2>5. /\ a \in Seq(Frames) /\ Len(a) = n /\ IsInjective(a)
        /\ \A q \in Pids : Held(space[q]) \cap Of(a) = {}
    BY <2>1, <2>3, AllocTaken DEF a
  <2>6. /\ tables \in Seq(Frames) /\ image \in Seq(Frames)
        /\ IsInjective(tables) /\ IsInjective(image)
        /\ Of(tables) \cap Of(image) = {} /\ Of(tables) \cup Of(image) = Of(a)
    BY <2>3, <2>5, TwoParts DEF tables, image
  <2>7. /\ \A part \in {"stack", "tables", "image", "context"} :
               part \in Parts /\ o[part] \in Seq(Frames)
        /\ Held(o) = Of(o["stack"]) \cup Of(o["tables"]) \cup Of(o["image"]) \cup Of(o["context"])
    BY <2>4, SpaceParts
  <2>8. /\ s \in [Parts -> Seq(Frames)] /\ s["stack"] = o["stack"] /\ s["tables"] = tables
        /\ s["image"] = image /\ s["context"] = <<>>
    BY <2>4, <2>6, <2>7, EmptyOf DEF s
  <2>9. /\ Held(o) \cap Of(a) = {}
        /\ Held(s) = Of(o["stack"]) \cup Of(a)
    <3>1. Held(s) = Of(s["stack"]) \cup Of(s["tables"]) \cup Of(s["image"]) \cup Of(s["context"])
      BY <2>8, SpaceParts
    <3>2. QED
      BY <2>5, <2>6, <2>8, <3>1, EmptyOf DEF o
  <2>10. Exclusive(s)
    <3>1. IsInjective(o["stack"]) /\ Of(o["stack"]) \cap Of(a) = {}
      BY <2>4, <2>7, <2>9, UseExclusive
    <3>2. QED
      BY <2>6, <2>8, <3>1, EmptyOf, MakeExclusive
  <2>11. /\ dropped \in Seq(Frames) /\ IsInjective(dropped)
         /\ Of(dropped) = Of(o["tables"]) \cup Of(o["image"]) \cup Of(o["context"])
    <3>1. /\ IsInjective(o["tables"]) /\ IsInjective(o["image"]) /\ IsInjective(o["context"])
          /\ Of(o["tables"]) \cap Of(o["image"]) = {} /\ Of(o["tables"]) \cap Of(o["context"]) = {}
          /\ Of(o["image"]) \cap Of(o["context"]) = {}
      BY <2>4, UseExclusive
    <3>2. /\ o["tables"] \in Seq(Frames) /\ o["image"] \in Seq(Frames)
          /\ o["context"] \in Seq(Frames)
      BY <2>7
    <3>3. QED
      BY <3>1, <3>2, JoinThree DEF dropped
  <2>12. /\ FramesOnce' /\ fresh' \in 0 .. FrameEnd /\ recycled' \in Seq(Frames)
         /\ space' \in [Pids -> [Parts -> Seq(Frames)]]
    <3>1. Held(s) \cup Of(dropped) = Held(o) \cup Of(a)
      BY <2>7, <2>9, <2>11
    <3>2. Held(s) \cup Of(dropped) = Held(space[p]) \cup Of(Alloc(n))
      BY <3>1 DEF a, o
    <3>3. Held(s) \cap Of(dropped) = {}
      BY <2>4, <2>7, <2>9, <2>11, UseExclusive
    <3>4. QED
      BY <2>1, <2>2, <2>3, <2>8, <2>10, <2>11, <3>2, <3>3, Exchange
  <2>13. births + 1 \in 1 .. MaxBirths /\ MaxBirths \in Nat /\ Of(image) \subseteq Frames
    <3>1. births \in 1 .. MaxBirths /\ MaxBirths \in Nat
      BY <2>2, MemoryAssumption DEF MemTypeOK
    <3>2. births + 1 \in 1 .. MaxBirths
      BY <2>1, <3>1
    <3>3. QED
      BY <2>6, <3>1, <3>2, InOf
  <2>14. /\ \A f \in Frames : f \in Of(a) => data'[f] = Zero
         /\ \A f \in Frames : f \notin Of(a) => data'[f] = data[f]
         /\ data' = [f \in Frames |-> data'[f]]
    BY <2>1 DEF Contents, NoCopies
  <2>15. data' \in [Frames -> 0 .. MaxBirths]
    <3>1. \A f \in Frames : data[f] \in 0 .. MaxBirths
      BY <2>2 DEF MemTypeOK
    <3>2. Zero \in 0 .. MaxBirths
      BY <2>13 DEF Zero
    <3>3. \A f \in Frames : data'[f] \in 0 .. MaxBirths
      BY <2>14, <3>1, <3>2
    <3>4. QED
      BY <2>14, <3>3
  <2>16. MemTypeOK'
    BY <2>1, <2>2, <2>12, <2>13, <2>15 DEF MemTypeOK
  <2>17. FreeHoldsNothing' /\ OwnProgram'
    BY <2>1, <2>2 DEF FreeHoldsNothing, OwnProgram, MemTypeOK
  <2>18. MappingsOwned'
    BY <2>1, <2>2, <2>8, EmptyOf DEF MappingsOwned, MemTypeOK
  <2>19. PrivateData'
    <3> SUFFICES ASSUME NEW q \in Pids, state'[q] = "Live", NEW f \in mapped'[q]
                 PROVE  data'[f] = Zero \/ data'[f] \in lineage'[q]
      BY DEF PrivateData
    <3>1. CASE q = p
      BY <2>1, <2>2, <2>6, <2>13, <2>14, <3>1 DEF MemTypeOK
    <3>2. CASE q # p
      <4>1. state[q] = "Live" /\ mapped'[q] = mapped[q] /\ lineage'[q] = lineage[q]
        BY <2>1, <2>2, <3>2 DEF MemTypeOK
      <4>2. f \notin Of(a) /\ f \in Frames
        BY <2>2, <2>5, <3>2, <4>1, PagesApart DEF MemTypeOK
      <4>3. QED
        BY <2>2, <2>14, <4>1, <4>2 DEF PrivateData
    <3>3. QED
      BY <3>1, <3>2
  <2>20. QED
    BY <2>12, <2>16, <2>17, <2>18, <2>19 DEF MemInv
<1>3. QED
  BY <1>1, <1>2

(* No frame is asked for: alloc() returns none.                            *)
LEMMA AllocNone ==
  ASSUME MemInv
  PROVE  Fits(0) /\ Of(Alloc(0)) = {}
<1>1. fresh \in 0 .. FrameEnd /\ recycled \in Seq(Frames) /\ FrameEnd \in Nat
  BY FrameAssumption DEF MemInv, MemTypeOK
<1>2. Fits(0)
  BY <1>1 DEF Fits
<1>3. Alloc(0) \in Seq(Frames) /\ Len(Alloc(0)) = 0
  BY <1>2, AllocTaken
<1>4. QED
  BY <1>2, <1>3, InOf

(* exit: the areas are dropped; the tables and the stack stay.             *)
LEMMA ExitKeeps ==
  ASSUME MemInv, NEW p \in Pids, SysExit(p)
  PROVE  MemInv'
<1> DEFINE o == space[p]
           s == [o EXCEPT !["image"] = <<>>, !["context"] = <<>>]
           dropped == o["image"] \o o["context"]
<1>0. space \in [Pids -> [Parts -> Seq(Frames)]]
  BY DEF MemInv, MemTypeOK
<1>1. /\ state' = [state EXCEPT ![p] = "Zombie"]
      /\ AllocAndFree(0, dropped)
      /\ space' = [space EXCEPT ![p] = s]
      /\ UNCHANGED <<data, mapped, agents, label, lineage, births, panicked>>
  BY <1>0 DEF SysExit
<1>2. /\ MemTypeOK /\ FramesOnce /\ FreeHoldsNothing /\ OwnProgram
      /\ MappingsOwned /\ PrivateData
  BY DEF MemInv
<1>3. o \in [Parts -> Seq(Frames)] /\ Exclusive(o)
  BY <1>0, <1>2 DEF FramesOnce
<1> HIDE DEF o, s, dropped
<1>4. /\ \A part \in {"stack", "tables", "image", "context"} :
             part \in Parts /\ o[part] \in Seq(Frames)
      /\ Held(o) = Of(o["stack"]) \cup Of(o["tables"]) \cup Of(o["image"]) \cup Of(o["context"])
  BY <1>3, SpaceParts
<1>5. /\ s \in [Parts -> Seq(Frames)] /\ s["stack"] = o["stack"] /\ s["tables"] = o["tables"]
      /\ s["image"] = <<>> /\ s["context"] = <<>>
  BY <1>3, <1>4, EmptyOf DEF s
<1>6. Held(s) = Of(o["stack"]) \cup Of(o["tables"])
  <2>1. Held(s) = Of(s["stack"]) \cup Of(s["tables"]) \cup Of(s["image"]) \cup Of(s["context"])
    BY <1>5, SpaceParts
  <2>2. QED
    BY <1>5, <2>1, EmptyOf
<1>7. Exclusive(s)
  <2>1. /\ IsInjective(o["stack"]) /\ IsInjective(o["tables"])
        /\ Of(o["stack"]) \cap Of(o["tables"]) = {}
    BY <1>3, UseExclusive
  <2>2. QED
    BY <1>5, <2>1, EmptyOf, MakeExclusive
<1>8. /\ dropped \in Seq(Frames) /\ IsInjective(dropped)
      /\ Of(dropped) = Of(o["image"]) \cup Of(o["context"])
  <2>1. /\ IsInjective(o["image"]) /\ IsInjective(o["context"])
        /\ Of(o["image"]) \cap Of(o["context"]) = {}
    BY <1>3, UseExclusive
  <2>2. o["image"] \in Seq(Frames) /\ o["context"] \in Seq(Frames)
    BY <1>4
  <2>3. QED
    BY <2>1, <2>2, JoinOf DEF dropped
<1>9. /\ FramesOnce' /\ fresh' \in 0 .. FrameEnd /\ recycled' \in Seq(Frames)
      /\ space' \in [Pids -> [Parts -> Seq(Frames)]]
  <2>1. Held(s) \cup Of(dropped) = Held(o)
    BY <1>4, <1>6, <1>8
  <2>2. Held(s) \cup Of(dropped) = Held(space[p]) \cup Of(Alloc(0))
    BY <2>1, AllocNone DEF o
  <2>3. Held(s) \cap Of(dropped) = {}
    BY <1>3, <1>6, <1>8, UseExclusive
  <2>4. QED
    BY <1>1, <1>2, <1>5, <1>7, <1>8, <2>2, <2>3, AllocNone, Exchange
<1>10. MemTypeOK'
  BY <1>1, <1>2, <1>9 DEF MemTypeOK
<1>11. FreeHoldsNothing' /\ OwnProgram' /\ MappingsOwned' /\ PrivateData'
  BY <1>1, <1>2 DEF FreeHoldsNothing, OwnProgram, MappingsOwned, PrivateData, MemTypeOK
<1>12. QED
  BY <1>9, <1>10, <1>11 DEF MemInv

(* waitpid: everything the zombie still holds is returned.                 *)
LEMMA ReapKeeps ==
  ASSUME MemInv, NEW p \in Pids, Reap(p)
  PROVE  MemInv'
<1> DEFINE o == space[p]
           dropped == o["stack"] \o o["tables"] \o o["image"] \o o["context"]
<1>0. space \in [Pids -> [Parts -> Seq(Frames)]]
  BY DEF MemInv, MemTypeOK
<1>1. /\ state' = [state EXCEPT ![p] = "Free"]
      /\ AllocAndFree(0, dropped)
      /\ space' = [space EXCEPT ![p] = NoSpace]
      /\ mapped' = [mapped EXCEPT ![p] = {}]
      /\ agents' = agents \ {p}
      /\ UNCHANGED <<data, label, lineage, births, panicked>>
  BY DEF Reap
<1>2. /\ MemTypeOK /\ FramesOnce /\ FreeHoldsNothing /\ OwnProgram
      /\ MappingsOwned /\ PrivateData
  BY DEF MemInv
<1>3. o \in [Parts -> Seq(Frames)] /\ Exclusive(o)
  BY <1>0, <1>2 DEF FramesOnce
<1> HIDE DEF o, dropped
<1>4. /\ \A part \in {"stack", "tables", "image", "context"} :
             part \in Parts /\ o[part] \in Seq(Frames)
      /\ Held(o) = Of(o["stack"]) \cup Of(o["tables"]) \cup Of(o["image"]) \cup Of(o["context"])
  BY <1>3, SpaceParts
<1>5. /\ dropped \in Seq(Frames) /\ IsInjective(dropped) /\ Of(dropped) = Held(o)
  <2> DEFINE v == o["stack"] \o o["tables"] \o o["image"]
  <2>1. /\ IsInjective(o["stack"]) /\ IsInjective(o["tables"])
        /\ IsInjective(o["image"]) /\ IsInjective(o["context"])
        /\ Of(o["stack"]) \cap Of(o["tables"]) = {} /\ Of(o["stack"]) \cap Of(o["image"]) = {}
        /\ Of(o["stack"]) \cap Of(o["context"]) = {} /\ Of(o["tables"]) \cap Of(o["image"]) = {}
        /\ Of(o["tables"]) \cap Of(o["context"]) = {} /\ Of(o["image"]) \cap Of(o["context"]) = {}
    BY <1>3, UseExclusive
  <2>2. /\ o["stack"] \in Seq(Frames) /\ o["tables"] \in Seq(Frames)
        /\ o["image"] \in Seq(Frames) /\ o["context"] \in Seq(Frames)
    BY <1>4
  <2>3. /\ v \in Seq(Frames) /\ IsInjective(v)
        /\ Of(v) = Of(o["stack"]) \cup Of(o["tables"]) \cup Of(o["image"])
    BY <2>1, <2>2, JoinThree
  <2>4. dropped = v \o o["context"]
    BY DEF dropped
  <2> HIDE DEF v
  <2>5. Of(v) \cap Of(o["context"]) = {}
    BY <2>1, <2>3
  <2>6. QED
    BY <1>4, <2>1, <2>2, <2>3, <2>4, <2>5, JoinOf
<1>6. /\ FramesOnce' /\ fresh' \in 0 .. FrameEnd /\ recycled' \in Seq(Frames)
      /\ space' \in [Pids -> [Parts -> Seq(Frames)]]
  <2>1. Held(NoSpace) \cup Of(dropped) = Held(space[p]) \cup Of(Alloc(0))
    BY <1>5, AllocNone, NoSpaceFacts DEF o
  <2>2. Held(NoSpace) \cap Of(dropped) = {}
    BY NoSpaceFacts
  <2>3. QED
    BY <1>1, <1>2, <1>5, <2>1, <2>2, NoSpaceFacts, AllocNone, Exchange
<1>7. MemTypeOK'
  BY <1>1, <1>2, <1>6 DEF MemTypeOK
<1>8. FreeHoldsNothing' /\ OwnProgram' /\ MappingsOwned' /\ PrivateData'
  BY <1>1, <1>2 DEF FreeHoldsNothing, OwnProgram, MappingsOwned, PrivateData, MemTypeOK
<1>9. QED
  BY <1>6, <1>7, <1>8 DEF MemInv

(* A running task writes its program's data to pages of its own.           *)
LEMMA WriteKeeps ==
  ASSUME MemInv, NEW p \in Pids, state[p] = "Live", NEW written, written \subseteq mapped[p],
         data' = [f \in Frames |-> IF f \in written THEN label[p] ELSE data[f]],
         UNCHANGED <<fresh, recycled, state, space, mapped, agents, label, lineage,
                     births, panicked>>
  PROVE  MemInv'
<1>1. /\ MemTypeOK /\ FramesOnce /\ FreeHoldsNothing /\ OwnProgram
      /\ MappingsOwned /\ PrivateData
  BY DEF MemInv
<1>2. MemTypeOK'
  <2>1. \A f \in Frames : data[f] \in 0 .. MaxBirths
    BY <1>1 DEF MemTypeOK
  <2>2. label[p] \in 0 .. MaxBirths
    <3>1. label[p] \in 1 .. MaxBirths /\ MaxBirths \in Nat
      BY <1>1, MemoryAssumption DEF MemTypeOK
    <3>2. QED
      BY <3>1
  <2>3. data' \in [Frames -> 0 .. MaxBirths]
    BY <2>1, <2>2
  <2>4. QED
    BY <1>1, <2>3 DEF MemTypeOK
<1>3. FramesOnce'
  BY <1>1 DEF FramesOnce
<1>4. FreeHoldsNothing' /\ OwnProgram' /\ MappingsOwned'
  BY <1>1 DEF FreeHoldsNothing, OwnProgram, MappingsOwned
<1>5. PrivateData'
  <2> SUFFICES ASSUME NEW q \in Pids, state[q] = "Live", NEW f \in mapped[q]
               PROVE  data'[f] = Zero \/ data'[f] \in lineage[q]
    BY DEF PrivateData
  <2>0. f \in Frames
    BY <1>1 DEF MemTypeOK
  <2>1. CASE q = p
    BY <1>1, <2>0, <2>1 DEF PrivateData, OwnProgram
  <2>2. CASE q # p
    <3>1. f \notin written
      BY <2>2, PagesApart
    <3>2. QED
      BY <1>1, <2>0, <3>1 DEF PrivateData
  <2>3. QED
    BY <2>1, <2>2
<1>6. QED
  BY <1>1, <1>2, <1>3, <1>4, <1>5 DEF MemInv

(* sys_agent_create: the Context area and its tables are new frames.       *)
LEMMA CreateKeeps ==
  ASSUME MemInv, NEW p \in Pids, SysAgentCreate(p)
  PROVE  MemInv'
<1> DEFINE n == ContextTables + ContextPages
           a == Alloc(n)
           added == SubSeq(a, 1, ContextTables)
           context == SubSeq(a, ContextTables + 1, n)
           o == space[p]
           tables == o["tables"] \o added
           s == [o EXCEPT !["tables"] = tables, !["context"] = context]
           copies == [f \in Of(context) |-> label[p]]
<1>1. CASE Panic("oom")
  BY <1>1, PanicKeeps
<1>2. CASE Panic("mapped before mapping")
  BY <1>2, PanicKeeps
<1>3. CASE ~Panic("oom") /\ ~Panic("mapped before mapping")
  <2>0. space \in [Pids -> [Parts -> Seq(Frames)]] /\ mapped \in [Pids -> SUBSET Frames]
    BY DEF MemInv, MemTypeOK
  <2>1. /\ state[p] = "Live" /\ o["context"] = <<>>
        /\ Fits(n) /\ AllocAndFree(n, <<>>)
        /\ data' = Contents(Of(a), copies)
        /\ space' = [space EXCEPT ![p] = s]
        /\ mapped' = [mapped EXCEPT ![p] = mapped[p] \cup Of(context)]
        /\ agents' = agents \cup {p}
        /\ UNCHANGED <<state, label, lineage, births, panicked>>
    BY <1>3, <2>0 DEF SysAgentCreate, RunsApp, Runs
  <2>2. /\ MemTypeOK /\ FramesOnce /\ FreeHoldsNothing /\ OwnProgram
        /\ MappingsOwned /\ PrivateData
    BY DEF MemInv
  <2>3. n \in Nat /\ ContextTables \in Nat /\ ContextTables =< n
    BY MemoryAssumption
  <2>4. o \in [Parts -> Seq(Frames)] /\ Exclusive(o)
    BY <2>0, <2>2 DEF FramesOnce
  <2> HIDE DEF n, a, added, context, o, tables, s, copies
  <2>5. /\ a \in Seq(Frames) /\ Len(a) = n /\ IsInjective(a)
        /\ \A q \in Pids : Held(space[q]) \cap Of(a) = {}
    BY <2>1, <2>3, AllocTaken DEF a
  <2>6. /\ added \in Seq(Frames) /\ context \in Seq(Frames)
        /\ IsInjective(added) /\ IsInjective(context)
        /\ Of(added) \cap Of(context) = {} /\ Of(added) \cup Of(context) = Of(a)
    BY <2>3, <2>5, TwoParts DEF added, context
  <2>7. /\ o["stack"] \in Seq(Frames) /\ o["tables"] \in Seq(Frames) /\ o["image"] \in Seq(Frames)
        /\ Held(o) = Of(o["stack"]) \cup Of(o["tables"]) \cup Of(o["image"])
        /\ Held(o) \cap Of(a) = {}
    <3>1. Held(o) \cap Of(a) = {}
      BY <2>5 DEF o
    <3>2. QED
      BY <2>1, <2>4, <3>1, SpaceParts, EmptyOf
  <2>8. /\ IsInjective(o["stack"]) /\ IsInjective(o["tables"]) /\ IsInjective(o["image"])
        /\ Of(o["stack"]) \cap Of(o["tables"]) = {} /\ Of(o["stack"]) \cap Of(o["image"]) = {}
        /\ Of(o["tables"]) \cap Of(o["image"]) = {}
    BY <2>4, UseExclusive
  <2>9. /\ tables \in Seq(Frames) /\ IsInjective(tables)
        /\ Of(tables) = Of(o["tables"]) \cup Of(added)
    <3>1. Of(o["tables"]) \cap Of(added) = {}
      BY <2>6, <2>7
    <3>2. QED
      BY <2>6, <2>7, <2>8, <3>1, JoinOf DEF tables
  <2>10. /\ s \in [Parts -> Seq(Frames)] /\ s["stack"] = o["stack"] /\ s["tables"] = tables
         /\ s["image"] = o["image"] /\ s["context"] = context
    <3>1. \A part \in {"stack", "tables", "image", "context"} : part \in Parts
      BY DEF Parts
    <3>2. QED
      BY <2>4, <2>6, <2>9, <3>1 DEF s
  <2>11. Held(s) = Held(o) \cup Of(a)
    <3>1. Held(s) = Of(s["stack"]) \cup Of(s["tables"]) \cup Of(s["image"]) \cup Of(s["context"])
      BY <2>10, SpaceParts
    <3>2. QED
      BY <2>6, <2>7, <2>9, <2>10, <3>1
  <2>12. Exclusive(s)
    <3>1. /\ Of(s["stack"]) \cap Of(s["tables"]) = {} /\ Of(s["stack"]) \cap Of(s["image"]) = {}
          /\ Of(s["stack"]) \cap Of(s["context"]) = {} /\ Of(s["tables"]) \cap Of(s["image"]) = {}
          /\ Of(s["tables"]) \cap Of(s["context"]) = {} /\ Of(s["image"]) \cap Of(s["context"]) = {}
      BY <2>6, <2>7, <2>8, <2>9, <2>10
    <3>2. /\ IsInjective(s["stack"]) /\ IsInjective(s["tables"])
          /\ IsInjective(s["image"]) /\ IsInjective(s["context"])
      BY <2>6, <2>8, <2>9, <2>10
    <3>3. QED
      BY <3>1, <3>2, MakeExclusive
  <2>13. /\ FramesOnce' /\ fresh' \in 0 .. FrameEnd /\ recycled' \in Seq(Frames)
         /\ space' \in [Pids -> [Parts -> Seq(Frames)]]
    <3>1. Held(s) \cup Of(<<>>) = Held(space[p]) \cup Of(Alloc(n))
      BY <2>11, EmptyOf DEF a, o
    <3>2. Held(s) \cap Of(<<>>) = {}
      BY EmptyOf
    <3>3. QED
      BY <2>1, <2>2, <2>3, <2>10, <2>12, <3>1, <3>2, EmptyOf, Exchange
  <2>14. Of(context) \subseteq Frames /\ label[p] \in 0 .. MaxBirths /\ Zero \in 0 .. MaxBirths
    <3>1. label[p] \in 1 .. MaxBirths /\ MaxBirths \in Nat
      BY <2>2, MemoryAssumption DEF MemTypeOK
    <3>2. QED
      BY <2>6, <3>1, InOf DEF Zero
  <2>15. /\ \A f \in Of(context) : data'[f] = label[p]
         /\ \A f \in Frames : f \notin Of(a) => data'[f] = data[f]
         /\ \A f \in Frames : data'[f] = label[p] \/ data'[f] = Zero \/ data'[f] = data[f]
         /\ data' = [f \in Frames |-> data'[f]]
    <3>1. Of(context) \subseteq Of(a)
      BY <2>6
    <3>2. QED
      BY <2>1, <2>14, <3>1 DEF Contents, copies
  <2>16. data' \in [Frames -> 0 .. MaxBirths]
    <3>1. \A f \in Frames : data[f] \in 0 .. MaxBirths
      BY <2>2 DEF MemTypeOK
    <3>2. \A f \in Frames : data'[f] \in 0 .. MaxBirths
      BY <2>14, <2>15, <3>1
    <3>3. QED
      BY <2>15, <3>2
  <2>17. MemTypeOK'
    BY <2>1, <2>2, <2>13, <2>14, <2>16 DEF MemTypeOK
  <2>18. FreeHoldsNothing' /\ OwnProgram'
    BY <2>1, <2>2 DEF FreeHoldsNothing, OwnProgram, MemTypeOK
  <2>19. MappingsOwned'
    <3>1. mapped[p] = Of(o["image"])
      BY <2>1, <2>2, EmptyOf DEF MappingsOwned, o
    <3>2. mapped'[p] = Of(s["image"]) \cup Of(s["context"])
      BY <2>0, <2>1, <2>10, <3>1
    <3>3. QED
      BY <2>0, <2>1, <2>2, <3>2 DEF MappingsOwned
  <2>20. PrivateData'
    <3> SUFFICES ASSUME NEW q \in Pids, state'[q] = "Live", NEW f \in mapped'[q]
                 PROVE  data'[f] = Zero \/ data'[f] \in lineage'[q]
      BY DEF PrivateData
    <3>1. state[q] = "Live" /\ lineage'[q] = lineage[q]
      BY <2>1
    <3>2. CASE f \in Of(context)
      <4>1. q = p
        <5> SUFFICES ASSUME q # p PROVE FALSE
          OBVIOUS
        <5>1. f \in Held(space[q])
          BY <2>0, <2>1, <3>1, PagesApart
        <5>2. QED
          BY <2>5, <2>6, <3>2, <5>1
      <4>2. QED
        BY <2>2, <2>15, <3>1, <3>2, <4>1 DEF OwnProgram
    <3>3. CASE f \notin Of(context)
      <4>1. f \in mapped[q] /\ f \in Frames
        BY <2>0, <2>1, <3>3
      <4>2. f \notin Of(a)
        <5>1. f \in Held(space[q])
          <6>1. space[q] \in [Parts -> Seq(Frames)]
            BY <2>0
          <6>2. QED
            BY <2>2, <3>1, <4>1, <6>1, SpaceParts DEF MappingsOwned
        <5>2. QED
          BY <2>5, <5>1
      <4>3. QED
        BY <2>2, <2>15, <3>1, <4>1, <4>2 DEF PrivateData
    <3>4. QED
      BY <3>2, <3>3
  <2>21. QED
    BY <2>13, <2>17, <2>18, <2>19, <2>20 DEF MemInv
<1>4. QED
  BY <1>1, <1>2, <1>3

(* INITPROC's frames at boot are the first ones.                           *)
LEMMA MemStart == MemInit => MemInv
<1> SUFFICES ASSUME MemInit PROVE MemInv
  OBVIOUS
<1> DEFINE t == [i \in 1 .. ImageTables |-> i - 1]
           k == [i \in 1 .. StackPages |-> ImageTables + i]
           m == <<ImageTables>>
           s == [NoSpace EXCEPT !["tables"] = t, !["image"] = m, !["stack"] = k]
<1>1. /\ ImageTables \in Nat \ {0} /\ StackPages \in Nat \ {0} /\ FrameEnd \in Nat
      /\ ImageTables + 1 + StackPages =< FrameEnd /\ InitProc \in Pids
      /\ MaxBirths \in Nat \ {0}
  BY MemoryAssumption, FrameAssumption
<1>2. /\ recycled = <<>> /\ fresh = ImageTables + 1 + StackPages
      /\ space = [p \in Pids |-> IF p # InitProc THEN NoSpace ELSE s]
  BY DEF MemInit
<1>3. /\ t \in Seq(Frames) /\ Len(t) = ImageTables /\ IsInjective(t)
      /\ \A f : f \in Of(t) <=> f \in 0 .. ImageTables - 1
  <2>1. t \in [1 .. ImageTables -> Frames] /\ IsInjective(t)
    BY <1>1 DEF Frames, IsInjective
  <2>2. t \in Seq(Frames) /\ Len(t) = ImageTables
    BY <1>1, <2>1
  <2>3. ASSUME NEW f \in 0 .. ImageTables - 1 PROVE f \in Of(t)
    <3>1. f + 1 \in 1 .. ImageTables /\ t[f + 1] = f
      BY <1>1
    <3>2. QED
      BY <2>2, <3>1, InOf
  <2>4. ASSUME NEW f \in Of(t) PROVE f \in 0 .. ImageTables - 1
    <3>1. PICK i \in 1 .. ImageTables : t[i] = f
      BY <2>2, InOf
    <3>2. QED
      BY <1>1, <3>1
  <2>5. QED
    BY <2>1, <2>2, <2>3, <2>4
<1>4. /\ k \in Seq(Frames) /\ Len(k) = StackPages /\ IsInjective(k)
      /\ \A f : f \in Of(k) <=> f \in ImageTables + 1 .. ImageTables + StackPages
  <2>1. k \in [1 .. StackPages -> Frames] /\ IsInjective(k)
    BY <1>1 DEF Frames, IsInjective
  <2>2. k \in Seq(Frames) /\ Len(k) = StackPages
    BY <1>1, <2>1
  <2>3. ASSUME NEW f \in ImageTables + 1 .. ImageTables + StackPages PROVE f \in Of(k)
    <3>1. f - ImageTables \in 1 .. StackPages /\ k[f - ImageTables] = f
      BY <1>1
    <3>2. QED
      BY <2>2, <3>1, InOf
  <2>4. ASSUME NEW f \in Of(k) PROVE f \in ImageTables + 1 .. ImageTables + StackPages
    <3>1. PICK i \in 1 .. StackPages : k[i] = f
      BY <2>2, InOf
    <3>2. QED
      BY <1>1, <3>1
  <2>5. QED
    BY <2>1, <2>2, <2>3, <2>4
<1>5. m \in Seq(Frames) /\ IsInjective(m) /\ Of(m) = {ImageTables}
  BY <1>1 DEF Frames, IsInjective, Of, ToSet
<1> HIDE DEF t, k, m
<1>6. /\ s \in [Parts -> Seq(Frames)] /\ s["tables"] = t /\ s["image"] = m /\ s["stack"] = k
      /\ s["context"] = <<>>
  <2>1. NoSpace \in [Parts -> Seq(Frames)] /\ NoSpace["context"] = <<>>
    BY NoSpaceFacts DEF NoSpace, Parts
  <2>2. "stack" \in Parts /\ "tables" \in Parts /\ "image" \in Parts /\ "context" \in Parts
    BY DEF Parts
  <2>3. QED
    BY <1>3, <1>4, <1>5, <2>1, <2>2
<1> HIDE DEF s
<1>7. Exclusive(s)
  <2>1. /\ Of(k) \cap Of(t) = {} /\ Of(k) \cap Of(m) = {} /\ Of(t) \cap Of(m) = {}
    BY <1>1, <1>3, <1>4, <1>5
  <2>2. QED
    BY <1>3, <1>4, <1>5, <1>6, <2>1, EmptyOf, MakeExclusive
<1>8. ASSUME NEW f PROVE f \in Held(s) <=> f \in 0 .. ImageTables + StackPages
  <2>1. Held(s) = Of(k) \cup Of(t) \cup Of(m)
    <3>1. Held(s) = Of(s["stack"]) \cup Of(s["tables"]) \cup Of(s["image"]) \cup Of(s["context"])
      BY <1>6, SpaceParts
    <3>2. QED
      BY <1>6, <3>1, EmptyOf
  <2>2. QED
    BY <1>1, <1>3, <1>4, <1>5, <2>1
<1>9. space[InitProc] = s /\ \A p \in Pids \ {InitProc} : space[p] = NoSpace
  BY <1>1, <1>2
<1>10. FramesOnce
  <2>1. Of(recycled) = {} /\ IsInjective(recycled)
    BY <1>2, EmptyOf
  <2>2. \A p \in Pids : Exclusive(space[p])
    BY <1>7, <1>9, NoSpaceFacts
  <2>3. \A p, q \in Pids : p # q => Held(space[p]) \cap Held(space[q]) = {}
    BY <1>9, NoSpaceFacts
  <2>4. ASSUME NEW f \in Frames PROVE f < fresh <=> \E p \in Pids : f \in Held(space[p])
    <3>1. (\E p \in Pids : f \in Held(space[p])) <=> f \in Held(s)
      BY <1>1, <1>9, NoSpaceFacts
    <3>2. f < fresh <=> f \in 0 .. ImageTables + StackPages
      BY <1>1, <1>2 DEF Frames
    <3>3. QED
      BY <1>8, <3>1, <3>2
  <2>5. QED
    BY <2>1, <2>2, <2>3, <2>4 DEF FramesOnce
<1>11. MemTypeOK
  <2>1. fresh \in 0 .. FrameEnd /\ recycled \in Seq(Frames) /\ space \in [Pids -> [Parts -> Seq(Frames)]]
    BY <1>1, <1>2, <1>6, NoSpaceFacts
  <2>2. mapped \in [Pids -> SUBSET Frames]
    BY <1>1 DEF MemInit, Frames
  <2>3. data \in [Frames -> 0 .. MaxBirths] /\ births \in 1 .. MaxBirths
    BY <1>1 DEF MemInit, Zero
  <2>4. label \in [Pids -> 1 .. MaxBirths] /\ lineage \in [Pids -> SUBSET (1 .. MaxBirths)]
    BY <1>1 DEF MemInit
  <2>5. QED
    BY <2>1, <2>2, <2>3, <2>4 DEF MemInit, MemTypeOK
<1>12. FreeHoldsNothing /\ OwnProgram
  BY <1>1, <1>9 DEF MemInit, FreeHoldsNothing, OwnProgram
<1>13. MappingsOwned
  BY <1>1, <1>5, <1>6, <1>9, EmptyOf DEF MemInit, MappingsOwned
<1>14. PrivateData
  BY <1>11 DEF MemInit, PrivateData, MemTypeOK
<1>15. QED
  BY <1>10, <1>11, <1>12, <1>13, <1>14 DEF MemInv

(* Every step keeps the invariant.                                         *)
LEMMA MemStep == MemInv /\ [MemNext]_memVars => MemInv'
<1> SUFFICES ASSUME MemInv, [MemNext]_memVars PROVE MemInv'
  OBVIOUS
<1>1. CASE UNCHANGED memVars
  <2>1. MemTypeOK' /\ FramesOnce'
    BY <1>1 DEF MemInv, MemTypeOK, FramesOnce, memVars
  <2>2. FreeHoldsNothing' /\ OwnProgram' /\ MappingsOwned' /\ PrivateData'
    BY <1>1 DEF MemInv, FreeHoldsNothing, OwnProgram, MappingsOwned, PrivateData, memVars
  <2>3. QED
    BY <2>1, <2>2 DEF MemInv
<1>2. ASSUME NEW p \in Pids, WriteContext(p) PROVE MemInv'
  <2>1. CASE Panic("not mapped")
    BY <2>1, PanicKeeps
  <2>2. CASE ~Panic("not mapped")
    <3>1. /\ state[p] = "Live"
          /\ data' = [f \in Frames |-> IF f \in Of(space[p]["context"]) THEN label[p] ELSE data[f]]
          /\ UNCHANGED <<fresh, recycled, state, space, mapped, agents, label,
                         lineage, births, panicked>>
      BY <1>2, <2>2 DEF WriteContext, RunsApp, Runs
    <3>2. Of(space[p]["context"]) \subseteq mapped[p]
      BY <3>1 DEF MemInv, MappingsOwned
    <3>3. QED
      BY <3>1, <3>2, WriteKeeps
  <2>3. QED
    BY <2>1, <2>2
<1>3. ASSUME NEW p \in Pids, UserWrite(p) PROVE MemInv'
  BY <1>3, WriteKeeps DEF UserWrite, Runs
<1>4. QED
  BY <1>1, <1>2, <1>3, ForkKeeps, ExecKeeps, ExitKeeps, ReapKeeps, CreateKeeps DEF MemNext

(* A frame that is in one place is counted once.                           *)
LEMMA OnceIsCounted ==
  ASSUME MemTypeOK, FramesOnce
  PROVE  FramesConserved
<1> SUFFICES ASSUME NEW f \in Frames
             PROVE  Cardinality(Places(f)) = IF f < fresh THEN 1 ELSE 0
  BY DEF FramesConserved
<1>1. /\ recycled \in Seq(Frames)
      /\ \A p \in Pids, part \in Parts : space[p][part] \in Seq(Frames)
  BY DEF MemTypeOK
<1>2. ASSUME NEW x PROVE x \in Places(f) <=>
          \/ \E i \in 1 .. Len(recycled) : recycled[i] = f /\ x = <<"recycled", i>>
          \/ \E p \in Pids, part \in Parts : \E i \in 1 .. Len(space[p][part]) :
                space[p][part][i] = f /\ x = <<p, part, i>>
  <2> DEFINE A == {<<"recycled", i>> : i \in {j \in DOMAIN recycled : recycled[j] = f}}
             B(p, part) == {<<p, part, i>> :
                              i \in {j \in DOMAIN space[p][part] : space[p][part][j] = f}}
  <2>1. x \in A <=> \E i \in 1 .. Len(recycled) : recycled[i] = f /\ x = <<"recycled", i>>
    BY <1>1
  <2>2. ASSUME NEW p \in Pids, NEW part \in Parts
        PROVE  x \in B(p, part) <=> \E i \in 1 .. Len(space[p][part]) :
                                        space[p][part][i] = f /\ x = <<p, part, i>>
    BY <1>1
  <2>3. Places(f) = A \cup UNION {B(p, part) : p \in Pids, part \in Parts}
    BY DEF Places
  <2> HIDE DEF A, B
  <2>4. x \in Places(f) <=> x \in A \/ \E p \in Pids, part \in Parts : x \in B(p, part)
    BY <2>3
  <2>5. QED
    BY <2>1, <2>2, <2>4
<1>3. CASE ~(f < fresh)
  <2>1. f \notin Of(recycled) /\ \A p \in Pids : f \notin Held(space[p])
    BY <1>3 DEF FramesOnce
  <2>2. \A p \in Pids, part \in Parts : f \notin Of(space[p][part])
    BY <2>1, InHeld
  <2>3. Places(f) = {}
    BY <1>1, <1>2, <2>1, <2>2, InOf
  <2>4. QED
    BY <1>3, <2>3, FS_EmptySet
<1>4. CASE f < fresh /\ f \in Of(recycled)
  <2>1. \A p \in Pids : f \notin Held(space[p])
    BY <1>4 DEF FramesOnce
  <2>2. \A p \in Pids, part \in Parts : f \notin Of(space[p][part])
    BY <2>1, InHeld
  <2>3. PICK i \in 1 .. Len(recycled) : recycled[i] = f
    BY <1>1, <1>4, InOf
  <2>4. \A j \in 1 .. Len(recycled) : recycled[j] = f => j = i
    BY <1>1, <2>3 DEF FramesOnce, IsInjective
  <2>5. Places(f) = {<<"recycled", i>>}
    BY <1>1, <1>2, <2>2, <2>3, <2>4, InOf
  <2>6. QED
    BY <1>4, <2>5, FS_Singleton
<1>5. CASE f < fresh /\ f \notin Of(recycled)
  <2>1. PICK p \in Pids : f \in Held(space[p])
    BY <1>5 DEF FramesOnce
  <2>2. PICK part \in Parts : f \in Of(space[p][part])
    BY <2>1, InHeld
  <2>3. PICK i \in 1 .. Len(space[p][part]) : space[p][part][i] = f
    BY <1>1, <2>2, InOf
  <2>4. ASSUME NEW q \in Pids, NEW r \in Parts, NEW j \in 1 .. Len(space[q][r]),
               space[q][r][j] = f
        PROVE  q = p /\ r = part /\ j = i
    <3>1. f \in Of(space[q][r])
      BY <1>1, <2>4, InOf
    <3>2. q = p
      BY <2>1, <3>1, InHeld DEF FramesOnce
    <3>3. r = part
      BY <2>2, <3>1, <3>2 DEF FramesOnce, Exclusive
    <3>4. IsInjective(space[p][part])
      BY DEF FramesOnce, Exclusive
    <3>5. QED
      BY <1>1, <2>3, <2>4, <3>2, <3>3, <3>4 DEF IsInjective
  <2>5. Places(f) = {<<p, part, i>>}
    BY <1>1, <1>2, <1>5, <2>3, <2>4, InOf
  <2>6. QED
    BY <1>5, <2>5, FS_Singleton
<1>6. QED
  BY <1>3, <1>4, <1>5

(* In every run of the kernel's memory management (fork, exec, exit, wait, *)
(* agent creation, writes, out of memory included) every frame ever taken  *)
(* is in exactly one place and a runnable task maps only frames it owns,   *)
(* for any number of frames and tasks.                                     *)
THEOREM MemoryIsSafe == MemSpec => []MemoryInv
<1>1. MemInv => MemoryInv
  BY OnceIsCounted DEF MemInv, MemoryInv
<1>2. QED
  BY <1>1, MemStart, MemStep, PTL DEF MemSpec

(* No task ever sees what a dead task, or its own program before exec,     *)
(* left in a frame.                                                        *)
THEOREM DataIsPrivate == MemSpec => []PrivateData
<1>1. MemInv => PrivateData
  BY DEF MemInv
<1>2. QED
  BY <1>1, MemStart, MemStep, PTL DEF MemSpec
===============================================================================
