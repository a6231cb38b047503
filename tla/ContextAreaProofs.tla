-------------------------- MODULE ContextAreaProofs ---------------------------
(***************************************************************************)
(* The Context Path keeps its nodes intact, for every buffer length, quota *)
(* and sequence of calls.  The invariant PathInv is inductive: the bytes   *)
(* of the nodes behind a victim are found again after the move because the *)
(* nodes lie one behind the other in the order of their write times, so    *)
(* that the victim is always the first.                                    *)
(*                                                                         *)
(* Tool calls and queries share the Context area with the path and leave   *)
(* it alone, and what a program holds of the area stays readable, for      *)
(* every length of the regions and of the answers (the second part).       *)
(***************************************************************************)
EXTENDS ContextArea, TLAPS, WellFoundedInduction

(* The fields of a record of meta-data are numbers.                        *)
LEMMA FieldTypes ==
  ASSUME NEW m \in NodeMeta
  PROVE  m.offset \in Nat /\ m.len \in Nat /\ m.time \in Nat /\ m.seq \in Nat
BY DEF NodeMeta

(* So are the fields of every entry of path_meta.                          *)
LEMMA MetaTypes ==
  ASSUME PathTypeOK
  PROVE  /\ Len(meta) \in Nat
         /\ \A i \in 1 .. Len(meta) :
              /\ meta[i] \in NodeMeta
              /\ meta[i].offset \in Nat /\ meta[i].len \in Nat
              /\ meta[i].time \in Nat /\ meta[i].seq \in Nat
<1>1. \A i \in 1 .. Len(meta) : meta[i] \in NodeMeta
  BY DEF PathTypeOK
<1>2. QED
  BY <1>1, FieldTypes DEF PathTypeOK

(* Moving two adjacent nodes by L places leaves them adjacent.             *)
LEMMA ShiftedOrder ==
  ASSUME NEW a \in Nat, NEW b \in Nat, NEW c \in Nat, NEW L \in Nat, a + b =< c
  PROVE  (a - L) + b =< c - L
OBVIOUS

(* The k-th byte of a node that ends before u lies before u.               *)
LEMMA BytePlace ==
  ASSUME NEW off \in Nat, NEW len \in Nat, NEW u \in Nat, NEW k \in 1 .. len,
         off + len =< u
  PROVE  off + k - 1 \in 0 .. u - 1
OBVIOUS

(* Where the k-th byte of a node is after the node has moved by L places.  *)
LEMMA ShiftedPlace ==
  ASSUME NEW off \in Nat, NEW len \in Nat, NEW u \in Nat, NEW L \in Nat,
         NEW k \in 1 .. len, L =< off, off + len =< u
  PROVE  /\ (off - L) + k - 1 = off + k - 1 - L
         /\ (off - L) + k - 1 \in 0 .. u - L - 1
OBVIOUS

(* What moving a node to the left does to its meta-data.                   *)
LEMMA MovedFields ==
  ASSUME NEW m \in NodeMeta, NEW L \in Nat, L =< m.offset
  PROVE  /\ Moved(m, L, L) \in NodeMeta
         /\ Moved(m, L, L).offset = m.offset - L
         /\ Moved(m, L, L).len = m.len
         /\ Moved(m, L, L).time = m.time
         /\ Moved(m, L, L).seq = m.seq
<1>1. m.offset \in Nat /\ m.offset - L \in Nat
  BY FieldTypes
<1>2. Moved(m, L, L) = [m EXCEPT !.offset = @ - L]
  BY <1>1 DEF Moved
<1>3. QED
  BY <1>1, <1>2 DEF NodeMeta

(* Under either policy the victim is the first node.                       *)
LEMMA VictimFirst ==
  ASSUME PathTypeOK, PathOrdered, NEW i \in 1 .. Len(meta), IsVictim(i)
  PROVE  i = 1
<1>1. Len(meta) \in Nat /\ 1 \in 1 .. Len(meta)
  BY DEF PathTypeOK
<1>2. meta[i].time \in Nat /\ meta[1].time \in Nat
  BY <1>1, MetaTypes
<1>3. CASE Policy = "Fifo"
  BY <1>3 DEF IsVictim
<1>4. CASE Policy = "Lru" /\ i # 1
  <2>1. 1 \in 1 .. i - 1
    BY <1>4
  <2>2. meta[1].time =< meta[i].time
    BY <2>1 DEF PathOrdered
  <2>3. meta[i].time =< meta[1].time /\ (meta[1].time = meta[i].time => i =< 1)
    BY <1>1, <1>4 DEF IsVictim
  <2>4. QED
    BY <1>2, <1>4, <2>2, <2>3
<1>5. QED
  BY <1>3, <1>4, PushAssumption

(* What evict_one does to the path: the first node goes and the others     *)
(* come forward by its length.                                             *)
LEMMA EvictEffect ==
  ASSUME PathInv, EvictOne
  PROVE  /\ Len(meta) >= 1 /\ meta[1].len \in 1 .. used
         /\ meta' \in Seq(NodeMeta) /\ Len(meta') = Len(meta) - 1
         /\ \A j \in 1 .. Len(meta) - 1 :
               /\ meta'[j].offset = meta[j + 1].offset - meta[1].len
               /\ meta'[j].len = meta[j + 1].len
               /\ meta'[j].time = meta[j + 1].time
               /\ meta'[j].seq = meta[j + 1].seq
         /\ used' = used - meta[1].len
         /\ buffer' = ShiftLeft(buffer, meta[1].len, used - meta[1].len, meta[1].len)
<1>t. PathTypeOK /\ Layout /\ PathOrdered
  BY DEF PathInv
<1>1. PICK i \in 1 .. Len(meta) :
        /\ IsVictim(i)
        /\ buffer' = ShiftLeft(buffer, meta[i].offset + meta[i].len,
                               IF used >= meta[i].offset + meta[i].len
                               THEN used - (meta[i].offset + meta[i].len) ELSE 0,
                               meta[i].len)
        /\ meta' = [j \in 1 .. Len(meta) - 1 |->
                      Moved(meta[IF j < i THEN j ELSE j + 1],
                            meta[i].offset + meta[i].len, meta[i].len)]
        /\ used' = IF used >= meta[i].len THEN used - meta[i].len ELSE 0
  BY DEF EvictOne
<1>2. i = 1 /\ Len(meta) \in Nat /\ Len(meta) >= 1
  BY <1>t, <1>1, VictimFirst DEF PathTypeOK
<1> DEFINE L == meta[1].len
<1>3. meta[1].offset = 0 /\ L \in Nat /\ L >= 1 /\ L =< used /\ used \in Nat
  <2>1. 1 \in 1 .. Len(meta) /\ used \in Nat
    BY <1>t, <1>2 DEF PathTypeOK
  <2>2. meta[1].offset = 0 /\ L >= 1 /\ meta[1].offset + L =< used
    BY <1>t, <2>1 DEF Layout
  <2>3. QED
    BY <1>t, <2>1, <2>2, MetaTypes
<1>4. used' = used - L /\ buffer' = ShiftLeft(buffer, L, used - L, L)
  BY <1>1, <1>2, <1>3
<1>5. meta' = [j \in 1 .. Len(meta) - 1 |-> Moved(meta[j + 1], L, L)]
  BY <1>1, <1>2, <1>3
<1>6. \A j \in 1 .. Len(meta) - 1 : meta[j + 1] \in NodeMeta /\ L =< meta[j + 1].offset
  <2> SUFFICES ASSUME NEW j \in 1 .. Len(meta) - 1
               PROVE  meta[j + 1] \in NodeMeta /\ L =< meta[j + 1].offset
    OBVIOUS
  <2>1. j + 1 \in 1 .. Len(meta) /\ 1 \in 1 .. (j + 1) - 1
    BY <1>2
  <2>2. meta[1].offset + meta[1].len =< meta[j + 1].offset
    BY <1>t, <2>1 DEF Layout
  <2>3. QED
    BY <1>t, <1>3, <2>1, <2>2 DEF PathTypeOK
<1> HIDE DEF L
<1>7. \A j \in 1 .. Len(meta) - 1 :
        /\ Moved(meta[j + 1], L, L) \in NodeMeta
        /\ Moved(meta[j + 1], L, L).offset = meta[j + 1].offset - L
        /\ Moved(meta[j + 1], L, L).len = meta[j + 1].len
        /\ Moved(meta[j + 1], L, L).time = meta[j + 1].time
        /\ Moved(meta[j + 1], L, L).seq = meta[j + 1].seq
  BY <1>3, <1>6, MovedFields
<1>8. meta' \in Seq(NodeMeta) /\ Len(meta') = Len(meta) - 1
  <2> DEFINE n    == Len(meta) - 1
             m(j) == Moved(meta[j + 1], L, L)
  <2>1. n \in Nat
    BY <1>2
  <2>2. \A j \in 1 .. n : m(j) \in NodeMeta
    BY <1>7
  <2>3. meta' = [j \in 1 .. n |-> m(j)]
    BY <1>5
  <2> HIDE DEF n, m
  <2>4. meta' \in Seq(NodeMeta) /\ Len(meta') = n
    BY <2>1, <2>2, <2>3
  <2>5. QED
    BY <2>4 DEF n
<1>9. \A j \in 1 .. Len(meta) - 1 : meta'[j] = Moved(meta[j + 1], L, L)
  BY <1>5
<1>10. QED
  BY <1>2, <1>3, <1>4, <1>7, <1>8, <1>9 DEF L

(* A round of the eviction loop keeps the invariant.                       *)
LEMMA EvictKeeps == ASSUME PathInv, EvictOne PROVE PathInv'
<1> DEFINE n == Len(meta)
           L == meta[1].len
<1>t. PathTypeOK /\ Layout /\ PathOrdered /\ WithinQuota /\ NodesIntact
  BY DEF PathInv
<1>1. /\ n \in Nat /\ n >= 1 /\ L \in Nat /\ L >= 1 /\ L =< used /\ used \in Nat
      /\ meta' \in Seq(NodeMeta) /\ Len(meta') = n - 1
      /\ used' = used - L
      /\ buffer' = ShiftLeft(buffer, L, used - L, L)
  BY <1>t, EvictEffect DEF PathTypeOK
<1>2. \A j \in 1 .. n - 1 : /\ meta'[j].offset = meta[j + 1].offset - L
                            /\ meta'[j].len = meta[j + 1].len
                            /\ meta'[j].time = meta[j + 1].time
                            /\ meta'[j].seq = meta[j + 1].seq
  BY EvictEffect
<1>3. \A j \in 1 .. n : /\ meta[j].offset \in Nat /\ meta[j].len \in Nat
                        /\ meta[j].time \in Nat /\ meta[j].seq \in Nat
  BY <1>t, MetaTypes
<1>4. /\ UNCHANGED <<nextSeq, header, clock, push, before>> /\ push # NoPush
  BY DEF EvictOne
<1> HIDE DEF L
<1>5. Layout'
  <2>1. meta' = <<>> => used' = 0
    <3> SUFFICES ASSUME meta' = <<>> PROVE used' = 0
      OBVIOUS
    <3>1. n = 1
      BY <1>1
    <3>2. used = meta[1].offset + meta[1].len /\ meta[1].offset = 0
      BY <1>t, <3>1 DEF Layout
    <3>3. QED
      BY <1>1, <3>2 DEF L
  <2>2. ASSUME NEW i \in 1 .. n - 1
        PROVE  /\ meta'[i].len >= 1
               /\ i = 1 => meta'[i].offset = 0
               /\ i < n - 1 => meta'[i + 1].offset = meta'[i].offset + meta'[i].len
               /\ i = n - 1 => used' = meta'[i].offset + meta'[i].len
               /\ meta'[i].offset + meta'[i].len =< used'
               /\ \A j \in 1 .. i - 1 : meta'[j].offset + meta'[j].len =< meta'[i].offset
    <3>1. i + 1 \in 1 .. n
      BY <1>1
    <3>2. /\ meta[i + 1].len >= 1
          /\ i + 1 < n => meta[(i + 1) + 1].offset = meta[i + 1].offset + meta[i + 1].len
          /\ i + 1 = n => used = meta[i + 1].offset + meta[i + 1].len
          /\ meta[i + 1].offset + meta[i + 1].len =< used
      BY <1>t, <3>1 DEF Layout
    <3>a. /\ meta'[i].offset = meta[i + 1].offset - L /\ meta'[i].len = meta[i + 1].len
          /\ meta[i + 1].offset \in Nat /\ meta[i + 1].len \in Nat
      BY <1>2, <1>3, <3>1
    <3>n. L \in Nat /\ used \in Nat /\ n \in Nat /\ used' = used - L
      BY <1>1
    <3>3. i = 1 => meta[i + 1].offset = L
      <4>1. i = 1 => 1 < n /\ 1 \in 1 .. n
        BY <1>1
      <4>2. i = 1 => meta[1].offset = 0 /\ meta[1 + 1].offset = meta[1].offset + meta[1].len
        BY <1>t, <4>1 DEF Layout
      <4>3. QED
        BY <4>2, <1>1, <1>3 DEF L
    <3>4. ASSUME NEW j \in 1 .. i - 1
          PROVE  meta'[j].offset + meta'[j].len =< meta'[i].offset
      <4>1. j + 1 \in 1 .. (i + 1) - 1 /\ j \in 1 .. n - 1 /\ j + 1 \in 1 .. n
        BY <1>1
      <4>2. meta[j + 1].offset + meta[j + 1].len =< meta[i + 1].offset
        BY <1>t, <3>1, <4>1 DEF Layout
      <4>3. /\ meta'[j].offset = meta[j + 1].offset - L /\ meta'[j].len = meta[j + 1].len
            /\ meta[j + 1].offset \in Nat /\ meta[j + 1].len \in Nat
        BY <1>2, <1>3, <4>1
      <4>4. (meta[j + 1].offset - L) + meta[j + 1].len =< meta[i + 1].offset - L
        BY <3>a, <3>n, <4>2, <4>3, ShiftedOrder
      <4>5. QED
        BY <3>a, <4>3, <4>4
    <3>5. i < n - 1 => meta'[i + 1].offset = meta'[i].offset + meta'[i].len
      <4> SUFFICES ASSUME i < n - 1
                   PROVE  meta'[i + 1].offset = meta'[i].offset + meta'[i].len
        OBVIOUS
      <4>1. i + 1 \in 1 .. n - 1 /\ (i + 1) + 1 \in 1 .. n
        BY <1>1
      <4>2. meta[(i + 1) + 1].offset = meta[i + 1].offset + meta[i + 1].len
        BY <3>2, <3>n
      <4>3. meta'[i + 1].offset = meta[(i + 1) + 1].offset - L
        BY <1>2, <4>1
      <4>4. QED
        BY <3>a, <3>n, <4>2, <4>3
    <3>6. /\ meta'[i].len >= 1
          /\ i = 1 => meta'[i].offset = 0
          /\ i = n - 1 => used' = meta'[i].offset + meta'[i].len
          /\ meta'[i].offset + meta'[i].len =< used'
      BY <3>a, <3>n, <3>2, <3>3, SMTT(40)
    <3>7. QED
      BY <3>4, <3>5, <3>6
  <2>3. QED
    BY <1>1, <2>1, <2>2 DEF Layout
<1>6. PathOrdered'
  <2> SUFFICES ASSUME NEW i \in 1 .. n - 1
               PROVE  /\ meta'[i].seq < nextSeq /\ meta'[i].time =< clock
                      /\ \A j \in 1 .. i - 1 : /\ meta'[j].seq < meta'[i].seq
                                               /\ meta'[j].time =< meta'[i].time
    BY <1>1, <1>4 DEF PathOrdered
  <2>1. i + 1 \in 1 .. n
    BY <1>1
  <2>2. \A j \in 1 .. i - 1 : j + 1 \in 1 .. (i + 1) - 1 /\ j \in 1 .. n - 1
    BY <1>1
  <2>3. QED
    BY <1>t, <1>2, <2>1, <2>2 DEF PathOrdered
<1>7. WithinQuota'
  BY <1>t, <1>1, <1>4, QuotaAssumption DEF WithinQuota
<1>8. NodesIntact'
  <2> SUFFICES ASSUME NEW i \in 1 .. n - 1, NEW k \in 1 .. meta'[i].len
               PROVE  buffer'[meta'[i].offset + k - 1] = <<meta'[i].seq, k>>
    BY <1>1 DEF NodesIntact
  <2>1. i + 1 \in 1 .. n /\ 1 \in 1 .. (i + 1) - 1 /\ 1 \in 1 .. n
    BY <1>1
  <2>2. k \in 1 .. meta[i + 1].len
    BY <1>2
  <2>3. /\ L =< meta[i + 1].offset
        /\ meta[i + 1].offset + meta[i + 1].len =< used
    <3>1. meta[1].offset = 0 /\ meta[1].offset + meta[1].len =< meta[i + 1].offset
      BY <1>t, <2>1 DEF Layout
    <3>2. QED
      BY <1>t, <1>1, <1>3, <2>1, <3>1 DEF Layout, L
  <2> DEFINE a == meta'[i].offset + k - 1
  <2>4. a = meta[i + 1].offset + k - 1 - L /\ a \in 0 .. used - L - 1
    <3>1. meta'[i].offset = meta[i + 1].offset - L /\ meta[i + 1].offset \in Nat
      BY <1>2, <1>3, <2>1
    <3>2. L \in Nat /\ used \in Nat /\ meta[i + 1].len \in Nat
      BY <1>1, <1>3, <2>1
    <3>3. /\ (meta[i + 1].offset - L) + k - 1 = meta[i + 1].offset + k - 1 - L
          /\ (meta[i + 1].offset - L) + k - 1 \in 0 .. used - L - 1
      BY <2>2, <2>3, <3>1, <3>2, ShiftedPlace
    <3>4. QED
      BY <3>1, <3>3
  <2>5. a \in 0 .. PathBufferLen - 1 /\ a \in L - L .. L - L + (used - L) - 1
    BY <1>t, <1>1, <2>4, QuotaAssumption DEF WithinQuota
  <2>6. DOMAIN buffer = 0 .. PathBufferLen - 1
    BY <1>t DEF PathTypeOK
  <2> HIDE DEF a
  <2>7. buffer'[a] = buffer[a + L]
    BY <1>1, <2>5, <2>6 DEF ShiftLeft
  <2>8. a + L = meta[i + 1].offset + k - 1
    BY <1>1, <1>3, <2>1, <2>4, SMTT(40)
  <2>9. buffer[meta[i + 1].offset + k - 1] = <<meta[i + 1].seq, k>>
    BY <1>t, <2>1, <2>2 DEF NodesIntact
  <2>10. QED
    BY <1>2, <2>7, <2>8, <2>9 DEF a
<1>9. PathTypeOK'
  <2>1. buffer' \in [0 .. PathBufferLen - 1 -> Bytes]
    <3>1. DOMAIN buffer = 0 .. PathBufferLen - 1
      BY <1>t DEF PathTypeOK
    <3>2. ASSUME NEW a \in 0 .. PathBufferLen - 1, a \in L - L .. L - L + (used - L) - 1
          PROVE  a + L \in 0 .. PathBufferLen - 1
      BY <1>t, <1>1, <3>2, QuotaAssumption DEF WithinQuota
    <3>3. QED
      BY <1>t, <1>1, <3>1, <3>2 DEF PathTypeOK, ShiftLeft
  <2>2. used' \in Nat
    BY <1>1
  <2>3. QED
    BY <1>t, <1>1, <1>4, <2>1, <2>2 DEF PathTypeOK
<1>10. HeaderAgrees'
  BY <1>4 DEF HeaderAgrees
<1>11. QED
  BY <1>5, <1>6, <1>7, <1>8, <1>9, <1>10 DEF PathInv

(* Writing the new node behind the others keeps the invariant.             *)
LEMMA PushKeeps == ASSUME PathInv, NEW tick \in 0 .. 1, PushEnd(tick) PROVE PathInv'
<1> DEFINE n == Len(meta)
           new == [offset |-> used, len |-> push, time |-> clock + tick, seq |-> nextSeq]
<1>t. PathTypeOK /\ Layout /\ PathOrdered /\ WithinQuota /\ NodesIntact
  BY DEF PathInv
<1>1. /\ n \in Nat /\ used \in Nat /\ clock \in Nat /\ nextSeq \in Nat /\ push \in Nat
      /\ push >= 1 /\ used + push =< MaxBytes /\ n < MaxNodes
  BY <1>t, QuotaAssumption DEF PathTypeOK, PushEnd, MustEvict, NoPush
<1>2. /\ meta' = Append(meta, new) /\ used' = used + push /\ nextSeq' = nextSeq + 1
      /\ clock' = clock + tick /\ push' = NoPush
      /\ header' = [used |-> used', count |-> Len(meta')]
      /\ buffer' = [i \in DOMAIN buffer |-> IF i \in used .. used + push - 1
                        THEN <<nextSeq, i - used + 1>> ELSE buffer[i]]
  BY DEF PushEnd, SyncHeader
<1>3. new \in NodeMeta
  BY <1>1 DEF NodeMeta
<1>f. new.offset = used /\ new.len = push /\ new.time = clock + tick /\ new.seq = nextSeq
  OBVIOUS
<1> HIDE DEF new
<1>4. /\ meta' \in Seq(NodeMeta) /\ Len(meta') = n + 1 /\ meta'[n + 1] = new
      /\ \A i \in 1 .. n : meta'[i] = meta[i]
  BY <1>t, <1>2, <1>3 DEF PathTypeOK
<1>5. \A i \in 1 .. n : /\ meta[i].offset \in Nat /\ meta[i].len \in Nat
                        /\ meta[i].time \in Nat /\ meta[i].seq \in Nat
  BY <1>t, MetaTypes
<1>i. \A i \in 1 .. n + 1 : i = n + 1 \/ i \in 1 .. n
  BY <1>1
<1>6. Layout'
  <2>1. ASSUME NEW i \in 1 .. n
        PROVE  /\ meta'[i].len >= 1
               /\ i = 1 => meta'[i].offset = 0
               /\ i < n + 1 => meta'[i + 1].offset = meta'[i].offset + meta'[i].len
               /\ i = n + 1 => used' = meta'[i].offset + meta'[i].len
               /\ meta'[i].offset + meta'[i].len =< used'
               /\ \A j \in 1 .. i - 1 : meta'[j].offset + meta'[j].len =< meta'[i].offset
    <3>1. /\ meta[i].len >= 1
          /\ i = 1 => meta[i].offset = 0
          /\ i < n => meta[i + 1].offset = meta[i].offset + meta[i].len
          /\ i = n => used = meta[i].offset + meta[i].len
          /\ meta[i].offset + meta[i].len =< used
          /\ \A j \in 1 .. i - 1 : meta[j].offset + meta[j].len =< meta[i].offset
      BY <1>t DEF Layout
    <3>2. meta'[i] = meta[i] /\ \A j \in 1 .. i - 1 : meta'[j] = meta[j]
      BY <1>1, <1>4
    <3>3. meta'[i + 1].offset = meta[i].offset + meta[i].len
      <4>1. CASE i = n
        BY <4>1, <1>4, <1>f, <3>1
      <4>2. CASE i < n
        <5>1. i + 1 \in 1 .. n
          BY <4>2, <1>1
        <5>2. QED
          BY <4>2, <5>1, <1>4, <3>1
      <4>3. QED
        BY <4>1, <4>2, <1>1
    <3>4. meta[i].offset + meta[i].len =< used'
      BY <1>1, <1>2, <1>5, <3>1
    <3>5. i # n + 1
      BY <1>1
    <3>6. QED
      BY <3>1, <3>2, <3>3, <3>4, <3>5
  <2>2. /\ new.len >= 1
        /\ n + 1 = 1 => new.offset = 0
        /\ used' = new.offset + new.len
        /\ \A j \in 1 .. n : meta[j].offset + meta[j].len =< new.offset
    <3>1. n = 0 => used = 0
      BY <1>t DEF Layout, PathTypeOK
    <3>2. \A j \in 1 .. n : meta[j].offset + meta[j].len =< used
      BY <1>t DEF Layout
    <3>3. QED
      BY <1>1, <1>2, <1>f, <3>1, <3>2
  <2>3. ASSUME NEW i \in 1 .. n + 1
        PROVE  /\ meta'[i].len >= 1
               /\ i = 1 => meta'[i].offset = 0
               /\ i < n + 1 => meta'[i + 1].offset = meta'[i].offset + meta'[i].len
               /\ i = n + 1 => used' = meta'[i].offset + meta'[i].len
               /\ meta'[i].offset + meta'[i].len =< used'
               /\ \A j \in 1 .. i - 1 : meta'[j].offset + meta'[j].len =< meta'[i].offset
    <3>1. CASE i \in 1 .. n
      BY <2>1, <3>1
    <3>2. CASE i = n + 1
      <4>1. meta'[i] = new /\ \A j \in 1 .. i - 1 : j \in 1 .. n /\ meta'[j] = meta[j]
        BY <1>1, <1>4, <3>2
      <4>2. new.offset + new.len =< used' /\ ~(i < n + 1)
        BY <1>1, <1>2, <1>f, <3>2
      <4>3. QED
        BY <2>2, <3>2, <4>1, <4>2
    <3>3. QED
      BY <1>i, <3>1, <3>2
  <2>4. meta' # <<>>
    BY <1>1, <1>4
  <2>5. QED
    BY <1>4, <2>3, <2>4 DEF Layout
<1>7. PathOrdered'
  <2> SUFFICES ASSUME NEW i \in 1 .. n + 1
               PROVE  /\ meta'[i].seq < nextSeq + 1 /\ meta'[i].time =< clock + tick
                      /\ \A j \in 1 .. i - 1 : /\ meta'[j].seq < meta'[i].seq
                                               /\ meta'[j].time =< meta'[i].time
    BY <1>2, <1>4 DEF PathOrdered
  <2>1. \A j \in 1 .. n : meta[j].seq < nextSeq /\ meta[j].time =< clock
    BY <1>t DEF PathOrdered
  <2>2. CASE i \in 1 .. n
    <3>1. meta'[i] = meta[i] /\ \A j \in 1 .. i - 1 : meta'[j] = meta[j]
      BY <1>1, <1>4, <2>2
    <3>2. \A j \in 1 .. i - 1 : meta[j].seq < meta[i].seq /\ meta[j].time =< meta[i].time
      BY <1>t, <2>2 DEF PathOrdered
    <3>3. meta[i].seq < nextSeq + 1 /\ meta[i].time =< clock + tick
      BY <1>1, <1>5, <2>1, <2>2
    <3>4. QED
      BY <3>1, <3>2, <3>3
  <2>3. CASE i = n + 1
    <3>1. meta'[i] = new /\ \A j \in 1 .. i - 1 : j \in 1 .. n /\ meta'[j] = meta[j]
      BY <1>1, <1>4, <2>3
    <3>2. \A j \in 1 .. n : meta[j].seq < new.seq /\ meta[j].time =< new.time
      BY <1>1, <1>5, <1>f, <2>1
    <3>3. new.seq < nextSeq + 1 /\ new.time =< clock + tick
      BY <1>1, <1>f
    <3>4. QED
      BY <3>1, <3>2, <3>3
  <2>4. QED
    BY <1>i, <2>2, <2>3
<1>8. WithinQuota'
  BY <1>1, <1>2, <1>4, QuotaAssumption DEF WithinQuota
<1>d. DOMAIN buffer = 0 .. PathBufferLen - 1 /\ used + push =< PathBufferLen
  BY <1>t, <1>1, QuotaAssumption DEF PathTypeOK
<1>9. NodesIntact'
  <2> SUFFICES ASSUME NEW i \in 1 .. n + 1, NEW k \in 1 .. meta'[i].len
               PROVE  buffer'[meta'[i].offset + k - 1] = <<meta'[i].seq, k>>
    BY <1>4 DEF NodesIntact
  <2> DEFINE a == meta'[i].offset + k - 1
  <2>1. CASE i \in 1 .. n
    <3>1. meta'[i] = meta[i] /\ meta[i].offset + meta[i].len =< used
      BY <1>t, <1>4, <2>1 DEF Layout
    <3>2. meta[i].offset \in Nat /\ meta[i].len \in Nat
      BY <1>5, <2>1
    <3>3. a \in 0 .. used - 1
      <4>1. meta[i].offset + k - 1 \in 0 .. used - 1
        BY <1>1, <3>1, <3>2, BytePlace
      <4>2. QED
        BY <3>1, <4>1
    <3>4. a \in DOMAIN buffer /\ a \notin used .. used + push - 1
      BY <1>1, <1>d, <3>3, QuotaAssumption
    <3>5. buffer[a] = <<meta[i].seq, k>>
      BY <1>t, <2>1, <3>1 DEF NodesIntact
    <3> HIDE DEF a
    <3>6. buffer'[a] = buffer[a]
      BY <1>2, <3>4
    <3>7. QED
      BY <3>1, <3>5, <3>6 DEF a
  <2>2. CASE i = n + 1
    <3>1. meta'[i] = new /\ k \in 1 .. push /\ a = used + k - 1
      BY <1>4, <1>f, <2>2
    <3>2. a \in used .. used + push - 1 /\ a \in DOMAIN buffer /\ a - used + 1 = k
      BY <1>1, <1>d, <3>1, QuotaAssumption, SMTT(40)
    <3> HIDE DEF a
    <3>3. buffer'[a] = <<nextSeq, k>>
      BY <1>2, <3>2
    <3>4. QED
      BY <1>f, <3>1, <3>3 DEF a
  <2>3. QED
    BY <1>i, <2>1, <2>2
<1>10. PathTypeOK'
  <2>1. ASSUME NEW a \in 0 .. PathBufferLen - 1, a \in used .. used + push - 1
        PROVE  <<nextSeq, a - used + 1>> \in Bytes
    BY <1>1, <2>1 DEF Bytes
  <2>2. buffer' \in [0 .. PathBufferLen - 1 -> Bytes]
    BY <1>t, <1>2, <1>d, <2>1 DEF PathTypeOK
  <2>3. used' \in Nat /\ nextSeq' \in Nat /\ clock' \in Nat /\ push' \in Nat /\ Len(meta') \in Nat
    BY <1>1, <1>2, <1>4 DEF NoPush
  <2>4. QED
    BY <1>2, <1>4, <2>2, <2>3 DEF PathTypeOK
<1>11. HeaderAgrees'
  BY <1>2 DEF HeaderAgrees
<1>12. QED
  BY <1>6, <1>7, <1>8, <1>9, <1>10, <1>11 DEF PathInv

(* Keeping a prefix of the nodes, or none, keeps the invariant.            *)
LEMMA CutKeeps ==
  ASSUME PathInv, push = NoPush, NEW c \in 0 .. Len(meta), meta' = SubSeq(meta, 1, c),
         used' = IF c = 0 THEN 0 ELSE meta[c].offset + meta[c].len,
         SyncHeader, UNCHANGED <<nextSeq, buffer, clock, push>>
  PROVE  PathInv'
<1>t. PathTypeOK /\ Layout /\ PathOrdered /\ WithinQuota /\ NodesIntact
  BY DEF PathInv
<1>1. /\ Len(meta) \in Nat /\ meta' \in Seq(NodeMeta) /\ Len(meta') = c
      /\ \A i \in 1 .. c : i \in 1 .. Len(meta) /\ meta'[i] = meta[i]
  BY <1>t DEF PathTypeOK
<1>2. \A i \in 1 .. c : /\ meta[i].offset \in Nat /\ meta[i].len \in Nat
  BY <1>t, <1>1, MetaTypes
<1>3. used' \in Nat /\ used' =< used /\ used \in Nat
  <2>1. CASE c = 0
    BY <1>t, <2>1 DEF PathTypeOK
  <2>2. CASE c # 0
    <3>1. c \in 1 .. c /\ c \in 1 .. Len(meta)
      BY <1>1, <2>2
    <3>2. meta[c].offset + meta[c].len =< used
      BY <1>t, <3>1 DEF Layout
    <3>3. QED
      BY <1>t, <1>2, <2>2, <3>1, <3>2 DEF PathTypeOK
  <2>3. QED
    BY <2>1, <2>2
<1>4. Layout'
  <2>1. ASSUME NEW i \in 1 .. c
        PROVE  /\ meta'[i].len >= 1
               /\ i = 1 => meta'[i].offset = 0
               /\ i < c => meta'[i + 1].offset = meta'[i].offset + meta'[i].len
               /\ i = c => used' = meta'[i].offset + meta'[i].len
               /\ meta'[i].offset + meta'[i].len =< used'
               /\ \A j \in 1 .. i - 1 : meta'[j].offset + meta'[j].len =< meta'[i].offset
    <3>1. i \in 1 .. Len(meta) /\ c \in 1 .. Len(meta) /\ c \in 1 .. c
      BY <1>1
    <3>2. /\ meta[i].len >= 1
          /\ i = 1 => meta[i].offset = 0
          /\ i < Len(meta) => meta[i + 1].offset = meta[i].offset + meta[i].len
          /\ \A j \in 1 .. i - 1 : meta[j].offset + meta[j].len =< meta[i].offset
      BY <1>t, <3>1 DEF Layout
    <3>3. \A j \in 1 .. c - 1 : meta[j].offset + meta[j].len =< meta[c].offset
      BY <1>t, <3>1 DEF Layout
    <3>4. used' = meta[c].offset + meta[c].len
      BY <3>1
    <3>5. meta[i].offset + meta[i].len =< used'
      <4>1. CASE i = c
        BY <4>1, <3>4, <1>2, <3>1
      <4>2. CASE i # c
        <5>1. i \in 1 .. c - 1
          BY <4>2
        <5>2. meta[i].offset + meta[i].len =< meta[c].offset
          BY <5>1, <3>3
        <5>3. QED
          BY <5>2, <3>4, <1>2, <3>1, SMTT(40)
      <4>3. QED
        BY <4>1, <4>2
    <3>6. i < c => i + 1 \in 1 .. c /\ i < Len(meta)
      BY <1>1
    <3>7. \A j \in 1 .. i - 1 : j \in 1 .. c
      OBVIOUS
    <3>8. QED
      BY <1>1, <3>2, <3>4, <3>5, <3>6, <3>7
  <2>2. meta' = <<>> => used' = 0
    BY <1>1
  <2>3. QED
    BY <1>1, <2>1, <2>2 DEF Layout
<1>5. PathOrdered'
  <2> SUFFICES ASSUME NEW i \in 1 .. c
               PROVE  /\ meta'[i].seq < nextSeq /\ meta'[i].time =< clock
                      /\ \A j \in 1 .. i - 1 : /\ meta'[j].seq < meta'[i].seq
                                               /\ meta'[j].time =< meta'[i].time
    BY <1>1 DEF PathOrdered
  <2>1. i \in 1 .. Len(meta) /\ meta'[i] = meta[i] /\ \A j \in 1 .. i - 1 : meta'[j] = meta[j]
    BY <1>1
  <2>2. QED
    BY <1>t, <2>1 DEF PathOrdered
<1>6. WithinQuota'
  BY <1>t, <1>1, <1>3, QuotaAssumption DEF WithinQuota
<1>7. NodesIntact'
  <2> SUFFICES ASSUME NEW i \in 1 .. c, NEW k \in 1 .. meta'[i].len
               PROVE  buffer[meta'[i].offset + k - 1] = <<meta'[i].seq, k>>
    BY <1>1 DEF NodesIntact
  <2>1. i \in 1 .. Len(meta) /\ meta'[i] = meta[i]
    BY <1>1
  <2>2. k \in 1 .. meta[i].len
    BY <2>1
  <2>3. buffer[meta[i].offset + k - 1] = <<meta[i].seq, k>>
    BY <1>t, <2>1, <2>2 DEF NodesIntact
  <2>4. QED
    BY <2>1, <2>3
<1>8. PathTypeOK' /\ HeaderAgrees'
  BY <1>t, <1>1, <1>3 DEF PathTypeOK, HeaderAgrees, SyncHeader
<1>9. QED
  BY <1>4, <1>5, <1>6, <1>7, <1>8 DEF PathInv

(* Every call keeps the invariant.                                         *)
LEMMA PathStep == PathInv /\ [PathNext]_pathVars => PathInv'
<1> SUFFICES ASSUME PathInv, [PathNext]_pathVars PROVE PathInv'
  OBVIOUS
<1>t. PathTypeOK
  BY DEF PathInv
<1>1. ASSUME NEW n \in Payloads, PushBegin(n) PROVE PathInv'
  <2>1. /\ UNCHANGED <<meta, used, nextSeq, buffer, header, clock>>
        /\ push' \in Nat /\ push' # NoPush /\ push' =< MaxBytes
    BY <1>1, QuotaAssumption, PushAssumption DEF PushBegin, NoPush
  <2>2. PathTypeOK' /\ Layout' /\ PathOrdered' /\ NodesIntact'
    BY <2>1 DEF PathInv, PathTypeOK, Layout, PathOrdered, NodesIntact
  <2>3. WithinQuota' /\ HeaderAgrees'
    BY <2>1 DEF PathInv, WithinQuota, HeaderAgrees
  <2>4. QED
    BY <2>2, <2>3 DEF PathInv
<1>2. ASSUME NEW n \in 0 .. MaxNodes, Rollback(n) PROVE PathInv'
  <2>1. n \in 0 .. Len(meta)
    BY <1>2, <1>t DEF Rollback, PathTypeOK
  <2>2. QED
    BY <1>2, <2>1, CutKeeps DEF Rollback
<1>3. CASE Clear
  <2>1. 0 \in 0 .. Len(meta) /\ SubSeq(meta, 1, 0) = <<>>
    BY <1>t DEF PathTypeOK
  <2>2. QED
    BY <1>3, <2>1, CutKeeps DEF Clear
<1>4. CASE UNCHANGED pathVars
  BY <1>4 DEF pathVars, PathInv, PathTypeOK, Layout, PathOrdered, WithinQuota,
              NodesIntact, HeaderAgrees
<1>5. QED
  BY <1>1, <1>2, <1>3, <1>4, EvictKeeps, PushKeeps DEF PathNext

(* At first the path is empty. *)
LEMMA PathStart == PathInit => PathInv
<1> SUFFICES ASSUME PathInit PROVE PathInv
  OBVIOUS
<1>1. meta = <<>> /\ Len(meta) = 0 /\ meta \in Seq(NodeMeta)
  BY DEF PathInit
<1>2. PathTypeOK
  BY <1>1 DEF PathInit, PathTypeOK, Bytes, Blank, NoPush
<1>3. Layout /\ PathOrdered /\ NodesIntact
  BY <1>1 DEF PathInit, Layout, PathOrdered, NodesIntact
<1>4. WithinQuota /\ HeaderAgrees
  BY <1>1, QuotaAssumption DEF PathInit, WithinQuota, HeaderAgrees
<1>5. QED
  BY <1>2, <1>3, <1>4 DEF PathInv

(* For every buffer, quota, policy and sequence of calls, the path keeps   *)
(* its invariant.                                                          *)
THEOREM PathInvariant == PathSpec => []PathInv
BY PathStart, PathStep, PTL DEF PathSpec

(* Between two calls the header the user reads (sync_header) agrees with   *)
(* the kernel's record of the path.                                        *)
THEOREM HeaderStaysInStep == PathSpec => []HeaderAgrees
<1>1. PathInv => HeaderAgrees
  BY DEF PathInv
<1>2. QED
  BY <1>1, PathInvariant, PTL

(* Every listed node reads back byte for byte.                             *)
THEOREM NodesStayIntact == PathSpec => []NodesIntact
<1>1. PathInv => NodesIntact
  BY DEF PathInv
<1>2. QED
  BY <1>1, PathInvariant, PTL

(* The path never outgrows its quotas, hence never its buffer.             *)
THEOREM QuotaHolds == PathSpec => []WithinQuota
<1>1. PathInv => WithinQuota
  BY DEF PathInv
<1>2. QED
  BY <1>1, PathInvariant, PTL

(* The InternalError return of push_node is dead code: the eviction loop   *)
(* ends before the path is empty, because a single node fits the quota.    *)
THEOREM EvictionNeverFails == PathSpec => []EvictionSucceeds
<1>1. PathInv => EvictionSucceeds
  <2> SUFFICES ASSUME PathInv, push # NoPush, MustEvict, meta = <<>> PROVE FALSE
    BY DEF EvictionSucceeds
  <2>1. used = 0 /\ Len(meta) = 0
    BY DEF PathInv, Layout
  <2>2. push =< MaxBytes /\ push \in Nat
    BY DEF PathInv, WithinQuota, PathTypeOK
  <2>3. QED
    BY <2>1, <2>2, QuotaAssumption DEF MustEvict
<1>2. QED
  BY <1>1, PathInvariant, PTL

(* The Lru policy of the code is first in first out.                       *)
THEOREM LruIsFifo == PathSpec => []VictimIsOldest
<1>1. PathInv => VictimIsOldest
  <2> SUFFICES ASSUME PathInv, meta # <<>>
               PROVE  {i \in 1 .. Len(meta) : IsVictim(i)} = {1}
    BY DEF VictimIsOldest
  <2>t. PathTypeOK /\ PathOrdered
    BY DEF PathInv
  <2>1. 1 \in 1 .. Len(meta) /\ Len(meta) \in Nat
    BY <2>t DEF PathTypeOK
  <2>2. \A i \in 1 .. Len(meta) : IsVictim(i) => i = 1
    BY <2>t, VictimFirst
  <2>3. \A j \in 1 .. Len(meta) : meta[1].time =< meta[j].time /\ 1 =< j
    <3> SUFFICES ASSUME NEW j \in 1 .. Len(meta) PROVE meta[1].time =< meta[j].time
      OBVIOUS
    <3>1. CASE j = 1
      BY <2>t, <3>1, MetaTypes
    <3>2. CASE j # 1
      <4>1. 1 \in 1 .. j - 1
        BY <3>2
      <4>2. QED
        BY <2>t, <4>1 DEF PathOrdered
    <3>3. QED
      BY <3>1, <3>2
  <2>4. IsVictim(1)
    BY <2>3, PushAssumption DEF IsVictim
  <2>5. QED
    BY <2>1, <2>2, <2>4
<1>2. QED
  BY <1>1, PathInvariant, PTL

-------------------------------------------------------------------------------
(* A set of numbers that is not empty has a least one.  What a recursive   *)
(* function computes is proved with it: the smallest argument for which it *)
(* is wrong would have a smaller one.                                      *)
LEMMA Least ==
  ASSUME NEW T, T \subseteq Nat, T # {}
  PROVE  \E x \in T : \A y \in T : x =< y
<1> DEFINE R == OpToRel(<, Nat)
<1>1. IsWellFoundedOn(R, Nat)
  BY NatLessThanWellFounded
<1>2. \A x, y \in Nat : <<x, y>> \in R <=> x < y
  BY DEF OpToRel
<1> HIDE DEF R
<1>3. PICK x \in T : \A y \in T : ~(<<y, x>> \in R)
  BY <1>1, WFMin
<1>4. ASSUME NEW y \in T PROVE x =< y
  <2>1. x \in Nat /\ y \in Nat /\ ~(y < x)
    BY <1>2, <1>3
  <2>2. QED
    BY <2>1
<1>5. QED
  BY <1>4

(* ContextLog's Size is the last value of any function that adds up the    *)
(* lengths.                                                                *)
LEMMA SizeIs ==
  ASSUME NEW S, NEW l \in Seq(Seq(S)), NEW g \in [0 .. Len(l) -> Nat],
         g[0] = 0, \A i \in 1 .. Len(l) : g[i] = g[i - 1] + Len(l[i])
  PROVE  Log!Size(l) = g[Len(l)]
<1> DEFINE sum == CHOOSE s : s = [i \in 0 .. Len(l) |-> IF i = 0 THEN 0 ELSE s[i - 1] + Len(l[i])]
<1>1. g = [i \in 0 .. Len(l) |-> IF i = 0 THEN 0 ELSE g[i - 1] + Len(l[i])]
  OBVIOUS
<1>2. sum = [i \in 0 .. Len(l) |-> IF i = 0 THEN 0 ELSE sum[i - 1] + Len(l[i])]
  BY <1>1
<1>3. Log!Size(l) = sum[Len(l)]
  BY DEF Log!Size
<1> HIDE DEF sum
<1> DEFINE T == {i \in 0 .. Len(l) : sum[i] # g[i]}
<1>4. T = {}
  <2> SUFFICES ASSUME T # {} PROVE FALSE
    OBVIOUS
  <2>1. T \subseteq Nat
    OBVIOUS
  <2>2. PICK x \in T : \A y \in T : x =< y
    BY <2>1, Least
  <2>3. x # 0
    BY <1>2
  <2>4. x - 1 \in 0 .. Len(l) /\ x - 1 \notin T
    BY <2>2, <2>3
  <2>5. sum[x] = sum[x - 1] + Len(l[x])
    BY <1>2, <2>3
  <2>6. QED
    BY <2>3, <2>4, <2>5
<1>5. QED
  BY <1>3, <1>4

(* The nodes a reader finds, byte by byte.                                 *)
NodesShape ==
    /\ Nodes \in Seq(Seq(Bytes)) /\ Len(Nodes) = Len(meta)
    /\ \A i \in 1 .. Len(meta) : /\ Nodes[i] = Node(meta[i].seq, meta[i].len)
                                 /\ Len(Nodes[i]) = meta[i].len

(* They are the nodes that were pushed.                                    *)
LEMMA NodesAre == PathInv => NodesShape
<1> SUFFICES ASSUME PathInv PROVE NodesShape
  OBVIOUS
<1>1. PathTypeOK /\ NodesIntact
  BY DEF PathInv
<1>2. ASSUME NEW i \in 1 .. Len(meta)
      PROVE  /\ ReadNode(meta[i]) = Node(meta[i].seq, meta[i].len)
             /\ ReadNode(meta[i]) \in Seq(Bytes) /\ Len(ReadNode(meta[i])) = meta[i].len
  <2>1. meta[i].len \in Nat /\ meta[i].seq \in Nat
    BY <1>1, MetaTypes
  <2>2. ReadNode(meta[i]) = [k \in 1 .. meta[i].len |-> <<meta[i].seq, k>>]
    BY <1>1 DEF ReadNode, NodesIntact
  <2>3. \A k \in 1 .. meta[i].len : <<meta[i].seq, k>> \in Bytes
    BY <2>1 DEF Bytes
  <2>4. QED
    BY <2>1, <2>2, <2>3 DEF Node
<1>3. Nodes = [i \in 1 .. Len(meta) |-> ReadNode(meta[i])] /\ Len(meta) \in Nat
  BY <1>1 DEF Nodes, PathTypeOK
<1>4. Nodes \in Seq(Seq(Bytes)) /\ Len(Nodes) = Len(meta)
  BY <1>2, <1>3
<1>5. QED
  BY <1>2, <1>3, <1>4 DEF NodesShape

(* path_used_bytes is the size of the nodes.                               *)
LEMMA SizeIsUsed ==
  ASSUME PathInv
  PROVE  Log!Size(Nodes) = used
<1>1. PathTypeOK /\ Layout
  BY DEF PathInv
<1>2. Len(meta) \in Nat /\ used \in Nat /\ \A i \in 1 .. Len(meta) : meta[i].offset \in Nat /\ meta[i].len \in Nat
  BY <1>1, MetaTypes DEF PathTypeOK
<1>3. /\ Nodes \in Seq(Seq(Bytes)) /\ Len(Nodes) = Len(meta)
      /\ \A i \in 1 .. Len(meta) : Len(Nodes[i]) = meta[i].len
  BY NodesAre DEF NodesShape
<1> DEFINE n == Len(meta)
           g == [i \in 0 .. n |-> IF i = 0 THEN 0 ELSE meta[i].offset + meta[i].len]
<1>4. g \in [0 .. n -> Nat] /\ g[0] = 0
  BY <1>2
<1>5. ASSUME NEW i \in 1 .. n PROVE g[i] = g[i - 1] + Len(Nodes[i])
  <2>1. g[i] = meta[i].offset + meta[i].len
    BY <1>2
  <2>2. CASE i = 1
    <3>1. meta[1].offset = 0 /\ g[i - 1] = 0
      BY <1>1, <1>2, <2>2 DEF Layout
    <3>2. QED
      BY <1>2, <1>3, <2>1, <2>2, <3>1
  <2>3. CASE i # 1
    <3>1. i - 1 \in 1 .. n /\ i - 1 < n /\ (i - 1) + 1 = i /\ i - 1 # 0 /\ i - 1 \in 0 .. n
      BY <1>2, <2>3
    <3>2. meta[(i - 1) + 1].offset = meta[i - 1].offset + meta[i - 1].len
      BY <1>1, <3>1 DEF Layout
    <3>3. g[i - 1] = meta[i - 1].offset + meta[i - 1].len
      BY <3>1
    <3>4. QED
      BY <1>3, <2>1, <3>1, <3>2, <3>3
  <2>4. QED
    BY <2>2, <2>3
<1>6. g[n] = used
  <2>1. CASE n = 0
    <3>1. meta = <<>>
      BY <1>1, <2>1 DEF PathTypeOK
    <3>2. QED
      BY <1>1, <1>4, <2>1, <3>1 DEF Layout
  <2>2. CASE n # 0
    BY <1>1, <1>2, <2>2 DEF Layout
  <2>3. QED
    BY <2>1, <2>2
<1> HIDE DEF g
<1>7. QED
  BY <1>3, <1>4, <1>5, <1>6, SizeIs

(* Two sequences with the same entries are the same.                       *)
LEMMA SameEntries ==
  ASSUME NEW S, NEW s \in Seq(S), NEW t \in Seq(S), Len(s) = Len(t),
         \A i \in 1 .. Len(s) : s[i] = t[i]
  PROVE  s = t
OBVIOUS

(* A list without its k oldest nodes, entry by entry.                      *)
LEMMA WithoutIs ==
  ASSUME NEW S, NEW l \in Seq(S), NEW k \in 0 .. Len(l)
  PROVE  /\ Log!Without(l, k) \in Seq(S) /\ Len(Log!Without(l, k)) = Len(l) - k
         /\ \A i \in 1 .. Len(l) - k : Log!Without(l, k)[i] = l[k + i]
BY DEF Log!Without

(* What push_node remembers while it evicts: the nodes left are those it   *)
(* found without the oldest, and with one more of them there was no room.  *)
PushRemembers ==
    push # NoPush =>
        /\ before \in Seq(Seq(Bytes)) /\ Len(meta) =< Len(before)
        /\ Nodes = Log!Without(before, Len(before) - Len(meta))
        /\ \A j \in 0 .. Len(before) - Len(meta) - 1 :
                ~Log!Room(Log!Without(before, j), push)

(* A round of the loop drops the oldest node, and had to.                  *)
LEMMA EvictRemembers ==
  ASSUME PathInv, PushRemembers, EvictOne
  PROVE  PushRemembers'
<1>1. /\ push # NoPush /\ push' = push /\ before' = before
      /\ used + push > MaxBytes \/ Len(meta) >= MaxNodes
  BY DEF EvictOne, MustEvict
<1> DEFINE k == Len(before) - Len(meta)
<1>2. /\ before \in Seq(Seq(Bytes)) /\ Len(meta) =< Len(before)
      /\ Nodes = Log!Without(before, k)
      /\ \A j \in 0 .. k - 1 : ~Log!Room(Log!Without(before, j), push)
  BY <1>1 DEF PushRemembers
<1>3. /\ Len(meta) >= 1 /\ Len(meta') = Len(meta) - 1
      /\ \A j \in 1 .. Len(meta) - 1 : meta'[j].len = meta[j + 1].len /\ meta'[j].seq = meta[j + 1].seq
  BY EvictEffect
<1>4. /\ Nodes \in Seq(Seq(Bytes)) /\ Len(Nodes) = Len(meta)
      /\ \A i \in 1 .. Len(meta) : Nodes[i] = Node(meta[i].seq, meta[i].len)
  BY NodesAre DEF NodesShape
<1>5. PathInv'
  BY EvictKeeps
<1>6. NodesShape'
  BY <1>5, NodesAre, PTL
<1>7. /\ Nodes' \in Seq(Seq(Bytes)) /\ Len(Nodes') = Len(meta) - 1
      /\ \A i \in 1 .. Len(meta) - 1 : Nodes'[i] = Node(meta'[i].seq, meta'[i].len)
  BY <1>3, <1>6 DEF NodesShape
<1>8. Len(meta) \in Nat /\ Len(before) \in Nat /\ k \in 0 .. Len(before) /\ k + 1 \in 0 .. Len(before)
      /\ Len(before) - Len(meta') = k + 1 /\ Len(before) - (k + 1) = Len(meta) - 1
  BY <1>2, <1>3 DEF PathInv, PathTypeOK
<1>9. Nodes' = Log!Without(before, k + 1)
  <2>1. /\ Log!Without(before, k + 1) \in Seq(Seq(Bytes))
        /\ Len(Log!Without(before, k + 1)) = Len(meta) - 1
        /\ \A i \in 1 .. Len(meta) - 1 : Log!Without(before, k + 1)[i] = before[(k + 1) + i]
    <3> DEFINE m == k + 1
    <3>1. m \in 0 .. Len(before) /\ Len(before) - m = Len(meta) - 1
      BY <1>8
    <3> HIDE DEF m
    <3>2. /\ Log!Without(before, m) \in Seq(Seq(Bytes))
          /\ Len(Log!Without(before, m)) = Len(before) - m
          /\ \A i \in 1 .. Len(before) - m : Log!Without(before, m)[i] = before[m + i]
      BY <1>2, <3>1, WithoutIs
    <3>3. QED
      BY <3>1, <3>2 DEF m
  <2>2. ASSUME NEW i \in 1 .. Len(meta) - 1 PROVE Nodes'[i] = before[(k + 1) + i]
    <3>1. i + 1 \in 1 .. Len(meta) /\ i + 1 \in 1 .. Len(before) - k /\ k + (i + 1) = (k + 1) + i
      BY <1>8
    <3>2. Nodes'[i] = Nodes[i + 1]
      BY <1>3, <1>4, <1>7, <3>1
    <3>3. Nodes[i + 1] = before[k + (i + 1)]
      BY <1>2, <1>8, <3>1, WithoutIs
    <3>4. QED
      BY <3>1, <3>2, <3>3
  <2> HIDE DEF k
  <2>3. QED
    BY <1>7, <2>1, <2>2, SameEntries
<1>10. ~Log!Room(Log!Without(before, k), push)
  <2>1. Log!Size(Nodes) = used /\ Len(Nodes) = Len(meta)
    BY <1>4, SizeIsUsed
  <2>2. used \in Nat /\ push \in Nat /\ MaxBytes \in Nat /\ MaxNodes \in Nat
    BY QuotaAssumption DEF PathInv, PathTypeOK
  <2>3. QED
    BY <1>1, <1>2, <1>8, <2>1, <2>2 DEF Log!Room
<1>11. \A j \in 0 .. k : ~Log!Room(Log!Without(before, j), push)
  <2> SUFFICES ASSUME NEW j \in 0 .. k PROVE ~Log!Room(Log!Without(before, j), push)
    OBVIOUS
  <2>1. j = k \/ j \in 0 .. k - 1
    BY <1>8
  <2>2. QED
    BY <1>2, <1>10, <2>1
<1>12. /\ before' \in Seq(Seq(Bytes)) /\ Len(meta') =< Len(before')
       /\ Nodes' = Log!Without(before', Len(before') - Len(meta'))
       /\ Len(before') - Len(meta') - 1 = k
  BY <1>1, <1>2, <1>3, <1>8, <1>9
<1>13. \A j \in 0 .. Len(before') - Len(meta') - 1 : ~Log!Room(Log!Without(before', j), push')
  BY <1>1, <1>11, <1>12
<1>14. QED
  BY <1>12, <1>13 DEF PushRemembers

(* push_node remembers the nodes it finds; outside of it there is nothing  *)
(* to remember.                                                            *)
LEMMA RememberStep == PathInv /\ PushRemembers /\ [PathNext]_pathVars => PushRemembers'
<1> SUFFICES ASSUME PathInv, PushRemembers, [PathNext]_pathVars PROVE PushRemembers'
  OBVIOUS
<1>1. CASE UNCHANGED pathVars
  <2>1. Nodes' = Nodes
    BY <1>1 DEF pathVars, Nodes, ReadNode
  <2>2. push' = push /\ before' = before /\ meta' = meta
    BY <1>1 DEF pathVars
  <2>3. QED
    BY <2>1, <2>2 DEF PushRemembers
<1>2. CASE \E n \in Payloads : PushBegin(n)
  <2>1. before' = Nodes /\ meta' = meta /\ buffer' = buffer
    BY <1>2 DEF PushBegin
  <2>2. Nodes' = Nodes
    BY <2>1 DEF Nodes, ReadNode
  <2>3. Nodes \in Seq(Seq(Bytes)) /\ Len(Nodes) = Len(meta) /\ Len(meta) \in Nat
    BY NodesAre DEF NodesShape, PathInv, PathTypeOK
  <2>4. 0 \in 0 .. Len(Nodes) /\ Len(Nodes) - 0 = Len(Nodes)
        /\ \A i \in 1 .. Len(Nodes) : 0 + i = i
    BY <2>3
  <2> HIDE DEF Nodes
  <2>5. /\ Log!Without(Nodes, 0) \in Seq(Seq(Bytes))
        /\ Len(Log!Without(Nodes, 0)) = Len(Nodes) - 0
        /\ \A i \in 1 .. Len(Nodes) - 0 : Log!Without(Nodes, 0)[i] = Nodes[0 + i]
    BY <2>3, <2>4, WithoutIs
  <2>6. Log!Without(Nodes, 0) = Nodes
    BY <2>3, <2>4, <2>5, SameEntries
  <2>7. /\ before' \in Seq(Seq(Bytes)) /\ Len(meta') =< Len(before')
        /\ Len(before') - Len(meta') = 0
    BY <2>1, <2>3
  <2>8. Nodes' = Log!Without(before', 0)
    BY <2>1, <2>2, <2>6
  <2>9. \A j \in 0 .. Len(before') - Len(meta') - 1 : FALSE
    BY <2>7
  <2>10. QED
    BY <2>7, <2>8, <2>9 DEF PushRemembers
<1>3. CASE EvictOne
  BY <1>3, EvictRemembers
<1>4. CASE \/ \E tick \in 0 .. 1 : PushEnd(tick)
           \/ \E n \in 0 .. MaxNodes : Rollback(n)
           \/ Clear
  <2>1. push' = NoPush
    BY <1>4 DEF PushEnd, Rollback, Clear
  <2>2. QED
    BY <2>1 DEF PushRemembers
<1>5. QED
  BY <1>1, <1>2, <1>3, <1>4 DEF PathNext

(* The end of push_node appends the node to what is left.                  *)
LEMMA PushAppends ==
  ASSUME PathInv, PathInv', PushRemembers, NEW tick \in 0 .. 1, PushEnd(tick)
  PROVE  Log!LogNext
<1>1. /\ push # NoPush /\ push' = NoPush /\ nextSeq' = nextSeq + 1
      /\ ~(used + push > MaxBytes \/ Len(meta) >= MaxNodes)
      /\ meta' = Append(meta, [offset |-> used, len |-> push,
                               time |-> clock + tick, seq |-> nextSeq])
  BY DEF PushEnd, MustEvict
<1>2. /\ PathTypeOK /\ used \in Nat /\ push \in Nat \ {0} /\ nextSeq \in Nat /\ clock \in Nat
      /\ meta \in Seq(NodeMeta) /\ Len(meta) \in Nat
      /\ MaxBytes \in Nat /\ MaxNodes \in Nat /\ push =< MaxBytes
  <2>1. PathTypeOK /\ push =< MaxBytes
    BY <1>1 DEF PathInv, WithinQuota
  <2>2. QED
    BY <1>1, <2>1, QuotaAssumption DEF PathTypeOK, NoPush
<1> DEFINE k == Len(before) - Len(meta)
           node == [j \in 1 .. push |-> <<nextSeq, j>>]
<1>3. /\ before \in Seq(Seq(Bytes)) /\ Len(meta) =< Len(before)
      /\ Nodes = Log!Without(before, k)
      /\ \A j \in 0 .. k - 1 : ~Log!Room(Log!Without(before, j), push)
  BY <1>1 DEF PushRemembers
<1>4. k \in 0 .. Len(before)
  BY <1>2, <1>3
<1>5. /\ Nodes \in Seq(Seq(Bytes)) /\ Len(Nodes) = Len(meta)
      /\ \A i \in 1 .. Len(meta) : Nodes[i] = Node(meta[i].seq, meta[i].len)
  BY NodesAre DEF NodesShape
<1>6. NodesShape'
  BY NodesAre, PTL
<1>7. /\ Len(meta') = Len(meta) + 1
      /\ \A i \in 1 .. Len(meta) : meta'[i] = meta[i]
      /\ meta'[Len(meta) + 1].seq = nextSeq /\ meta'[Len(meta) + 1].len = push
  BY <1>1, <1>2
<1>8. node \in Seq(Bytes) /\ Len(node) = push
  <2>1. \A j \in 1 .. push : <<nextSeq, j>> \in Bytes
    BY <1>2 DEF Bytes
  <2>2. QED
    BY <1>2, <2>1
<1>9. /\ Nodes' \in Seq(Seq(Bytes)) /\ Len(Nodes') = Len(meta) + 1
      /\ \A i \in 1 .. Len(meta) : Nodes'[i] = Nodes[i]
      /\ Nodes'[Len(meta) + 1] = node
  <2>1. /\ Nodes' \in Seq(Seq(Bytes)) /\ Len(Nodes') = Len(meta) + 1
        /\ \A i \in 1 .. Len(meta) + 1 : Nodes'[i] = Node(meta'[i].seq, meta'[i].len)
    BY <1>6, <1>7 DEF NodesShape
  <2>2. Len(meta) + 1 \in 1 .. Len(meta) + 1 /\ 1 .. Len(meta) \subseteq 1 .. Len(meta) + 1
    BY <1>2
  <2>3. Nodes'[Len(meta) + 1] = node
    BY <1>7, <2>1, <2>2 DEF Node
  <2>4. ASSUME NEW i \in 1 .. Len(meta) PROVE Nodes'[i] = Nodes[i]
    <3>1. Nodes'[i] = Node(meta'[i].seq, meta'[i].len) /\ meta'[i] = meta[i]
      BY <1>7, <2>1, <2>2
    <3>2. QED
      BY <1>5, <3>1
  <2>5. QED
    BY <2>1, <2>3, <2>4
<1> HIDE DEF node
<1>10. Nodes' = Append(Nodes, node)
  <2> DEFINE a == Append(Nodes, node)
  <2>1. /\ a \in Seq(Seq(Bytes)) /\ Len(a) = Len(meta) + 1
        /\ \A i \in 1 .. Len(meta) : a[i] = Nodes[i]
        /\ a[Len(meta) + 1] = node
    BY <1>2, <1>5, <1>8
  <2> HIDE DEF a
  <2>2. \A i \in 1 .. Len(meta) + 1 : Nodes'[i] = a[i]
    <3> SUFFICES ASSUME NEW i \in 1 .. Len(meta) + 1 PROVE Nodes'[i] = a[i]
      OBVIOUS
    <3>1. i \in 1 .. Len(meta) \/ i = Len(meta) + 1
      BY <1>2
    <3>2. QED
      BY <1>9, <2>1, <3>1
  <2>3. QED
    BY <1>9, <2>1, <2>2, SameEntries DEF a
<1>11. Log!Room(Nodes, push)
  <2>1. Log!Size(Nodes) = used
    BY SizeIsUsed
  <2>2. QED
    BY <1>1, <1>2, <1>5, <2>1 DEF Log!Room
<1>12. Log!LogPush(node)
  <2>1. Nodes' = Append(Log!Without(before, k), node) /\ Log!Room(Log!Without(before, k), Len(node))
    BY <1>3, <1>8, <1>10, <1>11
  <2>2. \A j \in 0 .. k - 1 : ~Log!Room(Log!Without(before, j), Len(node))
    BY <1>3, <1>8
  <2> HIDE DEF k
  <2>3. \E m \in 0 .. Len(before) :
            /\ Log!Room(Log!Without(before, m), Len(node))
            /\ \A j \in 0 .. m - 1 : ~Log!Room(Log!Without(before, j), Len(node))
            /\ Nodes' = Append(Log!Without(before, m), node)
    BY <1>4, <2>1, <2>2
  <2>4. Len(node) =< MaxBytes
    BY <1>2, <1>8
  <2>5. QED
    BY <1>1, <2>3, <2>4 DEF Log!LogPush
<1>13. push \in 1 .. MaxBytes
  BY <1>2
<1>14. QED
  BY <1>12, <1>13 DEF Log!LogNext, node

(* rollback and clear keep a prefix of the nodes.                          *)
LEMMA CutIsRollback ==
  ASSUME PathInv, PathInv', NEW n \in 0 .. MaxNodes, n =< Len(meta), push = NoPush,
         meta' = SubSeq(meta, 1, n), UNCHANGED <<nextSeq, buffer, push>>
  PROVE  Log!LogRollback(n)
<1>1. meta \in Seq(NodeMeta) /\ Len(meta) \in Nat /\ n \in Nat
  BY DEF PathInv, PathTypeOK
<1>2. Len(meta') = n /\ \A i \in 1 .. n : meta'[i] = meta[i]
  BY <1>1
<1>3. /\ Nodes \in Seq(Seq(Bytes)) /\ Len(Nodes) = Len(meta)
      /\ \A i \in 1 .. Len(meta) : Nodes[i] = Node(meta[i].seq, meta[i].len)
  BY NodesAre DEF NodesShape
<1>4. NodesShape'
  BY NodesAre, PTL
<1>5. /\ Nodes' \in Seq(Seq(Bytes)) /\ Len(Nodes') = n
      /\ \A i \in 1 .. n : Nodes'[i] = Node(meta'[i].seq, meta'[i].len)
  BY <1>2, <1>4 DEF NodesShape
<1> DEFINE c == SubSeq(Nodes, 1, n)
<1>6. c \in Seq(Seq(Bytes)) /\ Len(c) = n /\ \A i \in 1 .. n : c[i] = Nodes[i]
  BY <1>1, <1>3
<1> HIDE DEF c
<1>7. ASSUME NEW i \in 1 .. n PROVE Nodes'[i] = c[i]
  <2>1. i \in 1 .. Len(meta)
    BY <1>1
  <2>2. Nodes'[i] = Node(meta[i].seq, meta[i].len)
    BY <1>2, <1>5
  <2>3. QED
    BY <1>3, <1>6, <2>1, <2>2
<1>8. Nodes' = c
  BY <1>5, <1>6, <1>7, SameEntries
<1>9. QED
  BY <1>3, <1>8 DEF Log!LogRollback, c

(* Every step of the path is a step of the log, or changes nothing a       *)
(* reader sees.                                                            *)
LEMMA LogStep ==
  PathInv /\ PathInv' /\ PushRemembers /\ [PathNext]_pathVars => [Log!LogNext]_(Log!logVars)
<1> SUFFICES ASSUME PathInv, PathInv', PushRemembers, [PathNext]_pathVars
             PROVE  [Log!LogNext]_(Log!logVars)
  OBVIOUS
<1>0. Len(meta) \in Nat /\ MaxNodes \in Nat /\ HeaderSize \in Nat \ {0} /\ meta \in Seq(NodeMeta)
  BY QuotaAssumption DEF PathInv, PathTypeOK
<1>1. CASE UNCHANGED pathVars
  <2>1. Nodes' = Nodes
    BY <1>1 DEF pathVars, Nodes, ReadNode
  <2>2. QED
    BY <1>1, <2>1 DEF pathVars, Log!logVars
<1>2. CASE \E n \in Payloads : PushBegin(n)
  <2>1. PICK n \in Payloads : PushBegin(n)
    BY <1>2
  <2>2. push = NoPush /\ push' = HeaderSize + n /\ before' = Nodes /\ nextSeq' = nextSeq /\ n \in Nat
    BY <2>1, PushAssumption DEF PushBegin
  <2>3. push' # NoPush
    BY <1>0, <2>2 DEF NoPush
  <2>4. QED
    BY <2>2, <2>3 DEF Log!logVars
<1>3. CASE EvictOne
  BY <1>3 DEF EvictOne, Log!logVars
<1>4. CASE \E tick \in 0 .. 1 : PushEnd(tick)
  BY <1>4, PushAppends
<1>5. CASE \E n \in 0 .. MaxNodes : Rollback(n)
  <2>1. PICK n \in 0 .. MaxNodes : Rollback(n)
    BY <1>5
  <2>2. Log!LogRollback(n)
    BY <2>1, CutIsRollback DEF Rollback
  <2>3. QED
    BY <2>2 DEF Log!LogNext
<1>6. CASE Clear
  <2>1. SubSeq(meta, 1, 0) = <<>> /\ 0 \in 0 .. MaxNodes /\ 0 =< Len(meta)
    BY <1>0
  <2>2. Log!LogRollback(0)
    BY <1>6, <2>1, CutIsRollback DEF Clear
  <2>3. QED
    BY <2>1, <2>2 DEF Log!LogNext
<1>7. QED
  BY <1>1, <1>2, <1>3, <1>4, <1>5, <1>6 DEF PathNext

(* The calls on the path implement the log of ContextLog: push_node drops  *)
(* the fewest oldest nodes that make room, every other node keeps its      *)
(* bytes, rollback and clear keep a prefix.                                *)
THEOREM PathImplementsLog == PathSpec => ImplementsLog
<1>1. PathInit => Log!LogInit /\ PushRemembers
  <2> SUFFICES ASSUME PathInit PROVE Log!LogInit /\ PushRemembers
    OBVIOUS
  <2>1. meta = <<>> /\ push = NoPush /\ nextSeq = 0
    BY DEF PathInit
  <2>2. Nodes = <<>>
    BY <2>1 DEF Nodes
  <2>3. QED
    BY <2>1, <2>2 DEF Log!LogInit, PushRemembers
<1>2. PathSpec => []PushRemembers
  BY <1>1, PathInvariant, RememberStep, PTL DEF PathSpec
<1>3. PathSpec => [][Log!LogNext]_(Log!logVars)
  BY <1>2, PathInvariant, LogStep, PTL DEF PathSpec
<1>4. QED
  BY <1>1, <1>3, PTL DEF PathSpec, ImplementsLog, Log!LogSpec

-------------------------------------------------------------------------------
(* How far the chunks reach: before round c some bytes are left, and after *)
(* the last round none.                                                    *)
LEMMA ChunkCount ==
  ASSUME NEW len \in Nat, NEW n, n = (len + Chunk - 1) \div Chunk
  PROVE  /\ n \in Nat /\ len =< n * Chunk
         /\ \A c \in 1 .. n : /\ (c - 1) * Chunk \in Nat /\ (c - 1) * Chunk < len
                              /\ c * Chunk = (c - 1) * Chunk + Chunk
<1>1. Chunk \in Nat /\ Chunk > 0
  BY QuotaAssumption
<1>2. n \in Nat /\ n * Chunk =< len + Chunk - 1 /\ len + Chunk - 1 < n * Chunk + Chunk
  BY <1>1, Z3
<1>3. n * Chunk \in Nat
  BY <1>1, <1>2
<1>4. len =< n * Chunk
  BY <1>1, <1>2, <1>3
<1>5. ASSUME NEW c \in 1 .. n
      PROVE  /\ (c - 1) * Chunk \in Nat /\ (c - 1) * Chunk < len
             /\ c * Chunk = (c - 1) * Chunk + Chunk
  <2>1. c \in Nat /\ c - 1 \in Nat /\ n - c \in Nat
    BY <1>2
  <2>2. c * Chunk = (c - 1) * Chunk + Chunk /\ (c - 1) * Chunk \in Nat
    BY <1>1, <2>1
  <2>3. n * Chunk = c * Chunk + (n - c) * Chunk /\ (n - c) * Chunk \in Nat /\ c * Chunk \in Nat
    BY <1>1, <1>2, <2>1
  <2>4. QED
    BY <1>1, <1>2, <2>2, <2>3
<1>6. QED
  BY <1>2, <1>4, <1>5

(* Where the bytes of a round come from and go to.                         *)
LEMMA RoundPlaces ==
  ASSUME NEW N \in Nat, NEW from \in Nat, NEW shift \in Nat \ {0}, shift =< from,
         NEW d \in Nat, NEW m \in Nat, from + d + m =< N,
         NEW i \in (from + d) - shift .. (from + d) - shift + m - 1
  PROVE  /\ i + shift \in 0 .. N - 1
         /\ ~(i + shift \in from - shift .. from - shift + d - 1)
         /\ i \in from - shift .. from - shift + (d + m) - 1
OBVIOUS

(* One round on a buffer of which the first d bytes have moved already     *)
(* moves m more: what it reads was not overwritten yet.                    *)
LEMMA RoundMoves ==
  ASSUME NEW N \in Nat, NEW b, DOMAIN b = 0 .. N - 1,
         NEW from \in Nat, NEW shift \in Nat \ {0}, shift =< from,
         NEW d \in Nat, NEW m \in Nat, from + d + m =< N,
         NEW g, g = ShiftLeft(b, from, d, shift)
  PROVE  \A i \in 0 .. N - 1 : ShiftLeft(b, from, d + m, shift)[i]
           = IF i \in (from + d) - shift .. (from + d) - shift + m - 1
             THEN g[i + shift] ELSE g[i]
<1>1. \A i \in 0 .. N - 1 : g[i] = IF i \in from - shift .. from - shift + d - 1
                                   THEN b[i + shift] ELSE b[i]
  BY DEF ShiftLeft
<1>2. ASSUME NEW i \in 0 .. N - 1
      PROVE  (IF i \in from - shift .. from - shift + (d + m) - 1 THEN b[i + shift] ELSE b[i])
               = IF i \in (from + d) - shift .. (from + d) - shift + m - 1
                 THEN g[i + shift] ELSE g[i]
  <2>1. CASE i \in (from + d) - shift .. (from + d) - shift + m - 1
    <3>1. /\ i + shift \in 0 .. N - 1 /\ ~(i + shift \in from - shift .. from - shift + d - 1)
          /\ i \in from - shift .. from - shift + (d + m) - 1
      BY <2>1, RoundPlaces
    <3>2. g[i + shift] = b[i + shift]
      BY <1>1, <3>1
    <3>3. QED
      BY <2>1, <3>1, <3>2
  <2>2. CASE i \in from - shift .. from - shift + d - 1
    <3>1. /\ ~(i \in (from + d) - shift .. (from + d) - shift + m - 1)
          /\ i \in from - shift .. from - shift + (d + m) - 1
      BY <2>2
    <3>2. g[i] = b[i + shift]
      BY <1>1, <2>2
    <3>3. QED
      BY <3>1, <3>2
  <2>3. CASE /\ ~(i \in (from + d) - shift .. (from + d) - shift + m - 1)
             /\ ~(i \in from - shift .. from - shift + d - 1)
    <3>1. ~(i \in from - shift .. from - shift + (d + m) - 1)
      BY <2>3
    <3>2. g[i] = b[i]
      BY <1>1, <2>3
    <3>3. QED
      BY <2>3, <3>1, <3>2
  <2>4. QED
    BY <2>1, <2>2, <2>3
<1>3. QED
  BY <1>2 DEF ShiftLeft

(* The loop over the chunks is one move.                                   *)
LEMMA ChunkedMove ==
  ASSUME NEW N \in Nat, NEW b, b = [i \in 0 .. N - 1 |-> b[i]],
         NEW from \in Nat, NEW shift \in Nat \ {0}, shift =< from,
         NEW len \in Nat, from + len =< N
  PROVE  ShiftChunks(b, from, len, shift) = ShiftLeft(b, from, len, shift)
<1> DEFINE n == (len + Chunk - 1) \div Chunk
           src(c) == from + (c - 1) * Chunk
           m(c) == IF len - (c - 1) * Chunk < Chunk THEN len - (c - 1) * Chunk ELSE Chunk
           Round(g, c) == [i \in DOMAIN b |-> IF i \in src(c) - shift .. src(c) - shift + m(c) - 1
                                              THEN g[i + shift] ELSE g[i]]
           copy == CHOOSE f : f = [c \in 0 .. n |-> IF c = 0 THEN b ELSE Round(f[c - 1], c)]
           done(c) == IF c * Chunk < len THEN c * Chunk ELSE len
           G == [c \in 0 .. n |-> ShiftLeft(b, from, done(c), shift)]
<1>1. ShiftChunks(b, from, len, shift) = copy[n]
  BY DEF ShiftChunks
<1>2. /\ n \in Nat /\ len =< n * Chunk
      /\ \A c \in 1 .. n : /\ (c - 1) * Chunk \in Nat /\ (c - 1) * Chunk < len
                           /\ c * Chunk = (c - 1) * Chunk + Chunk
  BY ChunkCount
<1>3. Chunk \in Nat \ {0} /\ Chunk \in Nat
  BY QuotaAssumption
<1> HIDE DEF n, copy
<1>4. ASSUME NEW c \in 1 .. n PROVE G[c] = Round(G[c - 1], c)
  <2> DEFINE d == (c - 1) * Chunk
             k == m(c)
  <2>1. d \in Nat /\ d < len /\ c * Chunk = d + Chunk /\ c \in 0 .. n /\ c - 1 \in 0 .. n
    BY <1>2
  <2>2. k \in Nat /\ done(c) = d + k /\ done(c - 1) = d /\ from + d + k =< N
    <3> HIDE DEF d
    <3>1. k = IF len - d < Chunk THEN len - d ELSE Chunk
      BY DEF d
    <3> HIDE DEF k
    <3>2. k \in Nat /\ d + k =< len /\ (IF d + Chunk < len THEN d + Chunk ELSE len) = d + k
      <4>1. CASE len - d < Chunk
        BY <1>3, <2>1, <3>1, <4>1
      <4>2. CASE ~(len - d < Chunk)
        <5>1. k = Chunk /\ d + Chunk =< len
          BY <1>3, <2>1, <3>1, <4>2
        <5>2. QED
          BY <1>3, <2>1, <5>1
      <4>3. QED
        BY <4>1, <4>2
    <3>3. done(c) = d + k
      BY <2>1, <3>2
    <3>4. done(c - 1) = d
      BY <2>1 DEF d
    <3>5. QED
      BY <2>1, <3>2, <3>3, <3>4
  <2>3. G[c] = ShiftLeft(b, from, d + k, shift) /\ G[c - 1] = ShiftLeft(b, from, d, shift)
    BY <2>1, <2>2
  <2>4. Round(G[c - 1], c)
          = [i \in DOMAIN b |-> IF i \in (from + d) - shift .. (from + d) - shift + k - 1
                                THEN G[c - 1][i + shift] ELSE G[c - 1][i]]
    OBVIOUS
  <2> HIDE DEF d, k, G, Round
  <2>5. \A i \in 0 .. N - 1 : ShiftLeft(b, from, d + k, shift)[i]
          = IF i \in (from + d) - shift .. (from + d) - shift + k - 1
            THEN G[c - 1][i + shift] ELSE G[c - 1][i]
    <3>1. d \in Nat /\ k \in Nat /\ from + d + k =< N
      BY <2>1, <2>2
    <3> DEFINE g == G[c - 1]
    <3>2. g = ShiftLeft(b, from, d, shift)
      BY <2>3
    <3> HIDE DEF g
    <3>3. \A i \in 0 .. N - 1 : ShiftLeft(b, from, d + k, shift)[i]
            = IF i \in (from + d) - shift .. (from + d) - shift + k - 1 THEN g[i + shift] ELSE g[i]
      <4>1. DOMAIN b = 0 .. N - 1
        OBVIOUS
      <4>2. QED
        BY <3>1, <3>2, <4>1, RoundMoves, SMTT(30)
    <3>4. QED
      BY <3>3 DEF g
  <2>6. DOMAIN b = 0 .. N - 1
    OBVIOUS
  <2>7. /\ G[c] = [i \in 0 .. N - 1 |-> G[c][i]]
        /\ \A i \in 0 .. N - 1 : G[c][i] = IF i \in (from + d) - shift .. (from + d) - shift + k - 1
                                           THEN G[c - 1][i + shift] ELSE G[c - 1][i]
    BY <2>3, <2>5, <2>6 DEF ShiftLeft
  <2>8. QED
    BY <2>4, <2>6, <2>7
<1>5. G[0] = b
  <2>1. done(0) = 0 /\ 0 \in 0 .. n
    BY <1>2, <1>3
  <2>2. G[0] = ShiftLeft(b, from, 0, shift)
    BY <2>1
  <2>3. \A i \in 0 .. N - 1 : ~(i \in from - shift .. from - shift + 0 - 1)
    OBVIOUS
  <2>4. ShiftLeft(b, from, 0, shift) = [i \in 0 .. N - 1 |-> b[i]]
    BY <2>3 DEF ShiftLeft
  <2>5. QED
    BY <2>2, <2>4
<1>6. G[n] = ShiftLeft(b, from, len, shift)
  <2>1. n \in 0 .. n /\ n * Chunk \in Nat
    BY <1>2, <1>3
  <2>2. done(n) = len
    BY <1>2, <2>1
  <2>3. QED
    BY <2>1, <2>2
<1>7. DOMAIN G = 0 .. n /\ G = [c \in 0 .. n |-> G[c]]
  OBVIOUS
<1> HIDE DEF G, Round
<1>8. G = [c \in 0 .. n |-> IF c = 0 THEN b ELSE Round(G[c - 1], c)]
  <2>1. \A c \in 0 .. n : G[c] = IF c = 0 THEN b ELSE Round(G[c - 1], c)
    BY <1>2, <1>4, <1>5
  <2>2. QED
    BY <1>7, <2>1
<1>9. copy = [c \in 0 .. n |-> IF c = 0 THEN b ELSE Round(copy[c - 1], c)]
  BY <1>8 DEF copy
<1> DEFINE T == {c \in 0 .. n : copy[c] # G[c]}
<1>10. T = {}
  <2> SUFFICES ASSUME T # {} PROVE FALSE
    OBVIOUS
  <2>1. T \subseteq Nat
    BY <1>2
  <2>2. PICK x \in T : \A y \in T : x =< y
    BY <2>1, Least
  <2>3. x # 0
    BY <1>5, <1>9
  <2>4. x - 1 \in 0 .. n /\ x - 1 \notin T /\ x \in 1 .. n
    BY <1>2, <2>2, <2>3
  <2>5. copy[x] = Round(copy[x - 1], x)
    BY <1>9, <2>3
  <2>6. QED
    BY <1>4, <2>4, <2>5
<1>11. QED
  BY <1>1, <1>2, <1>6, <1>10

(* The chunked copy of shift_path_buffer_left moves the bytes as if they   *)
(* were read all at once, for every buffer, chunk size, place, length and  *)
(* distance.                                                               *)
THEOREM ChunksMoveEveryByte == PathSpec => []ChunksMoveAll
<1>1. PathInv => ChunksMoveAll
  <2> SUFFICES ASSUME PathInv, NEW from \in 1 .. PathBufferLen - 1, NEW shift \in 1 .. from,
                      NEW len \in 0 .. PathBufferLen - from
               PROVE  ShiftChunks(buffer, from, len, shift) = ShiftLeft(buffer, from, len, shift)
    BY DEF ChunksMoveAll
  <2>1. /\ PathBufferLen \in Nat /\ from \in Nat /\ shift \in Nat \ {0} /\ shift =< from
        /\ len \in Nat /\ from + len =< PathBufferLen
    BY QuotaAssumption
  <2>2. buffer = [i \in 0 .. PathBufferLen - 1 |-> buffer[i]]
    BY DEF PathInv, PathTypeOK
  <2>3. QED
    BY <2>1, <2>2, ChunkedMove
<1>2. QED
  BY <1>1, PathInvariant, PTL

-------------------------------------------------------------------------------
(* The area around the path. *)

(* The lengths an answer may have; only a successful one has bytes.        *)
LEMMA AnswerTypes ==
  ASSUME NEW dr \in DispatchResult
  PROVE  dr.len \in Nat /\ (dr.len > 0 => dr.status = "Ok")
<1> DEFINE Good(d) == d.len \in Nat /\ (d.len > 0 => d.status = "Ok")
<1>1. \A d \in Answered : Good(d)
  BY AreaAssumption DEF Answered
<1>2. ASSUME NEW s PROVE \A d \in Status(s) : Good(d)
  BY DEF Status
<1>3. PICK req \in ToolRequest : dr \in dispatch(req)
  BY DEF DispatchResult
<1> HIDE DEF Good
<1>4. \A d \in system_status(req) : Good(d)
  BY <1>1 DEF system_status
<1>5. \A d \in query_process(req) : Good(d)
  BY <1>1, <1>2 DEF query_process
<1>6. \A d \in read_context(req) : Good(d)
  BY <1>1, <1>2 DEF read_context
<1>7. \A d \in send_message(req) : Good(d)
  BY <1>1, <1>2 DEF send_message
<1>8. \A d \in query_file(req) : Good(d)
  BY <1>1, <1>2 DEF query_file
<1>9. req.tool \in ToolName
  BY DEF ToolRequest
<1>10. Good(dr)
  BY <1>3, <1>4, <1>5, <1>6, <1>7, <1>8, <1>9 DEF dispatch, ToolName
<1>11. QED
  BY <1>10 DEF Good

(* A body is a sequence of its length. *)
LEMMA BodyShape ==
  ASSUME NEW call \in Nat, NEW len \in Nat
  PROVE  /\ Body(call, len) \in Seq(Bytes) /\ Len(Body(call, len)) = len
         /\ \A k \in 1 .. len : Body(call, len)[k] = <<call, k>>
BY DEF Body, Node, Bytes

(* What fits into the Tool Result region does not reach the Path Buffer,   *)
(* and can be read back from the region's start.                           *)
LEMMA WriteStaysInside ==
  ASSUME PathTypeOK, NEW call \in Nat, NEW len \in Nat, len =< ResultLen,
         result \in [0 .. ResultLen - 1 -> Bytes],
         WriteResult(Body(call, len))
  PROVE  /\ buffer' = buffer
         /\ result' \in [0 .. ResultLen - 1 -> Bytes]
         /\ \A k \in 1 .. len : result'[k - 1] = <<call, k>>
<1> DEFINE b == Body(call, len)
<1>0. ResultLen \in Nat
  BY AreaAssumption
<1>1. /\ b \in Seq(Bytes) /\ Len(b) = len
      /\ \A k \in 1 .. len : b[k] = <<call, k>>
  BY BodyShape
<1>2. /\ buffer' = [i \in DOMAIN buffer |-> IF ResultLen + i < Len(b)
                                            THEN b[ResultLen + i + 1] ELSE buffer[i]]
      /\ result' = [i \in DOMAIN result |-> IF i < Len(b) THEN b[i + 1] ELSE result[i]]
  BY DEF WriteResult
<1> HIDE DEF b
<1>3. buffer \in [0 .. PathBufferLen - 1 -> Bytes]
  BY DEF PathTypeOK
<1>4. \A i \in 0 .. PathBufferLen - 1 : ~(ResultLen + i < Len(b))
  BY <1>0, <1>1
<1>5. buffer' = buffer
  BY <1>2, <1>3, <1>4
<1>6. \A i \in 0 .. ResultLen - 1 : i < Len(b) => b[i + 1] \in Bytes
  BY <1>0, <1>1
<1>7. result' \in [0 .. ResultLen - 1 -> Bytes]
  BY <1>2, <1>6
<1>8. \A k \in 1 .. len : result'[k - 1] = <<call, k>>
  BY <1>0, <1>1, <1>2
<1>9. QED
  BY <1>5, <1>7, <1>8

(* What a ToolCallOutcome may hold. *)
Outcomes == [call : Nat, ok : BOOLEAN, offset : {0}, len : 0 .. ResultLen]

(* The state behind what a program holds: an outcome no later call has     *)
(* overwritten locates its own bytes, and a list of meta-data is the front *)
(* of path_meta until nodes are evicted or rolled back.                    *)
AreaInv ==
    /\ result \in [0 .. ResultLen - 1 -> Bytes]
    /\ calls \in Nat
    /\ outcome \in Outcomes
    /\ lastWrite \in Nat /\ lastWrite < ThisCall
    /\ outcome.call < ThisCall
    /\ outcome.len > 0 => outcome.ok
    /\ lastWrite =< outcome.call =>
         \A k \in 1 .. outcome.len : result[k - 1] = <<outcome.call, k>>
    /\ ~moved => /\ metas \in Seq(NodeMeta)
                 /\ Len(metas) =< Len(meta)
                 /\ \A i \in 1 .. Len(metas) : metas[i] = meta[i]

(* The next call has a larger number. *)
LEMMA CallNumbers ==
  ASSUME calls \in Nat
  PROVE  /\ ThisCall \in Nat
         /\ calls' = calls + 1 => calls' \in Nat /\ ThisCall' = ThisCall + 1
         /\ calls' = calls => ThisCall' = ThisCall
BY PushAssumption DEF ThisCall

(* A tool call leaves the path alone and its outcome is in place.          *)
LEMMA ToolCallKeeps ==
  ASSUME PathInv, AreaInv, NEW frame \in Frame, NEW dr \in DispatchResult, ToolCall(frame, dr)
  PROVE  UNCHANGED pathVars /\ AreaInv'
<1>0. ResultLen \in Nat /\ PathTypeOK
  BY AreaAssumption DEF PathInv
<1>1. dr.len \in Nat /\ (dr.len > 0 => dr.status = "Ok")
  BY AnswerTypes
<1>2. calls \in Nat /\ calls' = calls + 1 /\ UNCHANGED <<pathRest, metas, moved>>
  BY DEF AreaInv, ToolCall, Calls
<1>3. ThisCall \in Nat /\ calls' \in Nat /\ ThisCall' = ThisCall + 1
  BY <1>2, CallNumbers
<1>4. UNCHANGED <<meta, used, nextSeq, header, clock, push, before>>
  BY <1>2 DEF pathRest
<1>5. /\ ~moved' => /\ metas' \in Seq(NodeMeta)
                    /\ Len(metas') =< Len(meta')
                    /\ \A i \in 1 .. Len(metas') : metas'[i] = meta'[i]
  BY <1>2, <1>4 DEF AreaInv
<1>6. CASE NoResult /\ UNCHANGED outcome
  <2>1. UNCHANGED pathVars
    BY <1>4, <1>6 DEF pathVars, NoResult
  <2>2. QED
    <3>1. UNCHANGED <<result, lastWrite, outcome>>
      BY <1>6 DEF NoResult
    <3>2. outcome.call \in Nat /\ lastWrite < ThisCall' /\ outcome.call < ThisCall'
      BY <1>3 DEF AreaInv, Outcomes
    <3>3. QED
      BY <1>3, <1>5, <2>1, <3>1, <3>2 DEF AreaInv
<1>7. CASE /\ dr.len =< ResultLen
           /\ outcome' = [call |-> ThisCall, ok |-> dr.status = "Ok", offset |-> 0, len |-> dr.len]
           /\ IF dr.len > 0 THEN WriteResult(Body(ThisCall, dr.len)) ELSE NoResult
  <2>1. /\ outcome' \in Outcomes /\ outcome'.call = ThisCall /\ outcome'.len = dr.len
        /\ outcome'.len > 0 => outcome'.ok
    <3>1. 0 \in {0} /\ dr.len \in 0 .. ResultLen
      BY <1>0, <1>1, <1>7
    <3>2. (dr.status = "Ok") \in BOOLEAN
      OBVIOUS
    <3>3. outcome' \in Outcomes
      BY <1>3, <1>7, <3>1, <3>2, Zenon DEF Outcomes
    <3>4. outcome'.call = ThisCall /\ outcome'.len = dr.len /\ outcome'.ok = (dr.status = "Ok")
      BY <1>7, Zenon
    <3>5. QED
      BY <1>1, <3>3, <3>4
  <2>2. CASE dr.len > 0
    <3>1. WriteResult(Body(ThisCall, dr.len))
      BY <1>7, <2>2
    <3>2. /\ buffer' = buffer
          /\ result' \in [0 .. ResultLen - 1 -> Bytes]
          /\ \A k \in 1 .. dr.len : result'[k - 1] = <<ThisCall, k>>
      BY <1>0, <1>1, <1>3, <1>7, <3>1, WriteStaysInside DEF AreaInv
    <3>3. lastWrite' = ThisCall
      BY <3>1 DEF WriteResult
    <3>4. UNCHANGED pathVars
      BY <1>4, <3>2 DEF pathVars
    <3>5. QED
      BY <1>3, <1>5, <2>1, <3>2, <3>3, <3>4 DEF AreaInv
  <2>3. CASE dr.len = 0
    <3>1. UNCHANGED <<result, buffer, lastWrite>>
      BY <1>7, <2>3 DEF NoResult
    <3>2. UNCHANGED pathVars
      BY <1>4, <3>1 DEF pathVars
    <3>3. 1 .. outcome'.len = {}
      BY <2>1, <2>3
    <3>4. lastWrite' \in Nat /\ lastWrite' < ThisCall' /\ outcome'.call < ThisCall'
      BY <1>3, <2>1, <3>1 DEF AreaInv
    <3>5. QED
      BY <1>3, <1>5, <2>1, <3>1, <3>2, <3>3, <3>4 DEF AreaInv
  <2>4. QED
    BY <1>1, <2>2, <2>3
<1>8. QED
  BY <1>0, <1>1, <1>6, <1>7 DEF ToolCall

(* A query leaves the path alone and its list is path_meta.                *)
LEMMA QueryKeeps ==
  ASSUME PathInv, AreaInv, ContextQueryMeta
  PROVE  UNCHANGED pathVars /\ AreaInv'
<1> DEFINE size == 1 + MetaSize * Len(meta)
<1>0. ResultLen \in Nat /\ PathTypeOK /\ meta \in Seq(NodeMeta) /\ size \in Nat
  BY AreaAssumption DEF PathInv, PathTypeOK
<1>2. calls \in Nat /\ calls' = calls + 1 /\ UNCHANGED <<pathRest, outcome>>
  BY DEF AreaInv, ContextQueryMeta, Calls
<1>3. ThisCall \in Nat /\ calls' \in Nat /\ ThisCall' = ThisCall + 1
  BY <1>2, CallNumbers
<1>4. UNCHANGED <<meta, used, nextSeq, header, clock, push, before>>
  BY <1>2 DEF pathRest
<1>5. CASE size =< ResultLen
  <2>1. WriteResult(Body(ThisCall, size)) /\ metas' = meta
    BY <1>5 DEF ContextQueryMeta
  <2> HIDE DEF size
  <2>2. buffer' = buffer /\ result' \in [0 .. ResultLen - 1 -> Bytes]
    BY <1>0, <1>3, <1>5, <2>1, WriteStaysInside DEF AreaInv
  <2>3. lastWrite' = ThisCall /\ outcome' = outcome /\ outcome.call < ThisCall
    BY <1>2, <2>1 DEF WriteResult, AreaInv
  <2>4. UNCHANGED pathVars
    BY <1>4, <2>2 DEF pathVars
  <2>5. outcome'.call \in Nat /\ ~(lastWrite' =< outcome'.call)
    BY <1>3, <2>3 DEF AreaInv, Outcomes
  <2>6. QED
    BY <1>0, <1>3, <1>4, <2>1, <2>2, <2>3, <2>4, <2>5 DEF AreaInv
<1>6. CASE ~(size =< ResultLen)
  <2>1. UNCHANGED <<result, buffer, lastWrite, metas, moved>>
    BY <1>6 DEF ContextQueryMeta, NoResult
  <2>2. UNCHANGED pathVars
    BY <1>4, <2>1 DEF pathVars
  <2>3. QED
    BY <1>2, <1>3, <1>4, <2>1, <2>2 DEF AreaInv, Outcomes
<1>7. QED
  BY <1>5, <1>6

(* A call on the path takes a step of the path and leaves the result       *)
(* region alone; a push only appends to path_meta.                         *)
LEMMA PathCallKeeps ==
  ASSUME PathInv, AreaInv, PathCall
  PROVE  PathNext /\ AreaInv'
<1>1. PathNext
  BY DEF PathCall, PathNext
<1>2. UNCHANGED <<result, calls, outcome, metas, lastWrite>>
  BY DEF PathCall
<1>3. ThisCall' = ThisCall
  BY <1>2, CallNumbers DEF AreaInv
<1>4. meta \in Seq(NodeMeta)
  BY DEF PathInv, PathTypeOK
<1>5. ~moved' => ~moved /\ Len(meta) =< Len(meta') /\ \A i \in 1 .. Len(meta) : meta'[i] = meta[i]
  <2> SUFFICES ASSUME ~moved'
               PROVE  ~moved /\ Len(meta) =< Len(meta')
                      /\ \A i \in 1 .. Len(meta) : meta'[i] = meta[i]
    OBVIOUS
  <2>1. ASSUME NEW n \in Payloads, PushBegin(n) PROVE meta' = meta
    BY <2>1 DEF PushBegin
  <2>2. ASSUME NEW tick \in 0 .. 1, PushEnd(tick)
        PROVE  Len(meta) =< Len(meta') /\ \A i \in 1 .. Len(meta) : meta'[i] = meta[i]
    BY <1>4, <2>2 DEF PushEnd
  <2>3. /\ moved' = moved
        /\ (\E n \in Payloads : PushBegin(n)) \/ (\E tick \in 0 .. 1 : PushEnd(tick))
    BY Zenon DEF PathCall
  <2>4. QED
    BY <1>4, <2>1, <2>2, <2>3
<1>6. ~moved' => /\ metas' \in Seq(NodeMeta)
                 /\ Len(metas') =< Len(meta')
                 /\ \A i \in 1 .. Len(metas') : metas'[i] = meta'[i]
  <2> SUFFICES ASSUME ~moved'
               PROVE  /\ metas \in Seq(NodeMeta)
                      /\ Len(metas) =< Len(meta')
                      /\ \A i \in 1 .. Len(metas) : metas[i] = meta'[i]
    BY <1>2
  <2>1. /\ metas \in Seq(NodeMeta) /\ Len(metas) =< Len(meta)
        /\ \A i \in 1 .. Len(metas) : metas[i] = meta[i]
    BY <1>5 DEF AreaInv
  <2>2. PathTypeOK'
    BY <1>1, PathStep DEF PathInv
  <2>3. Len(meta) \in Nat /\ Len(metas) \in Nat /\ Len(meta') \in Nat
    BY <1>4, <2>1, <2>2 DEF PathTypeOK
  <2>4. QED
    BY <1>5, <2>1, <2>3
<1>7. QED
  BY <1>1, <1>2, <1>3, <1>6 DEF AreaInv, Outcomes

(* Every step of the area is a step of the path or leaves it alone, and    *)
(* keeps what the program holds.                                           *)
LEMMA AreaStep ==
  ASSUME PathInv, AreaInv, [AreaNext]_<<pathVars, areaVars>>
  PROVE  [PathNext]_pathVars /\ AreaInv'
<1>1. CASE UNCHANGED <<pathVars, areaVars>>
  BY <1>1 DEF pathVars, areaVars, AreaInv, ThisCall
<1>2. CASE PathCall
  BY <1>2, PathCallKeeps
<1>3. CASE ContextQueryMeta
  BY <1>3, QueryKeeps
<1>4. CASE \E frame \in Frame, dr \in DispatchResult : ToolCall(frame, dr)
  BY <1>4, ToolCallKeeps
<1>5. QED
  BY <1>1, <1>2, <1>3, <1>4 DEF AreaNext

(* At first the program holds nothing. *)
LEMMA AreaStart == ASSUME AreaInit PROVE PathInit /\ AreaInv
<1>1. ResultLen \in Nat /\ MaxSeq \in Nat
  BY AreaAssumption, PushAssumption
<1>2. result \in [0 .. ResultLen - 1 -> Bytes]
  BY DEF AreaInit, Blank, Bytes
<1>3. outcome \in Outcomes /\ outcome.call = 0 /\ outcome.len = 0
  BY <1>1 DEF AreaInit, NoOutcome, Outcomes
<1>4. calls = 0 /\ lastWrite = 0 /\ metas = <<>> /\ Len(meta) = 0
  BY DEF AreaInit, PathInit
<1>5. metas \in Seq(NodeMeta) /\ Len(metas) = 0
  BY <1>4
<1>6. AreaInv
  BY <1>1, <1>2, <1>3, <1>4, <1>5 DEF AreaInv, ThisCall
<1>7. QED
  BY <1>6 DEF AreaInit

(* Both invariants hold in every state of the area. *)
LEMMA AreaInvariant == AreaSpec => [](PathInv /\ AreaInv)
<1>1. AreaInit => PathInv /\ AreaInv
  BY AreaStart, PathStart
<1>2. PathInv /\ AreaInv /\ [AreaNext]_<<pathVars, areaVars>> => (PathInv /\ AreaInv)'
  BY AreaStep, PathStep
<1>3. QED
  BY <1>1, <1>2, PTL DEF AreaSpec

(* Tool calls and queries that share the Context area with the path        *)
(* (sys_tool_call, sys_context_query) implement the path alone: to the     *)
(* Path Buffer and the kernel's record of it they change nothing, so that  *)
(* every theorem of the path holds for the whole area.                     *)
THEOREM AreaImplementsPath == AreaSpec => PathSpec
<1>1. PathInv /\ AreaInv /\ [AreaNext]_<<pathVars, areaVars>> => [PathNext]_pathVars
  BY AreaStep
<1>2. AreaInit => PathInit
  BY AreaStart
<1>3. QED
  BY <1>1, <1>2, AreaInvariant, PTL DEF AreaSpec, PathSpec

(* An outcome of tool_call reads back as the answer of its own call until  *)
(* a later answer is written, whatever calls fail or answer nothing in     *)
(* between.                                                                *)
THEOREM AnswersStayReadable == AreaSpec => []LastResultReadable
<1>1. AreaInv => LastResultReadable
  <2> SUFFICES ASSUME AreaInv PROVE LastResultReadable
    OBVIOUS
  <2>1. ResultBytes(outcome) = [k \in 1 .. outcome.len |-> result[k - 1]]
    BY AreaAssumption DEF AreaInv, Outcomes, ResultBytes
  <2>2. QED
    BY <2>1 DEF AreaInv, LastResultReadable, Body, Node
<1>2. QED
  BY <1>1, AreaInvariant, PTL

(* Meta-data a program got from context_query_meta can be used to read the *)
(* nodes in place until nodes are evicted or rolled back.                  *)
THEOREM HeldNodesStayReadable == AreaSpec => []HeldNodesReadable
<1>1. PathInv /\ AreaInv => HeldNodesReadable
  <2> SUFFICES ASSUME PathInv, AreaInv, ~moved, NEW i \in 1 .. Len(metas)
               PROVE  ReadHeld(metas[i]) = Node(metas[i].seq, metas[i].len)
    BY DEF HeldNodesReadable
  <2>1. metas[i] = meta[i] /\ i \in 1 .. Len(meta)
    BY DEF AreaInv, PathInv, PathTypeOK
  <2>2. \A k \in 1 .. meta[i].len : buffer[meta[i].offset + k - 1] = <<meta[i].seq, k>>
    BY <2>1 DEF PathInv, NodesIntact
  <2>3. QED
    BY <2>1, <2>2 DEF ReadHeld, Node
<1>2. QED
  BY <1>1, AreaInvariant, PTL
===============================================================================
