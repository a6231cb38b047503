--------------------------- MODULE BlockCacheProofs ---------------------------
(***************************************************************************)
(* The block cache is a plain store of blocks, for every device, cache     *)
(* size and depth of nesting.  CacheInv is inductive: OneCopy makes View   *)
(* well defined, HeldStays keeps evictions away from blocks in use, and    *)
(* CleanIsOnDisk is what makes dropping an unmarked entry safe.            *)
(***************************************************************************)
EXTENDS BlockCache, TLAPS, FiniteSetTheorems

(* The first m members of a list. *)
LEMMA FrontOf ==
  ASSUME NEW S, NEW s \in Seq(S), NEW m \in 0 .. Len(s)
  PROVE  /\ SubSeq(s, 1, m) \in Seq(S)
         /\ Len(SubSeq(s, 1, m)) = m
         /\ \A k \in 1 .. m : SubSeq(s, 1, m)[k] = s[k]
OBVIOUS

(* The queue without its i-th entry has the other entries, in order.       *)
LEMMA WithoutEntry ==
  ASSUME NEW q \in Seq(Entry), NEW i \in 1 .. Len(q)
  PROVE  /\ Without(q, i) \in Seq(Entry)
         /\ Len(Without(q, i)) = Len(q) - 1
         /\ \A j \in 1 .. Len(q) - 1 :
               Without(q, i)[j] = q[IF j < i THEN j ELSE j + 1]
         /\ \A k \in 1 .. Len(q) : k # i =>
               \E j \in 1 .. Len(q) - 1 : Without(q, i)[j] = q[k]
<1> DEFINE w == Without(q, i)
<1>1. Len(q) \in Nat /\ Len(q) - 1 \in Nat
  OBVIOUS
<1>2. w \in [1 .. Len(q) - 1 -> Entry]
  BY <1>1 DEF Without
<1>3. w \in Seq(Entry) /\ Len(w) = Len(q) - 1
  BY <1>1, <1>2
<1>4. \A j \in 1 .. Len(q) - 1 : w[j] = q[IF j < i THEN j ELSE j + 1]
  BY <1>1 DEF Without
<1>5. ASSUME NEW k \in 1 .. Len(q), k # i
      PROVE  \E j \in 1 .. Len(q) - 1 : w[j] = q[k]
  <2>1. CASE k < i
    BY <1>4, <2>1
  <2>2. CASE k > i
    <3>1. k - 1 \in 1 .. Len(q) - 1 /\ ~(k - 1 < i) /\ (k - 1) + 1 = k
      BY <2>2
    <3>2. w[k - 1] = q[k]
      BY <1>4, <3>1
    <3>3. QED
      BY <3>1, <3>2
  <2>3. QED
    BY <1>5, <2>1, <2>2
<1>6. QED
  BY <1>3, <1>4, <1>5

(* A cached block is seen as its entry, another one as it is on the device. *)
LEMMA ViewOf ==
  ASSUME OneCopy
  PROVE  /\ \A i \in Places : queue[i].id \in Blocks => View[queue[i].id] = queue[i].data
         /\ \A b \in Blocks : (\A i \in Places : queue[i].id # b) => View[b] = disk[b]
BY DEF OneCopy, View

(* The same of the next state. *)
LEMMA ViewOfNext ==
  ASSUME OneCopy'
  PROVE  /\ \A i \in Places' : queue'[i].id \in Blocks => View'[queue'[i].id] = queue'[i].data
         /\ \A b \in Blocks : (\A i \in Places' : queue'[i].id # b) => View'[b] = disk'[b]
BY DEF OneCopy, View

(* Two views that agree on every block are equal. *)
LEMMA ViewSame ==
  ASSUME \A b \in Blocks : View'[b] = View[b]
  PROVE  View' = View
BY DEF View

(* A cached block that is asked for again is handed out as it is. *)
LEMMA HitKeeps ==
  ASSUME CacheInv, NEW b \in Blocks, Get(b), Hit(b)
  PROVE  CacheInv' /\ View' = View
<1>1. /\ UNCHANGED <<disk, queue, synced, panicked>>
      /\ held' = Append(held, b)
      /\ b \notin Held
      /\ Len(held) < MaxHeld
  BY DEF Get, Hit
<1>2. held \in Seq(Blocks) /\ Len(held) \in Nat /\ MaxHeld \in Nat
  BY CacheAssumption DEF CacheInv, CacheTypeOK
<1>3. /\ held' \in Seq(Blocks) /\ Len(held') = Len(held) + 1
      /\ \A k \in 1 .. Len(held) : held'[k] = held[k]
      /\ held'[Len(held) + 1] = b
  BY <1>1, <1>2
<1>4. CacheTypeOK'
  BY <1>1, <1>2, <1>3 DEF CacheInv, CacheTypeOK
<1>5. HeldStays'
  BY <1>1, <1>2, <1>3 DEF CacheInv, HeldStays, Hit, Held, Places
<1>6. OneCopy' /\ CleanIsOnDisk' /\ View' = View
  BY <1>1 DEF CacheInv, OneCopy, CleanIsOnDisk, View, Places
<1>7. QED
  BY <1>4, <1>5, <1>6 DEF CacheInv

(* A block is loaded into a free place. *)
LEMMA FillKeeps ==
  ASSUME CacheInv, NEW b \in Blocks, Get(b), Fill(b)
  PROVE  CacheInv' /\ View' = View
<1> DEFINE e == Load(disk, b)
           n == Len(queue)
<1>1. /\ UNCHANGED <<disk, synced, panicked>>
      /\ queue' = Append(queue, e)
      /\ held' = Append(held, b)
      /\ b \notin Held
      /\ Len(held) < MaxHeld
      /\ n < CacheSize
      /\ \A i \in 1 .. n : queue[i].id # b
  BY DEF Get, Fill, Places
<1>2. /\ held \in Seq(Blocks) /\ Len(held) \in Nat /\ MaxHeld \in Nat
      /\ queue \in Seq(Entry) /\ n \in Nat /\ CacheSize \in Nat
      /\ disk \in [Blocks -> Values]
  BY CacheAssumption DEF CacheInv, CacheTypeOK
<1>3. /\ held' \in Seq(Blocks) /\ Len(held') = Len(held) + 1
      /\ \A k \in 1 .. Len(held) : held'[k] = held[k]
      /\ held'[Len(held) + 1] = b
  BY <1>1, <1>2
<1>4. e \in Entry /\ e.id = b /\ e.data = disk[b] /\ ~e.modified
  BY <1>2 DEF Load, Entry
<1>5. /\ queue' \in Seq(Entry) /\ Len(queue') = n + 1
      /\ \A i \in 1 .. n : queue'[i] = queue[i]
      /\ queue'[n + 1] = e
  BY <1>1, <1>2, <1>4
<1> HIDE DEF e
<1>6. CacheTypeOK'
  BY <1>1, <1>2, <1>3, <1>5 DEF CacheInv, CacheTypeOK
<1>7. OneCopy'
  <2>1. ASSUME NEW i \in 1 .. n + 1, NEW j \in 1 .. n + 1, queue'[i].id = queue'[j].id
        PROVE  i = j
    <3>1. CASE i \in 1 .. n /\ j \in 1 .. n
      BY <1>5, <2>1, <3>1 DEF CacheInv, OneCopy, Places
    <3>2. CASE i = n + 1 \/ j = n + 1
      BY <1>1, <1>2, <1>4, <1>5, <2>1, <3>2
    <3>3. QED
      BY <1>2, <3>1, <3>2
  <2>2. QED
    BY <2>1, <1>5 DEF OneCopy, Places
<1>8. HeldStays'
  <2>1. ASSUME NEW k \in 1 .. Len(held) + 1
        PROVE  \E i \in 1 .. n + 1 : queue'[i].id = held'[k]
    <3>1. CASE k \in 1 .. Len(held)
      <4>1. PICK i \in 1 .. n : queue[i].id = held[k]
        BY <3>1 DEF CacheInv, HeldStays, Places
      <4>2. QED
        BY <1>2, <1>3, <1>5, <3>1, <4>1
    <3>2. CASE k = Len(held) + 1
      BY <1>2, <1>3, <1>4, <1>5, <3>2
    <3>3. QED
      BY <1>2, <3>1, <3>2, SMTT(40)
  <2>2. \A k, l \in 1 .. Len(held) + 1 : held'[k] = held'[l] => k = l
    BY <1>1, <1>2, <1>3 DEF CacheInv, HeldStays, Held
  <2>3. QED
    BY <2>1, <2>2, <1>3, <1>5 DEF HeldStays, Places
<1>9. CleanIsOnDisk'
  <2>1. \A i \in 1 .. n + 1 : ~queue'[i].modified => queue'[i].data = disk[queue'[i].id]
    BY <1>2, <1>4, <1>5, SMTT(40) DEF CacheInv, CleanIsOnDisk, Places
  <2>2. QED
    BY <2>1, <1>1, <1>5 DEF CleanIsOnDisk, Places
<1>10. View' = View
  <2>1. ASSUME NEW c \in Blocks PROVE View'[c] = View[c]
    <3>1. CASE \E i \in 1 .. n : queue[i].id = c
      <4>1. PICK i \in 1 .. n : queue[i].id = c
        BY <3>1
      <4>2. View[c] = queue[i].data
        BY <4>1, ViewOf DEF CacheInv, Places
      <4>3. i \in Places' /\ queue'[i] = queue[i]
        BY <1>2, <1>5, <4>1 DEF Places
      <4>4. View'[c] = queue[i].data
        BY <1>7, <4>1, <4>3, ViewOfNext
      <4>5. QED
        BY <4>2, <4>4
    <3>2. CASE c = b
      <4>1. View[c] = disk[b]
        BY <3>2, <1>1, ViewOf DEF CacheInv, Places
      <4>2. n + 1 \in Places' /\ queue'[n + 1].id = c /\ queue'[n + 1].data = disk[b]
        BY <3>2, <1>2, <1>4, <1>5 DEF Places
      <4>3. View'[c] = disk[b]
        BY <1>7, <4>2, ViewOfNext
      <4>4. QED
        BY <4>1, <4>3
    <3>3. CASE c # b /\ \A i \in 1 .. n : queue[i].id # c
      <4>1. View[c] = disk[c]
        BY <3>3, ViewOf DEF CacheInv, Places
      <4>2. \A i \in Places' : queue'[i].id # c
        BY <3>3, <1>2, <1>4, <1>5, SMTT(40) DEF Places
      <4>3. View'[c] = disk[c]
        BY <1>1, <1>7, <4>2, ViewOfNext
      <4>4. QED
        BY <4>1, <4>3
    <3>4. QED
      BY <3>1, <3>2, <3>3
  <2>2. QED
    BY <2>1, ViewSame
<1>11. QED
  BY <1>6, <1>7, <1>8, <1>9, <1>10 DEF CacheInv

(* The victim is written back and replaced. *)
LEMMA SubstituteKeeps ==
  ASSUME CacheInv, NEW b \in Blocks, Get(b), Substitute(b)
  PROVE  CacheInv' /\ View' = View
<1> DEFINE n == Len(queue)
<1>1. PICK v \in 1 .. n :
        /\ IsVictim(v)
        /\ disk' = Sync(disk, queue[v])
        /\ queue' = Append(Without(queue, v), Load(Sync(disk, queue[v]), b))
  BY DEF Substitute, Places
<1> DEFINE d == Sync(disk, queue[v])
           e == Load(d, b)
           w == Without(queue, v)
           src(j) == IF j < v THEN j ELSE j + 1
<1>2. /\ UNCHANGED <<synced, panicked>>
      /\ held' = Append(held, b)
      /\ b \notin Held
      /\ Len(held) < MaxHeld
      /\ n = CacheSize
      /\ \A i \in 1 .. n : queue[i].id # b
  BY DEF Get, Substitute, Places
<1>3. /\ held \in Seq(Blocks) /\ Len(held) \in Nat /\ MaxHeld \in Nat
      /\ queue \in Seq(Entry) /\ n \in Nat /\ n > 0
      /\ disk \in [Blocks -> Values]
      /\ \A i \in 1 .. n : queue[i] \in Entry
  BY <1>2, CacheAssumption DEF CacheInv, CacheTypeOK
<1>4. \A i \in 1 .. n : queue[i].id \in Blocks /\ queue[i].data \in Values
  BY <1>3 DEF Entry
<1>5. queue[v].id \notin Held
  BY <1>1 DEF IsVictim, Evictable
<1>6. /\ d \in [Blocks -> Values]
      /\ d[queue[v].id] = queue[v].data
      /\ \A c \in Blocks : c # queue[v].id => d[c] = disk[c]
  BY <1>1, <1>3, <1>4 DEF CacheInv, CleanIsOnDisk, Sync, Places
<1>7. disk' = d /\ queue' = Append(w, e)
  BY <1>1
<1>8. e \in Entry /\ e.id = b /\ e.data = d[b] /\ ~e.modified
  BY <1>6 DEF Load, Entry
<1>9. /\ w \in Seq(Entry) /\ Len(w) = n - 1
      /\ \A j \in 1 .. n - 1 : w[j] = queue[src(j)]
      /\ \A k \in 1 .. n : k # v => \E j \in 1 .. n - 1 : w[j] = queue[k]
  BY <1>1, <1>3, WithoutEntry
<1>10. \A j \in 1 .. n - 1 : src(j) \in 1 .. n /\ src(j) # v
  BY <1>1, <1>3
<1>11. \A j, k \in 1 .. n - 1 : src(j) = src(k) => j = k
  BY <1>1, <1>3
<1> HIDE DEF d, e, w, src
<1>12. /\ queue' \in Seq(Entry) /\ Len(queue') = n
       /\ \A j \in 1 .. n - 1 : queue'[j] = queue[src(j)]
       /\ queue'[n] = e
  BY <1>3, <1>7, <1>8, <1>9
<1>13. \A k \in 1 .. n : k # v => \E j \in 1 .. n - 1 : queue'[j] = queue[k]
  BY <1>7, <1>8, <1>9, <1>12
<1>14. \A j \in 1 .. n : j \in 1 .. n - 1 \/ j = n
  BY <1>3
<1>15. /\ held' \in Seq(Blocks) /\ Len(held') = Len(held) + 1
       /\ \A k \in 1 .. Len(held) : held'[k] = held[k]
       /\ held'[Len(held) + 1] = b
  BY <1>2, <1>3
<1>16. CacheTypeOK'
  BY <1>2, <1>3, <1>6, <1>7, <1>12, <1>15 DEF CacheInv, CacheTypeOK
<1>17. OneCopy'
  <2>1. ASSUME NEW i \in 1 .. n, NEW j \in 1 .. n, queue'[i].id = queue'[j].id
        PROVE  i = j
    <3>1. CASE i \in 1 .. n - 1 /\ j \in 1 .. n - 1
      <4>1. queue[src(i)].id = queue[src(j)].id
        BY <1>12, <2>1, <3>1
      <4>2. src(i) = src(j)
        BY <1>10, <3>1, <4>1 DEF CacheInv, OneCopy, Places
      <4>3. QED
        BY <1>11, <3>1, <4>2
    <3>2. CASE i = n /\ j \in 1 .. n - 1
      BY <1>2, <1>8, <1>10, <1>12, <2>1, <3>2
    <3>3. CASE j = n /\ i \in 1 .. n - 1
      BY <1>2, <1>8, <1>10, <1>12, <2>1, <3>3
    <3>4. QED
      BY <1>14, <3>1, <3>2, <3>3
  <2>2. QED
    BY <2>1, <1>12 DEF OneCopy, Places
<1>18. HeldStays'
  <2>1. ASSUME NEW k \in 1 .. Len(held) + 1
        PROVE  \E i \in 1 .. n : queue'[i].id = held'[k]
    <3>1. CASE k \in 1 .. Len(held)
      <4>1. PICK i \in 1 .. n : queue[i].id = held[k]
        BY <3>1 DEF CacheInv, HeldStays, Places
      <4>2. i # v
        BY <1>5, <3>1, <4>1 DEF Held
      <4>3. PICK j \in 1 .. n - 1 : queue'[j] = queue[i]
        BY <1>13, <4>1, <4>2
      <4>4. QED
        BY <1>3, <1>15, <3>1, <4>1, <4>3
    <3>2. CASE k = Len(held) + 1
      BY <1>3, <1>8, <1>12, <1>15, <3>2
    <3>3. QED
      BY <1>3, <3>1, <3>2
  <2>2. \A k, l \in 1 .. Len(held) + 1 : held'[k] = held'[l] => k = l
    BY <1>2, <1>3, <1>15 DEF CacheInv, HeldStays, Held
  <2>3. QED
    BY <2>1, <2>2, <1>12, <1>15 DEF HeldStays, Places
<1>19. CleanIsOnDisk'
  <2>1. ASSUME NEW j \in 1 .. n, ~queue'[j].modified
        PROVE  queue'[j].data = d[queue'[j].id]
    <3>1. CASE j \in 1 .. n - 1
      <4>1. queue'[j] = queue[src(j)] /\ src(j) \in 1 .. n /\ src(j) # v
        BY <1>10, <1>12, <3>1
      <4>2. queue[src(j)].id # queue[v].id
        BY <4>1, <1>1 DEF CacheInv, OneCopy, Places
      <4>3. queue[src(j)].data = disk[queue[src(j)].id]
        BY <2>1, <4>1 DEF CacheInv, CleanIsOnDisk, Places
      <4>4. QED
        BY <1>4, <1>6, <4>1, <4>2, <4>3
    <3>2. CASE j = n
      BY <1>8, <1>12, <3>2
    <3>3. QED
      BY <1>14, <3>1, <3>2
  <2>2. QED
    BY <2>1, <1>7, <1>12 DEF CleanIsOnDisk, Places
<1>20. View' = View
  <2>1. ASSUME NEW c \in Blocks PROVE View'[c] = View[c]
    <3>1. CASE \E k \in 1 .. n : k # v /\ queue[k].id = c
      <4>1. PICK k \in 1 .. n : k # v /\ queue[k].id = c
        BY <3>1
      <4>2. View[c] = queue[k].data
        BY <4>1, ViewOf DEF CacheInv, Places
      <4>3. PICK j \in 1 .. n - 1 : queue'[j] = queue[k]
        BY <1>13, <4>1
      <4>4. j \in Places'
        BY <1>3, <1>12, <4>3 DEF Places
      <4>5. View'[c] = queue[k].data
        BY <1>17, <4>1, <4>3, <4>4, ViewOfNext
      <4>6. QED
        BY <4>2, <4>5
    <3>2. CASE c = b
      <4>1. View[c] = disk[b]
        BY <3>2, <1>2, ViewOf DEF CacheInv, Places
      <4>2. n \in Places' /\ queue'[n].id = c /\ queue'[n].data = d[b]
        BY <3>2, <1>3, <1>8, <1>12 DEF Places
      <4>3. View'[c] = d[b]
        BY <1>17, <4>2, ViewOfNext
      <4>4. d[b] = disk[b]
        BY <1>1, <1>2, <1>6
      <4>5. QED
        BY <4>1, <4>3, <4>4
    <3>3. CASE c # b /\ \A k \in 1 .. n : k # v => queue[k].id # c
      <4>1. \A j \in 1 .. n : queue'[j].id # c
        BY <3>3, <1>8, <1>10, <1>12, <1>14
      <4>2. View'[c] = d[c]
        BY <1>7, <1>12, <1>17, <4>1, ViewOfNext DEF Places
      <4>3. View[c] = d[c]
        <5>1. CASE queue[v].id = c
          BY <1>1, <1>4, <1>6, <5>1, ViewOf DEF CacheInv, Places
        <5>2. CASE queue[v].id # c
          BY <3>3, <1>6, <5>2, ViewOf DEF CacheInv, Places
        <5>3. QED
          BY <5>1, <5>2
      <4>4. QED
        BY <4>2, <4>3
    <3>4. QED
      BY <3>1, <3>2, <3>3
  <2>2. QED
    BY <2>1, ViewSame
<1>21. QED
  BY <1>16, <1>17, <1>18, <1>19, <1>20 DEF CacheInv

(* modify changes one cached block and marks it. *)
LEMMA ModifyKeeps ==
  ASSUME CacheInv, NEW b \in Blocks, NEW x \in Values, Modify(b, x)
  PROVE  CacheInv' /\ View' = [View EXCEPT ![b] = x]
<1> DEFINE n == Len(queue)
           new(i) == [queue[i] EXCEPT !.data = x, !.modified = TRUE]
<1>1. /\ UNCHANGED <<disk, held, synced, panicked>>
      /\ b \in Held
      /\ queue' = [i \in 1 .. n |-> IF queue[i].id = b THEN new(i) ELSE queue[i]]
  BY DEF Modify, Places
<1>2. /\ queue \in Seq(Entry) /\ n \in Nat
      /\ \A i \in 1 .. n : queue[i] \in Entry
  BY DEF CacheInv, CacheTypeOK
<1>3. \A i \in 1 .. n : /\ new(i) \in Entry
                        /\ new(i).id = queue[i].id
                        /\ new(i).data = x
                        /\ new(i).modified = TRUE
  BY <1>2 DEF Entry
<1> HIDE DEF new
<1>4. /\ queue' \in [1 .. n -> Entry]
      /\ \A i \in 1 .. n : queue'[i].id = queue[i].id
      /\ \A i \in 1 .. n : queue[i].id # b => queue'[i] = queue[i]
      /\ \A i \in 1 .. n : queue[i].id = b => queue'[i].data = x /\ queue'[i].modified
  BY <1>1, <1>2, <1>3
<1>5. queue' \in Seq(Entry) /\ Len(queue') = n
  BY <1>2, <1>4
<1>6. CacheTypeOK'
  BY <1>1, <1>5 DEF CacheInv, CacheTypeOK
<1>7. OneCopy' /\ HeldStays'
  BY <1>1, <1>4, <1>5 DEF CacheInv, OneCopy, HeldStays, Places
<1>8. CleanIsOnDisk'
  BY <1>1, <1>4, <1>5 DEF CacheInv, CleanIsOnDisk, Places
<1>9. ASSUME NEW c \in Blocks
      PROVE  View'[c] = [View EXCEPT ![b] = x][c]
  <2>1. View = [a \in Blocks |-> View[a]]
    BY DEF View
  <2>2. CASE c = b
    <3>1. PICK i \in 1 .. n : queue[i].id = b
      BY <1>1 DEF CacheInv, HeldStays, Held, Places
    <3>2. View'[b] = x
      BY <1>4, <1>5, <1>7, <3>1, ViewOfNext DEF Places
    <3>3. QED
      BY <2>1, <2>2, <3>2
  <2>3. CASE c # b /\ \E i \in 1 .. n : queue[i].id = c
    <3>1. PICK i \in 1 .. n : queue[i].id = c
      BY <2>3
    <3>2. View'[c] = queue[i].data
      BY <1>4, <1>5, <1>7, <2>3, <3>1, ViewOfNext DEF Places
    <3>3. View[c] = queue[i].data
      BY <3>1, ViewOf DEF CacheInv, Places
    <3>4. QED
      BY <2>1, <2>3, <3>2, <3>3
  <2>4. CASE c # b /\ \A i \in 1 .. n : queue[i].id # c
    <3>1. View'[c] = disk[c]
      BY <1>1, <1>4, <1>5, <1>7, <2>4, ViewOfNext DEF Places
    <3>2. View[c] = disk[c]
      BY <2>4, ViewOf DEF CacheInv, Places
    <3>3. QED
      BY <2>1, <2>4, <3>1, <3>2
  <2>5. QED
    BY <2>2, <2>3, <2>4
<1>10. View' = [View EXCEPT ![b] = x]
  <2>1. View' = [c \in Blocks |-> View'[c]]
    BY DEF View
  <2>2. [View EXCEPT ![b] = x] = [c \in Blocks |-> [View EXCEPT ![b] = x][c]]
    BY DEF View
  <2>3. QED
    BY <1>9, <2>1, <2>2
<1>11. QED
  BY <1>6, <1>7, <1>8, <1>10 DEF CacheInv

(* Dropping the innermost guard changes no block. *)
LEMMA ReleaseKeeps ==
  ASSUME CacheInv, Release
  PROVE  CacheInv' /\ View' = View
<1>1. /\ UNCHANGED <<disk, queue, synced, panicked>>
      /\ held # <<>>
      /\ held' = SubSeq(held, 1, Len(held) - 1)
  BY DEF Release
<1>2. held \in Seq(Blocks) /\ Len(held) \in Nat /\ Len(held) > 0 /\ MaxHeld \in Nat
  BY <1>1, CacheAssumption DEF CacheInv, CacheTypeOK
<1>3. /\ held' \in Seq(Blocks) /\ Len(held') = Len(held) - 1
      /\ \A k \in 1 .. Len(held) - 1 : held'[k] = held[k]
  <2>1. Len(held) - 1 \in 0 .. Len(held)
    BY <1>2
  <2>2. QED
    BY <1>1, <1>2, <2>1, FrontOf
<1>4. CacheTypeOK'
  BY <1>1, <1>2, <1>3 DEF CacheInv, CacheTypeOK
<1>5. HeldStays'
  <2>1. \A k \in 1 .. Len(held') : k \in 1 .. Len(held) /\ held'[k] = held[k]
    BY <1>2, <1>3
  <2>2. Places' = Places /\ HeldStays
    BY <1>1 DEF CacheInv, Places
  <2>3. \A k \in 1 .. Len(held') : \E i \in Places' : queue'[i].id = held'[k]
    <3> SUFFICES ASSUME NEW k \in 1 .. Len(held')
                 PROVE  \E i \in Places' : queue'[i].id = held'[k]
      OBVIOUS
    <3>1. PICK i \in Places : queue[i].id = held[k]
      BY <2>1, <2>2 DEF HeldStays
    <3>2. QED
      BY <1>1, <2>1, <2>2, <3>1
  <2>4. \A k, l \in 1 .. Len(held') : held'[k] = held'[l] => k = l
    BY <2>1, <2>2 DEF HeldStays
  <2>5. QED
    BY <2>3, <2>4 DEF HeldStays
<1>6. OneCopy' /\ CleanIsOnDisk' /\ View' = View
  BY <1>1 DEF CacheInv, OneCopy, CleanIsOnDisk, View, Places
<1>7. QED
  BY <1>4, <1>5, <1>6 DEF CacheInv

(* block_cache_sync_all changes no block and leaves the whole store on the *)
(* device.                                                                 *)
LEMMA SyncAllKeeps ==
  ASSUME CacheInv, SyncAll
  PROVE  CacheInv' /\ View' = View /\ synced' = View
<1> DEFINE n == Len(queue)
<1>1. /\ UNCHANGED <<held, panicked>>
      /\ synced' = disk'
      /\ disk' = [b \in Blocks |-> IF \E i \in 1 .. n : queue[i].id = b /\ queue[i].modified
                                   THEN View[b] ELSE disk[b]]
      /\ queue' = [i \in 1 .. n |-> [queue[i] EXCEPT !.modified = FALSE]]
  BY DEF SyncAll, Places
<1>2. /\ queue \in Seq(Entry) /\ n \in Nat /\ disk \in [Blocks -> Values]
      /\ \A i \in 1 .. n : queue[i] \in Entry
  BY DEF CacheInv, CacheTypeOK
<1>3. /\ queue' \in [1 .. n -> Entry]
      /\ \A i \in 1 .. n : /\ queue'[i].id = queue[i].id
                           /\ queue'[i].data = queue[i].data
                           /\ queue[i].id \in Blocks
                           /\ queue[i].data \in Values
  BY <1>1, <1>2 DEF Entry
<1>4. queue' \in Seq(Entry) /\ Len(queue') = n
  BY <1>2, <1>3
<1>5. ASSUME NEW b \in Blocks PROVE disk'[b] = View[b] /\ View[b] \in Values
  <2>1. CASE \E i \in 1 .. n : queue[i].id = b
    <3>1. PICK i \in 1 .. n : queue[i].id = b
      BY <2>1
    <3>2. View[b] = queue[i].data
      BY <3>1, ViewOf DEF CacheInv, Places
    <3>3. CASE queue[i].modified
      BY <1>1, <1>3, <3>1, <3>2, <3>3
    <3>4. CASE ~queue[i].modified
      <4>1. queue[i].data = disk[b]
        BY <3>1, <3>4 DEF CacheInv, CleanIsOnDisk, Places
      <4>2. QED
        BY <1>1, <1>3, <3>1, <3>2, <4>1
    <3>5. QED
      BY <3>3, <3>4
  <2>2. CASE \A i \in 1 .. n : queue[i].id # b
    BY <1>1, <1>2, <2>2, ViewOf DEF CacheInv, Places
  <2>3. QED
    BY <2>1, <2>2
<1>6. disk' = View /\ disk' \in [Blocks -> Values]
  <2>1. View = [b \in Blocks |-> View[b]]
    BY DEF View
  <2>2. disk' = [b \in Blocks |-> disk'[b]]
    BY <1>1
  <2>3. QED
    BY <1>5, <2>1, <2>2
<1>7. CacheTypeOK'
  BY <1>1, <1>4, <1>6 DEF CacheInv, CacheTypeOK
<1>8. OneCopy' /\ HeldStays'
  BY <1>1, <1>3, <1>4 DEF CacheInv, OneCopy, HeldStays, Places
<1>9. ASSUME NEW i \in 1 .. n PROVE queue'[i].data = View[queue[i].id]
  BY <1>3, ViewOf DEF CacheInv, Places
<1>10. CleanIsOnDisk'
  BY <1>3, <1>4, <1>6, <1>9 DEF CleanIsOnDisk, Places
<1>11. ASSUME NEW b \in Blocks PROVE View'[b] = View[b]
  <2>1. CASE \E i \in 1 .. n : queue[i].id = b
    <3>1. PICK i \in 1 .. n : queue[i].id = b
      BY <2>1
    <3>2. View'[b] = queue'[i].data
      BY <1>3, <1>4, <1>8, <3>1, ViewOfNext DEF Places
    <3>3. QED
      BY <1>9, <3>1, <3>2
  <2>2. CASE \A i \in 1 .. n : queue[i].id # b
    BY <1>3, <1>4, <1>5, <1>8, <2>2, ViewOfNext DEF Places
  <2>3. QED
    BY <2>1, <2>2
<1>12. QED
  BY <1>1, <1>6, <1>7, <1>8, <1>10, <1>11, ViewSame DEF CacheInv

(* The cache is empty at first. *)
LEMMA InitKeeps ==
  ASSUME CacheInit
  PROVE  CacheInv /\ View = disk
<1>1. queue = <<>> /\ held = <<>> /\ Len(queue) = 0 /\ Len(held) = 0
  BY DEF CacheInit
<1>2. queue \in Seq(Entry) /\ held \in Seq(Blocks)
  BY <1>1
<1>3. CacheTypeOK
  <2>1. Len(queue) =< CacheSize /\ Len(held) =< MaxHeld
    BY <1>1, CacheAssumption
  <2>2. QED
    BY <1>2, <2>1 DEF CacheInit, CacheTypeOK
<1>4. OneCopy /\ HeldStays /\ CleanIsOnDisk
  BY <1>1 DEF OneCopy, HeldStays, CleanIsOnDisk, Places
<1>5. View = [b \in Blocks |-> disk[b]]
  BY <1>1 DEF View, Places
<1>6. QED
  BY <1>3, <1>4, <1>5 DEF CacheInv, CacheInit

(* Asking for a block changes none, whichever way it is found. *)
LEMMA GetKeeps ==
  ASSUME CacheInv, NEW b \in Blocks, Get(b)
  PROVE  CacheInv' /\ View' = View
BY HitKeeps, FillKeeps, SubstituteKeeps DEF Get

(* Every step keeps the invariant. *)
LEMMA CacheStep == CacheInv /\ [CacheNext]_cacheVars => CacheInv'
<1> SUFFICES ASSUME CacheInv, [CacheNext]_cacheVars PROVE CacheInv'
  OBVIOUS
<1>1. ASSUME NEW b \in Blocks, RunOut(b) PROVE CacheInv'
  BY <1>1 DEF RunOut, CacheInv, CacheTypeOK, OneCopy, HeldStays, CleanIsOnDisk, Places
<1>2. CASE UNCHANGED cacheVars
  BY <1>2 DEF cacheVars, CacheInv, CacheTypeOK, OneCopy, HeldStays, CleanIsOnDisk, Places
<1>3. QED
  BY <1>1, <1>2, GetKeeps, ModifyKeeps, ReleaseKeeps, SyncAllKeeps DEF CacheNext

(* No block is cached twice, none is replaced while an operation has it    *)
(* locked, and an unmarked entry equals its block on the device.           *)
THEOREM CacheInvariant == CacheSpec => []CacheInv
<1>1. CacheInit => CacheInv
  BY InitKeeps
<1>2. QED
  BY <1>1, CacheStep, PTL DEF CacheSpec

(* Evictions and write-backs included, the cache implements a plain store  *)
(* of blocks that block_cache_sync_all makes durable.                      *)
THEOREM CacheImplementsStore == CacheSpec => ImplementsStore
<1>1. CacheInit => Store!StoreInit
  BY InitKeeps DEF CacheInit, Store!StoreInit
<1>2. CacheInv /\ [CacheNext]_cacheVars => [Store!StoreNext]_Store!storeVars
  <2> SUFFICES ASSUME CacheInv, [CacheNext]_cacheVars
               PROVE  [Store!StoreNext]_Store!storeVars
    OBVIOUS
  <2>1. ASSUME NEW b \in Blocks, Get(b) PROVE Store!Ask(b)
    BY <2>1, GetKeeps DEF Get, Store!Ask
  <2>2. ASSUME NEW b \in Blocks, NEW x \in Values, Modify(b, x) PROVE Store!Write(b, x)
    BY <2>2, ModifyKeeps DEF Modify, Held, Store!Write
  <2>3. ASSUME Release PROVE Store!LetGo
    BY <2>3, ReleaseKeeps DEF Release, Store!LetGo
  <2>4. ASSUME SyncAll PROVE Store!Flush
    BY <2>4, SyncAllKeeps DEF SyncAll, Store!Flush
  <2>5. ASSUME NEW b \in Blocks, RunOut(b) PROVE UNCHANGED Store!storeVars
    BY <2>5 DEF RunOut, Store!storeVars, View, Places
  <2>6. CASE UNCHANGED cacheVars
    BY <2>6 DEF cacheVars, Store!storeVars, View, Places
  <2>7. QED
    BY <2>1, <2>2, <2>3, <2>4, <2>5, <2>6 DEF CacheNext, Store!StoreNext
<1>3. QED
  BY <1>1, <1>2, CacheInvariant, PTL DEF CacheSpec, ImplementsStore, Store!StoreSpec

(* 1 .. n has n members. *)
LEMMA IntervalSize == \A n \in Nat : IsFiniteSet(1 .. n) /\ Cardinality(1 .. n) = n
<1> SUFFICES ASSUME NEW n \in Nat PROVE IsFiniteSet(1 .. n) /\ Cardinality(1 .. n) = n
  OBVIOUS
<1>1. /\ IsFiniteSet(1 .. n)
      /\ Cardinality(1 .. n) = IF 1 > n THEN 0 ELSE n - 1 + 1
  BY FS_Interval
<1>2. QED
  BY <1>1

(* A map from 1 .. n to 1 .. h with h < n sends two numbers to one. *)
LEMMA TwoToOne ==
  ASSUME NEW n \in Nat, NEW h \in Nat, h < n, NEW f \in [1 .. n -> 1 .. h]
  PROVE  \E i, j \in 1 .. n : i # j /\ f[i] = f[j]
<1>1. IsFiniteSet(1 .. n) /\ IsFiniteSet(1 .. h)
  BY IntervalSize
<1>2. Cardinality(1 .. h) < Cardinality(1 .. n)
  BY IntervalSize
<1>3. QED
  BY <1>1, <1>2, FS_PigeonHole

(* When every cached block is locked, as many accesses are nested as the   *)
(* queue has entries.                                                      *)
LEMMA AllHeld ==
  ASSUME CacheInv, Evictable = {}
  PROVE  Len(held) = Len(queue)
<1> DEFINE n == Len(queue)
           h == Len(held)
           f == [i \in 1 .. n |-> CHOOSE k \in 1 .. h : held[k] = queue[i].id]
           g == [k \in 1 .. h |-> CHOOSE i \in 1 .. n : queue[i].id = held[k]]
<1>1. n \in Nat /\ h \in Nat
  BY DEF CacheInv, CacheTypeOK
<1>3. \A i \in 1 .. n : \E k \in 1 .. h : held[k] = queue[i].id
  BY DEF Evictable, Held, Places
<1>4. f \in [1 .. n -> 1 .. h] /\ \A i \in 1 .. n : held[f[i]] = queue[i].id
  BY <1>3
<1>5. \A k \in 1 .. h : \E i \in 1 .. n : queue[i].id = held[k]
  BY DEF CacheInv, HeldStays, Places
<1>6. g \in [1 .. h -> 1 .. n] /\ \A k \in 1 .. h : queue[g[k]].id = held[k]
  BY <1>5
<1> HIDE DEF f, g
<1>7. ~(h < n)
  <2>1. SUFFICES ASSUME h < n PROVE FALSE
    OBVIOUS
  <2>2. PICK i, j \in 1 .. n : i # j /\ f[i] = f[j]
    BY <1>1, <1>4, <2>1, TwoToOne
  <2>3. queue[i].id = queue[j].id
    BY <1>4, <2>2
  <2>4. QED
    BY <2>2, <2>3 DEF CacheInv, OneCopy, Places
<1>8. ~(n < h)
  <2>1. SUFFICES ASSUME n < h PROVE FALSE
    OBVIOUS
  <2>2. PICK k, l \in 1 .. h : k # l /\ g[k] = g[l]
    BY <1>1, <1>6, <2>1, TwoToOne
  <2>3. held[k] = held[l]
    BY <1>6, <2>2
  <2>4. QED
    BY <2>2, <2>3 DEF CacheInv, HeldStays
<1>9. QED
  BY <1>1, <1>7, <1>8

(* A panic happens while a further access is asked for, and freezes held. *)
PanicInv == panicked => Len(held) = CacheSize /\ Len(held) < MaxHeld

(* Every step keeps PanicInv. *)
LEMMA PanicStep == CacheInv /\ PanicInv /\ [CacheNext]_cacheVars => PanicInv'
<1> SUFFICES ASSUME CacheInv, PanicInv, [CacheNext]_cacheVars PROVE PanicInv'
  OBVIOUS
<1>1. ASSUME NEW b \in Blocks, RunOut(b) PROVE PanicInv'
  BY <1>1, AllHeld DEF RunOut, PanicInv
<1>2. ASSUME NEW b \in Blocks, Get(b) PROVE PanicInv'
  BY <1>2 DEF Get, Hit, Fill, Substitute, PanicInv
<1>3. ASSUME NEW b \in Blocks, NEW x \in Values, Modify(b, x) PROVE PanicInv'
  BY <1>3 DEF Modify, PanicInv
<1>4. ASSUME Release \/ SyncAll PROVE PanicInv'
  BY <1>4 DEF Release, SyncAll, PanicInv
<1>5. CASE UNCHANGED cacheVars
  BY <1>5 DEF cacheVars, PanicInv
<1>6. QED
  BY <1>1, <1>2, <1>3, <1>4, <1>5 DEF CacheNext

(* The cache runs out only when every entry is in use by the operation     *)
(* that asks for one more.                                                 *)
THEOREM RunsOutLate == CacheSpec => []RunsOutOnlyWhenAllHeld
<1>1. CacheInit => PanicInv
  BY DEF CacheInit, PanicInv
<1>2. PanicInv => RunsOutOnlyWhenAllHeld
  BY DEF PanicInv, RunsOutOnlyWhenAllHeld
<1>3. QED
  BY <1>1, <1>2, PanicStep, CacheInvariant, PTL DEF CacheSpec

(* With the code's numbers, 3 nested accesses and 16 entries, "Run out of  *)
(* BlockCache!" is unreachable.                                            *)
THEOREM NeverRunsOut ==
  ASSUME MaxHeld =< CacheSize
  PROVE  CacheSpec => []~panicked
<1>1. CacheInit => PanicInv
  BY DEF CacheInit, PanicInv
<1>2. CacheInv /\ PanicInv => ~panicked
  BY CacheAssumption DEF PanicInv, CacheInv, CacheTypeOK
<1>3. QED
  BY <1>1, <1>2, PanicStep, CacheInvariant, PTL DEF CacheSpec
===============================================================================
