--------------------------- MODULE FileAttrsProofs ----------------------------
(***************************************************************************)
(* The inverted indexes of the attribute store follow the attributes, for  *)
(* every set of files, keys, values and tags; so the two ways of answering *)
(* a query agree.  AttrInv is inductive: that an absent file has empty     *)
(* attributes is needed because the index does not know by_name's keys.    *)
(***************************************************************************)
EXTENDS FileAttrs, TLAPS

(* The parts of a file's attributes.                                       *)
LEMMA AttrParts ==
  ASSUME NEW a \in FileAttributes
  PROVE  /\ a.kv \in [Keys -> Values \cup {None}]
         /\ a.tags \in SUBSET Tags
         /\ a.digest \in SUBSET Words
BY DEF FileAttributes

(* Attributes are given by their parts.                                    *)
LEMMA AttrMake ==
  ASSUME NEW kv \in [Keys -> Values \cup {None}], NEW t \in SUBSET Tags,
         NEW d \in SUBSET Words
  PROVE  [kv |-> kv, tags |-> t, digest |-> d] \in FileAttributes
BY DEF FileAttributes

(* Changing one part of a file's attributes leaves the others.             *)
LEMMA AttrWith ==
  ASSUME NEW a \in FileAttributes, NEW x
  PROVE  /\ [a EXCEPT !.kv = x] = [kv |-> x, tags |-> a.tags, digest |-> a.digest]
         /\ [a EXCEPT !.tags = x] = [kv |-> a.kv, tags |-> x, digest |-> a.digest]
         /\ [a EXCEPT !.digest = x] = [kv |-> a.kv, tags |-> a.tags, digest |-> x]
BY DEF FileAttributes

(* set_kv keeps the invariant.                                             *)
LEMMA SetKvKeeps ==
  ASSUME AttrInv, NEW f \in Files, NEW k \in Keys, NEW v \in Values, SetKv(f, k, v),
         booting' \in BOOLEAN, reply' \in [call : {"boot", "set", "del"}, broadcast : BOOLEAN]
  PROVE  AttrInv'
<1>t. AttrTypeOK /\ AbsentIsEmpty /\ IndexMatches
  BY DEF AttrInv
<1>2. attrs[f] \in FileAttributes /\ attrs[f].kv \in [Keys -> Values \cup {None}]
  BY <1>t, AttrParts DEF AttrTypeOK
<1>1. attrs' = [attrs EXCEPT ![f] = [kv |-> [attrs[f].kv EXCEPT ![k] = v],
                                     tags |-> attrs[f].tags, digest |-> attrs[f].digest]]
  <2>1. attrs' = [attrs EXCEPT ![f] = [attrs[f] EXCEPT !.kv = [attrs[f].kv EXCEPT ![k] = v]]]
    BY <1>t, <1>2 DEF SetKv, AttrTypeOK
  <2>2. QED
    BY <1>2, <2>1, AttrWith
<1>a. [kv |-> [attrs[f].kv EXCEPT ![k] = v], tags |-> attrs[f].tags,
       digest |-> attrs[f].digest] \in FileAttributes
  BY <1>2, AttrParts, AttrMake
<1>3. /\ attrs'[f].kv = [attrs[f].kv EXCEPT ![k] = v]
      /\ attrs'[f].tags = attrs[f].tags
      /\ attrs'[f] \in FileAttributes
      /\ \A g \in Files \ {f} : attrs'[g] = attrs[g]
      /\ attrs' \in [Files -> FileAttributes]
  BY <1>t, <1>1, <1>a DEF AttrTypeOK
<1>4. AbsentIsEmpty'
  BY <1>t, <1>3 DEF AbsentIsEmpty, SetKv
<1>5. ASSUME NEW l \in Keys, NEW w \in Values
      PROVE  /\ indexKv'[l][w] \in [Files -> Nat]
             /\ \A g \in Files : indexKv'[l][w][g] = IF w = attrs'[g].kv[l] THEN 1 ELSE 0
  <2>1. indexKv[l][w] \in [Files -> Nat]
    BY <1>t DEF AttrTypeOK
  <2>2. \A g \in Files : indexKv[l][w][g] = IF w = attrs[g].kv[l] THEN 1 ELSE 0
    BY <1>t DEF IndexMatches
  <2>3. attrs[f].kv \in [Keys -> Values \cup {None}]
    BY <1>2, AttrParts
  <2>4. CASE l # k
    <3>1. indexKv'[l][w] = indexKv[l][w]
      BY <1>t, <2>4 DEF SetKv, AttrTypeOK
    <3>2. QED
      BY <1>3, <2>1, <2>2, <2>3, <2>4, <3>1
  <2>5. CASE l = k
    <3> DEFINE kept == IF w = attrs[f].kv[k] THEN RetainOthers(indexKv[k][w], f)
                                             ELSE indexKv[k][w]
    <3>1. indexKv'[l][w] = IF w = v THEN PushName(kept, f) ELSE kept
      BY <1>t, <2>5 DEF SetKv, AttrTypeOK
    <3>2. /\ kept \in [Files -> Nat] /\ kept[f] = 0
          /\ \A g \in Files \ {f} : kept[g] = indexKv[k][w][g]
      BY <2>1, <2>2, <2>5 DEF RetainOthers
    <3> HIDE DEF kept
    <3>3. /\ indexKv'[l][w] \in [Files -> Nat]
          /\ indexKv'[l][w][f] = IF w = v THEN 1 ELSE 0
          /\ \A g \in Files \ {f} : indexKv'[l][w][g] = indexKv[k][w][g]
      BY <3>1, <3>2 DEF PushName
    <3>4. QED
      BY <1>3, <2>2, <2>3, <2>5, <3>3
  <2>6. QED
    BY <2>4, <2>5
<1>6. indexKv' \in [Keys -> [Values -> [Files -> Nat]]]
  <2>1. \A l \in Keys : indexKv'[l] = IF l = k THEN [w \in Values |-> indexKv'[k][w]] ELSE indexKv[l]
    BY <1>t DEF SetKv, AttrTypeOK
  <2>2. indexKv' = [l \in Keys |-> indexKv'[l]]
    BY <1>t DEF SetKv, AttrTypeOK
  <2>3. QED
    BY <1>t, <1>5, <2>1, <2>2 DEF AttrTypeOK
<1>7. IndexMatches'
  BY <1>t, <1>3, <1>5 DEF IndexMatches, SetKv
<1>8. AttrTypeOK'
  BY <1>t, <1>3, <1>6 DEF AttrTypeOK, SetKv
<1>9. QED
  BY <1>4, <1>7, <1>8 DEF AttrInv
(* add_tag keeps the invariant.                                            *)
LEMMA AddTagKeeps ==
  ASSUME AttrInv, NEW f \in Files, NEW t \in Tags, AddTag(f, t),
         booting' \in BOOLEAN, reply' \in [call : {"boot", "set", "del"}, broadcast : BOOLEAN]
  PROVE  AttrInv'
<1>t. AttrTypeOK /\ AbsentIsEmpty /\ IndexMatches
  BY DEF AttrInv
<1>1. attrs[f] \in FileAttributes
  BY <1>t DEF AttrTypeOK
<1>2. attrs' = [attrs EXCEPT ![f] = [kv |-> attrs[f].kv, tags |-> attrs[f].tags \cup {t},
                                     digest |-> attrs[f].digest]]
  <2>1. attrs' = [attrs EXCEPT ![f] = [attrs[f] EXCEPT !.tags = attrs[f].tags \cup {t}]]
    BY <1>t DEF AddTag, AttrTypeOK
  <2>2. QED
    BY <1>1, <2>1, AttrWith
<1>3. [kv |-> attrs[f].kv, tags |-> attrs[f].tags \cup {t}, digest |-> attrs[f].digest]
        \in FileAttributes
  BY <1>1, AttrParts, AttrMake
<1>4. /\ attrs'[f].kv = attrs[f].kv /\ attrs'[f].tags = attrs[f].tags \cup {t}
      /\ \A g \in Files \ {f} : attrs'[g] = attrs[g]
      /\ attrs' \in [Files -> FileAttributes]
  BY <1>t, <1>2, <1>3 DEF AttrTypeOK
<1>5. AbsentIsEmpty'
  BY <1>t, <1>4 DEF AbsentIsEmpty, AddTag
<1>6. indexTag' = [indexTag EXCEPT ![t] = [indexTag[t] EXCEPT ![f] =
                      IF indexTag[t][f] = 0 THEN 1 ELSE indexTag[t][f]]]
  BY <1>t DEF AddTag, PushName, AttrTypeOK
<1>7. indexTag[t] \in [Files -> Nat]
  BY <1>t DEF AttrTypeOK
<1>8. indexTag' \in [Tags -> [Files -> Nat]]
  BY <1>t, <1>6, <1>7 DEF AttrTypeOK
<1>9. \A u \in Tags, g \in Files : indexTag'[u][g] = IF u \in attrs'[g].tags THEN 1 ELSE 0
  <2> SUFFICES ASSUME NEW u \in Tags, NEW g \in Files
               PROVE  indexTag'[u][g] = IF u \in attrs'[g].tags THEN 1 ELSE 0
    OBVIOUS
  <2>1. indexTag[u][g] = IF u \in attrs[g].tags THEN 1 ELSE 0
    BY <1>t DEF IndexMatches
  <2>2. CASE u = t /\ g = f
    BY <1>t, <1>4, <1>6, <1>7, <2>1, <2>2 DEF AttrTypeOK
  <2>3. CASE u # t \/ g # f
    <3>1. indexTag'[u][g] = indexTag[u][g]
      BY <1>t, <1>6, <1>7, <2>3 DEF AttrTypeOK
    <3>2. QED
      BY <1>4, <2>1, <2>3, <3>1
  <2>4. QED
    BY <2>2, <2>3
<1>10. \A k \in Keys, v \in Values, g \in Files : indexKv'[k][v][g] = IF v = attrs'[g].kv[k] THEN 1 ELSE 0
  BY <1>t, <1>4 DEF IndexMatches, AddTag
<1>11. IndexMatches'
  BY <1>9, <1>10 DEF IndexMatches
<1>12. AttrTypeOK'
  BY <1>t, <1>4, <1>8 DEF AttrTypeOK, AddTag
<1>13. QED
  BY <1>5, <1>11, <1>12 DEF AttrInv

(* set_digest keeps the invariant.                                         *)
LEMMA SetDigestKeeps ==
  ASSUME AttrInv, NEW f \in Files, NEW d \in SUBSET Words, SetDigest(f, d),
         booting' \in BOOLEAN, reply' \in [call : {"boot", "set", "del"}, broadcast : BOOLEAN]
  PROVE  AttrInv'
<1>t. AttrTypeOK /\ AbsentIsEmpty /\ IndexMatches
  BY DEF AttrInv
<1>1. attrs[f] \in FileAttributes
  BY <1>t DEF AttrTypeOK
<1>2. attrs' = [attrs EXCEPT ![f] = [kv |-> attrs[f].kv, tags |-> attrs[f].tags, digest |-> d]]
  BY <1>1, AttrWith DEF SetDigest
<1>3. [kv |-> attrs[f].kv, tags |-> attrs[f].tags, digest |-> d] \in FileAttributes
  BY <1>1, AttrParts, AttrMake
<1>4. /\ attrs' \in [Files -> FileAttributes]
      /\ \A g \in Files : attrs'[g].kv = attrs[g].kv /\ attrs'[g].tags = attrs[g].tags
      /\ \A g \in Files \ {f} : attrs'[g] = attrs[g]
  BY <1>t, <1>2, <1>3 DEF AttrTypeOK
<1>5. AbsentIsEmpty'
  BY <1>t, <1>4 DEF AbsentIsEmpty, SetDigest
<1>6. IndexMatches'
  BY <1>t, <1>4 DEF IndexMatches, SetDigest
<1>7. AttrTypeOK'
  BY <1>t, <1>4 DEF AttrTypeOK, SetDigest
<1>8. QED
  BY <1>5, <1>6, <1>7 DEF AttrInv

(* remove_tag keeps the invariant.                                         *)
LEMMA RemoveTagKeeps ==
  ASSUME AttrInv, NEW f \in Files, NEW t \in Tags, RemoveTag(f, t),
         booting' \in BOOLEAN, reply' \in [call : {"boot", "set", "del"}, broadcast : BOOLEAN]
  PROVE  AttrInv'
<1>t. AttrTypeOK /\ AbsentIsEmpty /\ IndexMatches
  BY DEF AttrInv
<1>1. attrs[f] \in FileAttributes
  BY <1>t DEF AttrTypeOK
<1>2. attrs' = [attrs EXCEPT ![f] = [kv |-> attrs[f].kv, tags |-> attrs[f].tags \ {t},
                                     digest |-> attrs[f].digest]]
  <2>1. attrs' = [attrs EXCEPT ![f] = [attrs[f] EXCEPT !.tags = attrs[f].tags \ {t}]]
    BY <1>t DEF RemoveTag, AttrTypeOK
  <2>2. QED
    BY <1>1, <2>1, AttrWith
<1>3. [kv |-> attrs[f].kv, tags |-> attrs[f].tags \ {t}, digest |-> attrs[f].digest]
        \in FileAttributes
  BY <1>1, AttrParts, AttrMake
<1>4. /\ attrs'[f].kv = attrs[f].kv /\ attrs'[f].tags = attrs[f].tags \ {t}
      /\ \A g \in Files \ {f} : attrs'[g] = attrs[g]
      /\ attrs' \in [Files -> FileAttributes]
  BY <1>t, <1>2, <1>3 DEF AttrTypeOK
<1>5. AbsentIsEmpty'
  <2> SUFFICES ASSUME NEW g \in Files \ names PROVE attrs'[g] = NoAttributes
    BY DEF AbsentIsEmpty, RemoveTag
  <2>1. attrs[g] = NoAttributes
    BY <1>t DEF AbsentIsEmpty
  <2>2. CASE g = f
    <3>1. attrs[f].tags \ {t} = attrs[f].tags
      BY <2>1, <2>2 DEF NoAttributes
    <3>2. QED
      BY <1>t, <1>2, <2>1, <2>2, <3>1 DEF NoAttributes, AttrTypeOK
  <2>3. QED
    BY <1>4, <2>1, <2>2
<1>6. indexTag' = [indexTag EXCEPT ![t] = [indexTag[t] EXCEPT ![f] = 0]]
  BY <1>t DEF RemoveTag, RetainOthers, AttrTypeOK
<1>7. indexTag[t] \in [Files -> Nat]
  BY <1>t DEF AttrTypeOK
<1>8. indexTag' \in [Tags -> [Files -> Nat]]
  BY <1>t, <1>6, <1>7 DEF AttrTypeOK
<1>9. \A u \in Tags, g \in Files : indexTag'[u][g] = IF u \in attrs'[g].tags THEN 1 ELSE 0
  <2> SUFFICES ASSUME NEW u \in Tags, NEW g \in Files
               PROVE  indexTag'[u][g] = IF u \in attrs'[g].tags THEN 1 ELSE 0
    OBVIOUS
  <2>1. indexTag[u][g] = IF u \in attrs[g].tags THEN 1 ELSE 0
    BY <1>t DEF IndexMatches
  <2>2. CASE u = t /\ g = f
    BY <1>t, <1>4, <1>6, <1>7, <2>1, <2>2 DEF AttrTypeOK
  <2>3. CASE u # t \/ g # f
    <3>1. indexTag'[u][g] = indexTag[u][g]
      BY <1>t, <1>6, <1>7, <2>3 DEF AttrTypeOK
    <3>2. QED
      BY <1>4, <2>1, <2>3, <3>1
  <2>4. QED
    BY <2>2, <2>3
<1>10. \A k \in Keys, v \in Values, g \in Files : indexKv'[k][v][g] = IF v = attrs'[g].kv[k] THEN 1 ELSE 0
  BY <1>t, <1>4 DEF IndexMatches, RemoveTag
<1>11. IndexMatches'
  BY <1>9, <1>10 DEF IndexMatches
<1>12. AttrTypeOK'
  BY <1>t, <1>4, <1>8 DEF AttrTypeOK, RemoveTag
<1>13. QED
  BY <1>5, <1>11, <1>12 DEF AttrInv

(* remove_kv keeps the invariant.                                          *)
LEMMA RemoveKvKeeps ==
  ASSUME AttrInv, NEW f \in Files, NEW k \in Keys, RemoveKv(f, k),
         booting' \in BOOLEAN, reply' \in [call : {"boot", "set", "del"}, broadcast : BOOLEAN]
  PROVE  AttrInv'
<1>t. AttrTypeOK /\ AbsentIsEmpty /\ IndexMatches
  BY DEF AttrInv
<1>1. attrs[f] \in FileAttributes /\ attrs[f].kv \in [Keys -> Values \cup {None}]
  BY <1>t, AttrParts DEF AttrTypeOK
<1>2. attrs' = [attrs EXCEPT ![f] = [kv |-> [attrs[f].kv EXCEPT ![k] = None],
                                     tags |-> attrs[f].tags, digest |-> attrs[f].digest]]
  <2>1. attrs' = [attrs EXCEPT ![f] = [attrs[f] EXCEPT !.kv = [attrs[f].kv EXCEPT ![k] = None]]]
    BY <1>t, <1>1 DEF RemoveKv, AttrTypeOK
  <2>2. QED
    BY <1>1, <2>1, AttrWith
<1>3. [kv |-> [attrs[f].kv EXCEPT ![k] = None], tags |-> attrs[f].tags,
       digest |-> attrs[f].digest] \in FileAttributes
  BY <1>1, AttrParts, AttrMake
<1>4. /\ attrs'[f].kv = [attrs[f].kv EXCEPT ![k] = None]
      /\ attrs'[f].tags = attrs[f].tags
      /\ \A g \in Files \ {f} : attrs'[g] = attrs[g]
      /\ attrs' \in [Files -> FileAttributes]
  BY <1>t, <1>2, <1>3 DEF AttrTypeOK
<1>5. AbsentIsEmpty'
  <2> SUFFICES ASSUME NEW g \in Files \ names PROVE attrs'[g] = NoAttributes
    BY DEF AbsentIsEmpty, RemoveKv
  <2>1. attrs[g] = NoAttributes
    BY <1>t DEF AbsentIsEmpty
  <2>2. CASE g = f
    <3>1. [attrs[f].kv EXCEPT ![k] = None] = attrs[f].kv
      BY <1>1, <2>1, <2>2 DEF NoAttributes
    <3>2. QED
      BY <1>t, <1>2, <2>1, <2>2, <3>1 DEF NoAttributes, AttrTypeOK
  <2>3. QED
    BY <1>4, <2>1, <2>2
<1>6. ASSUME NEW l \in Keys, NEW w \in Values
      PROVE  /\ indexKv'[l][w] \in [Files -> Nat]
             /\ \A g \in Files : indexKv'[l][w][g] = IF w = attrs'[g].kv[l] THEN 1 ELSE 0
  <2>1. indexKv[l][w] \in [Files -> Nat]
    BY <1>t DEF AttrTypeOK
  <2>2. \A g \in Files : indexKv[l][w][g] = IF w = attrs[g].kv[l] THEN 1 ELSE 0
    BY <1>t DEF IndexMatches
  <2>3. CASE l # k
    <3>1. indexKv'[l][w] = indexKv[l][w]
      BY <1>t, <2>3 DEF RemoveKv, AttrTypeOK
    <3>2. QED
      BY <1>1, <1>4, <2>1, <2>2, <2>3, <3>1
  <2>4. CASE l = k
    <3>1. indexKv'[l][w] = IF w = attrs[f].kv[k] THEN RetainOthers(indexKv[k][w], f)
                                                 ELSE indexKv[k][w]
      BY <1>t, <2>4 DEF RemoveKv, AttrTypeOK
    <3>2. /\ indexKv'[l][w] \in [Files -> Nat] /\ indexKv'[l][w][f] = 0
          /\ \A g \in Files \ {f} : indexKv'[l][w][g] = indexKv[k][w][g]
      BY <2>1, <2>2, <2>4, <3>1 DEF RetainOthers
    <3>3. w # attrs'[f].kv[k]
      BY <1>1, <1>4, AttrAssumption
    <3>4. ASSUME NEW g \in Files
          PROVE  indexKv'[l][w][g] = IF w = attrs'[g].kv[l] THEN 1 ELSE 0
      <4>1. CASE g = f
        BY <2>4, <3>2, <3>3, <4>1
      <4>2. CASE g # f
        BY <1>4, <2>2, <2>4, <3>2, <4>2
      <4>3. QED
        BY <4>1, <4>2
    <3>5. QED
      BY <3>2, <3>4
  <2>5. QED
    BY <2>3, <2>4
<1>7. indexKv' \in [Keys -> [Values -> [Files -> Nat]]]
  <2>1. \A l \in Keys : indexKv'[l] = IF l = k THEN [w \in Values |-> indexKv'[k][w]] ELSE indexKv[l]
    BY <1>t DEF RemoveKv, AttrTypeOK
  <2>2. indexKv' = [l \in Keys |-> indexKv'[l]]
    BY <1>t DEF RemoveKv, AttrTypeOK
  <2>3. QED
    BY <1>t, <1>6, <2>1, <2>2 DEF AttrTypeOK
<1>8. IndexMatches'
  BY <1>t, <1>4, <1>6 DEF IndexMatches, RemoveKv
<1>9. AttrTypeOK'
  BY <1>t, <1>4, <1>7 DEF AttrTypeOK, RemoveKv
<1>10. QED
  BY <1>5, <1>8, <1>9 DEF AttrInv

(* remove_file keeps the invariant: no index lists the file any more.      *)
LEMMA RemoveFileKeeps ==
  ASSUME AttrInv, NEW f \in Files, RemoveFile(f),
         booting' \in BOOLEAN, reply' \in [call : {"boot", "set", "del"}, broadcast : BOOLEAN]
  PROVE  AttrInv'
<1>t. AttrTypeOK /\ AbsentIsEmpty /\ IndexMatches
  BY DEF AttrInv
<1>1. NoAttributes \in FileAttributes
  BY AttrMake DEF NoAttributes
<1>2. /\ attrs'[f] = NoAttributes
      /\ \A g \in Files \ {f} : attrs'[g] = attrs[g]
      /\ attrs' \in [Files -> FileAttributes]
  BY <1>t, <1>1 DEF RemoveFile, AttrTypeOK
<1>3. AbsentIsEmpty'
  BY <1>t, <1>2 DEF AbsentIsEmpty, RemoveFile
<1>4. ASSUME NEW t \in Tags
      PROVE  /\ indexTag'[t] \in [Files -> Nat]
             /\ \A g \in Files : indexTag'[t][g] = IF t \in attrs'[g].tags THEN 1 ELSE 0
  <2>1. indexTag[t] \in [Files -> Nat]
    BY <1>t DEF AttrTypeOK
  <2>2. \A g \in Files : indexTag[t][g] = IF t \in attrs[g].tags THEN 1 ELSE 0
    BY <1>t DEF IndexMatches
  <2>3. indexTag'[t] = IF t \in attrs[f].tags THEN [indexTag[t] EXCEPT ![f] = 0] ELSE indexTag[t]
    BY DEF RemoveFile, RetainOthers
  <2>4. /\ indexTag'[t] \in [Files -> Nat] /\ indexTag'[t][f] = 0
        /\ \A g \in Files \ {f} : indexTag'[t][g] = indexTag[t][g]
    BY <2>1, <2>2, <2>3
  <2>5. t \notin attrs'[f].tags
    BY <1>2 DEF NoAttributes
  <2>6. QED
    BY <1>2, <2>2, <2>4, <2>5
<1>5. ASSUME NEW k \in Keys, NEW v \in Values
      PROVE  /\ indexKv'[k][v] \in [Files -> Nat]
             /\ \A g \in Files : indexKv'[k][v][g] = IF v = attrs'[g].kv[k] THEN 1 ELSE 0
  <2>1. indexKv[k][v] \in [Files -> Nat]
    BY <1>t DEF AttrTypeOK
  <2>2. \A g \in Files : indexKv[k][v][g] = IF v = attrs[g].kv[k] THEN 1 ELSE 0
    BY <1>t DEF IndexMatches
  <2>3. indexKv'[k][v] = IF v = attrs[f].kv[k] THEN [indexKv[k][v] EXCEPT ![f] = 0] ELSE indexKv[k][v]
    BY DEF RemoveFile, RetainOthers
  <2>4. /\ indexKv'[k][v] \in [Files -> Nat] /\ indexKv'[k][v][f] = 0
        /\ \A g \in Files \ {f} : indexKv'[k][v][g] = indexKv[k][v][g]
    BY <2>1, <2>2, <2>3
  <2>5. v # attrs'[f].kv[k]
    BY <1>2, AttrAssumption DEF NoAttributes
  <2>6. QED
    BY <1>2, <2>2, <2>4, <2>5
<1>6. indexTag' \in [Tags -> [Files -> Nat]]
  <2>1. indexTag' = [t \in Tags |-> indexTag'[t]]
    BY DEF RemoveFile
  <2>2. QED
    BY <1>4, <2>1
<1>7. indexKv' \in [Keys -> [Values -> [Files -> Nat]]]
  <2>1. indexKv' = [k \in Keys |-> [v \in Values |-> indexKv'[k][v]]]
    BY DEF RemoveFile
  <2>2. QED
    BY <1>5, <2>1
<1>8. IndexMatches'
  BY <1>4, <1>5 DEF IndexMatches
<1>9. AttrTypeOK'
  BY <1>t, <1>2, <1>6, <1>7 DEF AttrTypeOK, RemoveFile
<1>10. QED
  BY <1>3, <1>8, <1>9 DEF AttrInv

(* Every operation keeps the invariant.                                    *)
LEMMA AttrStep == AttrInv /\ [AttrNext]_attrVars => AttrInv'
<1> SUFFICES ASSUME AttrInv, [AttrNext]_attrVars PROVE AttrInv'
  OBVIOUS
<1>t. booting \in BOOLEAN /\ reply \in [call : {"boot", "set", "del"}, broadcast : BOOLEAN]
  BY DEF AttrInv, AttrTypeOK
<1>1. CASE Boot
  <2>1. booting' \in BOOLEAN /\ reply' \in [call : {"boot", "set", "del"}, broadcast : BOOLEAN]
    BY <1>t, <1>1 DEF Boot
  <2>2. QED
    BY <1>1, <2>1, SetKvKeeps, AddTagKeeps, SetDigestKeeps, RemoveKvKeeps DEF Boot
<1>2. CASE BootDone
  <2>1. UNCHANGED <<names, attrs, indexKv, indexTag, reply>> /\ booting' \in BOOLEAN
    BY <1>2 DEF BootDone
  <2>2. QED
    BY <1>t, <2>1 DEF AttrInv, AttrTypeOK, AbsentIsEmpty, IndexMatches
<1>3. ASSUME NEW f \in Files, NEW t \in Tags, SysFileAttrSet(f, t) PROVE AttrInv'
  <2>1. booting' \in BOOLEAN /\ reply' \in [call : {"boot", "set", "del"}, broadcast : BOOLEAN]
    BY <1>t, <1>3 DEF SysFileAttrSet
  <2>2. QED
    BY <1>3, <2>1, AddTagKeeps DEF SysFileAttrSet
<1>4. ASSUME NEW f \in Files, NEW t \in Tags, SysFileAttrDel(f, t) PROVE AttrInv'
  <2>1. booting' \in BOOLEAN /\ reply' \in [call : {"boot", "set", "del"}, broadcast : BOOLEAN]
    <3> DEFINE found == IF t = EmptyTag THEN f \in names ELSE t \in attrs[f].tags
    <3>1. found \in BOOLEAN
      <4>1. (f \in names) \in BOOLEAN /\ (t \in attrs[f].tags) \in BOOLEAN
        OBVIOUS
      <4>2. CASE t = EmptyTag
        BY <4>1, <4>2, Zenon
      <4>3. CASE t # EmptyTag
        BY <4>1, <4>3, Zenon
      <4>4. QED
        BY <4>2, <4>3, Zenon
    <3>2. reply' = [call |-> "del", broadcast |-> found] /\ booting' = booting
      BY <1>4 DEF SysFileAttrDel
    <3> HIDE DEF found
    <3>3. QED
      BY <1>t, <3>1, <3>2
  <2>2. QED
    BY <1>4, <2>1, RemoveFileKeeps, RemoveTagKeeps DEF SysFileAttrDel
<1>5. CASE UNCHANGED attrVars
  BY <1>5 DEF attrVars, AttrInv, AttrTypeOK, AbsentIsEmpty, IndexMatches
<1>6. QED
  BY <1>1, <1>2, <1>3, <1>4, <1>5 DEF AttrNext

(* Whatever is set and deleted, the store keeps its invariant.             *)
THEOREM AttrInvariant == AttrSpec => []AttrInv
<1>1. AttrInit => AttrInv
  <2> SUFFICES ASSUME AttrInit PROVE AttrInv
    OBVIOUS
  <2>1. NoAttributes \in FileAttributes
    BY AttrMake DEF NoAttributes
  <2>2. AttrTypeOK
    BY <2>1 DEF AttrInit, AttrTypeOK, EmptyBag
  <2>3. AbsentIsEmpty
    BY DEF AttrInit, AbsentIsEmpty
  <2>4. IndexMatches
    BY AttrAssumption DEF AttrInit, IndexMatches, EmptyBag, NoAttributes
  <2>5. QED
    BY <2>2, <2>3, <2>4 DEF AttrInv
<1>2. QED
  BY <1>1, AttrStep, PTL DEF AttrSpec

(* The index and the full scan answer every query with a criterion alike.  *)
THEOREM IndexedEqualsScan == AttrSpec => []QueriesAgree
<1>1. AttrInv => QueriesAgree
  <2> SUFFICES ASSUME AttrInv, NEW tag \in Tags \cup {None}, NEW owner \in Values \cup {None},
                      NEW word \in Words \cup {EmptyWord, None},
                      tag # None \/ owner # None \/ word # None
               PROVE  QueryIndexed(tag, owner, word) = QueryFullScan(tag, owner, word)
    BY DEF QueriesAgree
  <2> DEFINE none    == [some |-> FALSE, bag |-> EmptyBag]
             byTag   == IF tag = None THEN none ELSE Intersect(none, indexTag[tag])
             byOwner == IF owner = None THEN byTag
                        ELSE Intersect(byTag, indexKv[Owner][owner])
             tagOk(f)   == tag # None => tag \in attrs[f].tags
             ownerOk(f) == owner # None => attrs[f].kv[Owner] = owner
             one(c)     == IF c THEN 1 ELSE 0
  <2>t. AttrTypeOK /\ AbsentIsEmpty /\ IndexMatches
    BY DEF AttrInv
  <2>1. tag # None => /\ byTag.some /\ byTag.bag = indexTag[tag]
                      /\ tag \in Tags /\ indexTag[tag] \in [Files -> Nat]
    BY <2>t DEF Intersect, AttrTypeOK
  <2>2. tag = None => byTag.some = FALSE
    OBVIOUS
  <2>3. tag # None => byTag.bag = [f \in Files |-> IF tagOk(f) THEN 1 ELSE 0]
    BY <2>t, <2>1 DEF IndexMatches
  <2>4. owner # None => /\ owner \in Values /\ indexKv[Owner][owner] \in [Files -> Nat]
                        /\ \A f \in Files : indexKv[Owner][owner][f] = IF ownerOk(f) THEN 1 ELSE 0
    BY <2>t, AttrAssumption DEF AttrTypeOK, IndexMatches
  <2> HIDE DEF byTag
  <2>5. tag # None \/ owner # None =>
          /\ byOwner.some
          /\ byOwner.bag = [f \in Files |-> IF tagOk(f) /\ ownerOk(f) THEN 1 ELSE 0]
    <3>1. CASE owner = None
      BY <2>1, <2>3, <3>1
    <3>2. CASE owner # None /\ tag = None
      BY <2>2, <2>4, <3>2 DEF Intersect
    <3>3. CASE owner # None /\ tag # None
      BY <2>1, <2>3, <2>4, <3>3 DEF Intersect
    <3>4. QED
      BY <3>1, <3>2, <3>3
  <2>6. tag = None /\ owner = None => byOwner.some = FALSE
    BY <2>2
  <2>7. \A f \in Files \ names : ~((tag # None \/ owner # None) /\ tagOk(f) /\ ownerOk(f))
    <3> SUFFICES ASSUME NEW f \in Files \ names
                 PROVE  /\ tag # None => tag \notin attrs[f].tags
                        /\ owner # None => attrs[f].kv[Owner] # owner
      OBVIOUS
    <3>1. attrs[f] = NoAttributes
      BY <2>t DEF AbsentIsEmpty
    <3>2. attrs[f].tags = {} /\ attrs[f].kv[Owner] = None
      BY <3>1, AttrAssumption DEF NoAttributes
    <3>3. QED
      BY <3>2
  <2> HIDE DEF byOwner
  <2>8. QueryIndexed(tag, owner, word) =
          IF word = None THEN byOwner.bag
          ELSE [f \in Files |-> IF f \in names /\ Contains(attrs[f].digest, word)
                                THEN (IF byOwner.some THEN byOwner.bag
                                      ELSE [g \in Files |-> IF g \in names THEN 1 ELSE 0])[f]
                                ELSE 0]
    BY DEF QueryIndexed, byOwner, byTag
  <2>9. CASE word = None
    BY <2>5, <2>7, <2>8, <2>9 DEF QueryFullScan
  <2>10. CASE word # None /\ (tag # None \/ owner # None)
    BY <2>5, <2>8, <2>10 DEF QueryFullScan
  <2>11. CASE word # None /\ tag = None /\ owner = None
    BY <2>6, <2>8, <2>11 DEF QueryFullScan
  <2>12. QED
    BY <2>9, <2>10, <2>11
<1>2. QED
  BY <1>1, AttrInvariant, PTL

(* sys_file_attr_del changes the store exactly when it broadcasts.         *)
LEMMA DelAnnounces ==
  ASSUME AttrInv, NEW f \in Files, NEW t \in Tags, SysFileAttrDel(f, t)
  PROVE  reply'.broadcast <=> <<names, attrs>>' # <<names, attrs>>
<1>1. AttrTypeOK /\ AbsentIsEmpty
  BY DEF AttrInv
<1>2. attrs \in [Files -> FileAttributes] /\ attrs[f] \in FileAttributes
  BY <1>1 DEF AttrTypeOK
<1>3. CASE t = EmptyTag
  <2>1. /\ reply'.broadcast <=> f \in names
        /\ names' = names \ {f} /\ attrs' = [attrs EXCEPT ![f] = NoAttributes]
    BY <1>3 DEF SysFileAttrDel, RemoveFile
  <2>2. ASSUME f \notin names PROVE names' = names /\ attrs' = attrs
    BY <1>1, <1>2, <2>1, <2>2 DEF AbsentIsEmpty
  <2>3. ASSUME f \in names PROVE names' # names
    BY <2>1, <2>3
  <2>4. QED
    BY <2>1, <2>2, <2>3
<1>4. CASE t # EmptyTag
  <2>1. /\ reply'.broadcast <=> t \in attrs[f].tags
        /\ names' = names
        /\ attrs' = [attrs EXCEPT ![f] = [attrs[f] EXCEPT !.tags = attrs[f].tags \ {t}]]
    BY <1>2, <1>4 DEF SysFileAttrDel, RemoveTag
  <2>2. [attrs[f] EXCEPT !.tags = attrs[f].tags \ {t}]
          = [kv |-> attrs[f].kv, tags |-> attrs[f].tags \ {t}, digest |-> attrs[f].digest]
    BY <1>2, AttrWith
  <2>3. ASSUME t \notin attrs[f].tags PROVE attrs' = attrs
    <3>1. attrs[f].tags \ {t} = attrs[f].tags
      BY <2>3
    <3>2. attrs[f] = [kv |-> attrs[f].kv, tags |-> attrs[f].tags, digest |-> attrs[f].digest]
      BY <1>2 DEF FileAttributes
    <3>3. QED
      BY <1>2, <2>1, <2>2, <3>1, <3>2
  <2>4. ASSUME t \in attrs[f].tags PROVE attrs' # attrs
    <3>1. attrs'[f].tags = attrs[f].tags \ {t}
      BY <1>2, <2>1, <2>2
    <3>2. QED
      BY <2>4, <3>1
  <2>5. QED
    BY <2>1, <2>3, <2>4
<1>5. QED
  BY <1>3, <1>4

(* Once the kernel has booted, every change of the attribute store is      *)
(* announced to the agents that watch files, and a deletion that changes   *)
(* nothing is not.                                                         *)
THEOREM EveryChangeIsAnnounced == AttrSpec => ChangesAnnounced
<1>1. ASSUME AttrInv, AttrNext PROVE AnnounceStep
  <2>1. ASSUME ~booting, <<names, attrs>>' # <<names, attrs>> PROVE reply'.broadcast
    <3>1. PICK f \in Files, t \in Tags : SysFileAttrSet(f, t) \/ SysFileAttrDel(f, t)
      BY <1>1, <2>1 DEF AttrNext, Boot, BootDone
    <3>2. CASE SysFileAttrSet(f, t)
      BY <3>2 DEF SysFileAttrSet
    <3>3. CASE SysFileAttrDel(f, t)
      BY <1>1, <2>1, <3>3, DelAnnounces
    <3>4. QED
      BY <3>1, <3>2, <3>3
  <2>2. ASSUME NEW f \in Files, NEW t \in Tags, SysFileAttrDel(f, t), reply'.broadcast
        PROVE  <<names, attrs>>' # <<names, attrs>>
    BY <1>1, <2>2, DelAnnounces
  <2>3. QED
    BY <2>1, <2>2 DEF AnnounceStep
<1>2. AttrInv /\ [AttrNext]_attrVars => [AnnounceStep]_attrVars
  BY <1>1
<1>3. QED
  BY <1>2, AttrInvariant, PTL DEF AttrSpec, ChangesAnnounced
===============================================================================
