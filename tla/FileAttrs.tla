------------------------------ MODULE FileAttrs -------------------------------
(***************************************************************************)
(* The file attribute store (os/src/agent/file_attr.rs): the attributes of *)
(* every file by name, two inverted indexes that must follow them, and the *)
(* two ways query_file answers a query, by index and by scanning.          *)
(*                                                                         *)
(* A Vec of file names in an index is a bag (how often each name is in     *)
(* it): its order is not looked at, duplicates would be.  An index entry   *)
(* that is absent and one that holds an empty Vec read the same, as do an  *)
(* absent file and default attributes, except for `names`.                 *)
(***************************************************************************)
EXTENDS Integers

CONSTANTS
    Files,     \* file names
    Keys,      \* attribute keys
    Owner,     \* the key "owner"
    Values,    \* attribute values
    Tags,      \* tags
    EmptyTag,  \* the tag "" (tag_len = 0)
    Words,     \* search words other than ""
    EmptyWord, \* the search word ""
    None       \* None of an Option

ASSUME AttrAssumption ==
    /\ Owner \in Keys
    /\ EmptyTag \in Tags
    /\ EmptyWord \notin Words
    /\ None \notin Values /\ None \notin Tags
    /\ None \notin Words /\ None # EmptyWord

VARIABLES
    names,     \* the keys of by_name
    attrs,     \* the FileAttrs of every file
    indexKv,   \* index_kv
    indexTag,  \* index_tag
    booting,   \* init_demo_attrs has not returned yet
    reply      \* history: the last system call and whether it broadcast

attrVars == <<names, attrs, indexKv, indexTag, booting, reply>>

(* A digest is the set of words it contains (memmem). *)
FileAttributes == [kv : [Keys -> Values \cup {None}], tags : SUBSET Tags,
                   digest : SUBSET Words]
NoAttributes == [kv |-> [k \in Keys |-> None], tags |-> {}, digest |-> {}]

EmptyBag == [f \in Files |-> 0]

AttrInit ==
    /\ names = {}
    /\ attrs = [f \in Files |-> NoAttributes]
    /\ indexKv = [k \in Keys |-> [v \in Values |-> EmptyBag]]
    /\ indexTag = [t \in Tags |-> EmptyBag]
    /\ booting = TRUE
    /\ reply = [call |-> "boot", broadcast |-> FALSE]

-------------------------------------------------------------------------------
(* if !entry.iter().any(|n| n == name) { entry.push(name) } *)
PushName(bag, f) == [bag EXCEPT ![f] = IF @ = 0 THEN 1 ELSE @]

(* v.retain(|x| x != name) *)
RetainOthers(bag, f) == [bag EXCEPT ![f] = 0]

(* Variant: the entry of the overwritten value stays. *)
SetKvKeepsOld(f, k, v) ==
    /\ names' = names \cup {f}
    /\ attrs' = [attrs EXCEPT ![f].kv[k] = v]
    /\ indexKv' = [indexKv EXCEPT ![k][v] = PushName(@, f)]
    /\ UNCHANGED indexTag

(* set_kv, and set_owner with the key Owner. *)
SetKv(f, k, v) ==
    /\ names' = names \cup {f}
    /\ attrs' = [attrs EXCEPT ![f].kv[k] = v]
    /\ indexKv' = [indexKv EXCEPT ![k] =
                    [w \in Values |->
                        LET kept == IF w = attrs[f].kv[k] THEN RetainOthers(@[w], f)
                                                          ELSE @[w]
                        IN  IF w = v THEN PushName(kept, f) ELSE kept]]
    /\ UNCHANGED indexTag

(* add_tag *)
AddTag(f, t) ==
    /\ names' = names \cup {f}
    /\ attrs' = [attrs EXCEPT ![f].tags = @ \cup {t}]
    /\ indexTag' = [indexTag EXCEPT ![t] = PushName(@, f)]
    /\ UNCHANGED indexKv

(* set_digest *)
SetDigest(f, d) ==
    /\ names' = names \cup {f}
    /\ attrs' = [attrs EXCEPT ![f].digest = d]
    /\ UNCHANGED <<indexKv, indexTag>>

(* remove_kv *)
RemoveKv(f, k) ==
    /\ attrs' = [attrs EXCEPT ![f].kv[k] = None]
    /\ indexKv' = [indexKv EXCEPT ![k] =
                    [w \in Values |-> IF w = attrs[f].kv[k]
                                      THEN RetainOthers(@[w], f) ELSE @[w]]]
    /\ UNCHANGED <<names, indexTag>>

(* remove_tag: the index is cleaned whether or not the file has the tag. *)
RemoveTag(f, t) ==
    /\ attrs' = [attrs EXCEPT ![f].tags = @ \ {t}]
    /\ indexTag' = [indexTag EXCEPT ![t] = RetainOthers(@, f)]
    /\ UNCHANGED <<names, indexKv>>

(* remove_file *)
RemoveFile(f) ==
    /\ names' = names \ {f}
    /\ attrs' = [attrs EXCEPT ![f] = NoAttributes]
    /\ indexKv' = [k \in Keys |-> [v \in Values |->
                    IF v = attrs[f].kv[k] THEN RetainOthers(indexKv[k][v], f)
                                          ELSE indexKv[k][v]]]
    /\ indexTag' = [t \in Tags |->
                    IF t \in attrs[f].tags THEN RetainOthers(indexTag[t], f)
                                           ELSE indexTag[t]]

-------------------------------------------------------------------------------
(* The operations the kernel itself may use while it boots (set_kv, set_digest *)
(* and add_tag in init_demo_attrs; remove_kv has no caller).                   *)
Boot ==
    /\ booting
    /\ \E f \in Files :
        \/ \E k \in Keys, v \in Values : SetKv(f, k, v)
        \/ \E t \in Tags : AddTag(f, t)
        \/ \E d \in SUBSET Words : SetDigest(f, d)
        \/ \E k \in Keys : RemoveKv(f, k)
    /\ UNCHANGED <<booting, reply>>

BootDone ==
    /\ booting
    /\ booting' = FALSE
    /\ UNCHANGED <<names, attrs, indexKv, indexTag, reply>>

(* sys_file_attr_set: broadcasts even if the file had the tag already. *)
SysFileAttrSet(f, t) ==
    /\ ~booting
    /\ AddTag(f, t)
    /\ reply' = [call |-> "set", broadcast |-> TRUE]
    /\ UNCHANGED booting

(* Variant: deleting a file without tags is not announced. *)
SysFileAttrDelQuiet(f, t) ==
    /\ ~booting
    /\ IF t = EmptyTag THEN RemoveFile(f) ELSE RemoveTag(f, t)
    /\ reply' = [call |-> "del",
                 broadcast |-> IF t = EmptyTag THEN attrs[f].tags # {}
                                               ELSE t \in attrs[f].tags]
    /\ UNCHANGED booting

(* sys_file_attr_del: an empty tag means the whole file.  Broadcasts and   *)
(* returns 1 if remove_file or remove_tag found something.                 *)
SysFileAttrDel(f, t) ==
    /\ ~booting
    /\ IF t = EmptyTag THEN RemoveFile(f) ELSE RemoveTag(f, t)
    /\ reply' = [call |-> "del",
                 broadcast |-> IF t = EmptyTag THEN f \in names
                                               ELSE t \in attrs[f].tags]
    /\ UNCHANGED booting

AttrNext ==
    \/ Boot
    \/ BootDone
    \/ \E f \in Files, t \in Tags : SysFileAttrSet(f, t) \/ SysFileAttrDel(f, t)

AttrSpec == AttrInit /\ [][AttrNext]_attrVars

-------------------------------------------------------------------------------
(* memmem: every digest contains the empty word. *)
Contains(digest, w) == w = EmptyWord \/ w \in digest

(* intersect *)
Intersect(prev, bag) ==
    IF prev.some
    THEN [some |-> TRUE, bag |-> [f \in Files |-> IF bag[f] > 0 THEN prev.bag[f] ELSE 0]]
    ELSE [some |-> TRUE, bag |-> bag]

(* Variant: an owner that nobody has leaves the candidates alone. *)
QueryIndexedLax(tag, owner, word) ==
    LET none    == [some |-> FALSE, bag |-> EmptyBag]
        byTag   == IF tag = None THEN none ELSE Intersect(none, indexTag[tag])
        byOwner == IF owner = None \/ indexKv[Owner][owner] = EmptyBag THEN byTag
                   ELSE Intersect(byTag, indexKv[Owner][owner])
        names0  == IF byOwner.some THEN byOwner.bag
                   ELSE [f \in Files |-> IF f \in names THEN 1 ELSE 0]
    IN  IF word = None THEN byOwner.bag
        ELSE [f \in Files |-> IF f \in names /\ Contains(attrs[f].digest, word)
                              THEN names0[f] ELSE 0]

(* query_indexed: the bag of the names it returns. *)
QueryIndexed(tag, owner, word) ==
    LET none    == [some |-> FALSE, bag |-> EmptyBag]
        byTag   == IF tag = None THEN none ELSE Intersect(none, indexTag[tag])
        byOwner == IF owner = None THEN byTag
                   ELSE Intersect(byTag, indexKv[Owner][owner])
        names0  == IF byOwner.some THEN byOwner.bag
                   ELSE [f \in Files |-> IF f \in names THEN 1 ELSE 0]
    IN  IF word = None THEN byOwner.bag
        ELSE [f \in Files |-> IF f \in names /\ Contains(attrs[f].digest, word)
                              THEN names0[f] ELSE 0]

(* query_full_scan *)
QueryFullScan(tag, owner, word) ==
    [f \in Files |->
        IF /\ f \in names
           /\ tag # None => tag \in attrs[f].tags
           /\ owner # None => attrs[f].kv[Owner] = owner
           /\ word # None => Contains(attrs[f].digest, word)
        THEN 1 ELSE 0]

-------------------------------------------------------------------------------
AttrTypeOK ==
    /\ names \in SUBSET Files
    /\ attrs \in [Files -> FileAttributes]
    /\ indexKv \in [Keys -> [Values -> [Files -> Nat]]]
    /\ indexTag \in [Tags -> [Files -> Nat]]
    /\ booting \in BOOLEAN
    /\ reply \in [call : {"boot", "set", "del"}, broadcast : BOOLEAN]

(* A file that by_name does not list has no attributes left anywhere. *)
AbsentIsEmpty == \A f \in Files \ names : attrs[f] = NoAttributes

(* The inverted indexes list a file under a tag or an attribute exactly    *)
(* once if it has it, and not at all otherwise: after any sequence of      *)
(* set_kv, add_tag, remove_tag, remove_kv and remove_file.                 *)
IndexMatches ==
    /\ \A t \in Tags, f \in Files :
        indexTag[t][f] = IF t \in attrs[f].tags THEN 1 ELSE 0
    /\ \A k \in Keys, v \in Values, f \in Files :
        indexKv[k][v][f] = IF v = attrs[f].kv[k] THEN 1 ELSE 0

AttrInv == AttrTypeOK /\ AbsentIsEmpty /\ IndexMatches

(* query_indexed and query_full_scan return the same names, each once, for *)
(* every query with at least one criterion.  (Without a criterion the      *)
(* index returns nothing and the scan everything.)                         *)
QueriesAgree ==
    \A tag \in Tags \cup {None}, owner \in Values \cup {None},
       word \in Words \cup {EmptyWord, None} :
        tag # None \/ owner # None \/ word # None
            => QueryIndexed(tag, owner, word) = QueryFullScan(tag, owner, word)

(* The system calls tell the agents that watch files of every change, and  *)
(* sys_file_attr_del of nothing but changes (os/src/syscall/agent.rs,      *)
(* "only broadcast when something was really deleted").                    *)
AnnounceStep ==
    /\ ~booting /\ <<names, attrs>>' # <<names, attrs>> => reply'.broadcast
    /\ \A f \in Files, t \in Tags :
        SysFileAttrDel(f, t) /\ reply'.broadcast => <<names, attrs>>' # <<names, attrs>>
ChangesAnnounced == [][AnnounceStep]_attrVars
===============================================================================
