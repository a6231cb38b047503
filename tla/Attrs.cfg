SPECIFICATION AttrSpec
CONSTANTS
    Files = {f1, f2}
    Keys = {owner, other}
    Owner = owner
    Values = {v1, v2}
    Tags = {t1, t2, empty}
    EmptyTag = empty
    Words = {w1}
    EmptyWord = w0
    None = none
INVARIANT AttrInv
INVARIANT QueriesAgree
PROPERTY ChangesAnnounced
