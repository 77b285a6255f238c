------------------------------ MODULE KvStore ------------------------------
(***************************************************************************)
(* Redis as the models use it.  A database maps keys to values; a key that *)
(* is not there has the empty value, for Redis drops a key with its last   *)
(* member.  A value is                                                     *)
(*   a sorted set   a function from members to scores                      *)
(*   a set          a set                                                  *)
(*   a JSON value   {} or {v}                                              *)
(*   a list         a sequence                                             *)
(* Members are integers, so that ties of a score have the order of their   *)
(* members.  The first half are the commands of db/kv/index on one value,  *)
(* the second the operations of RedisOps on a key of the database.         *)
(***************************************************************************)
EXTENDS FiniteSets, Integers, Sequences

NoBound == -1   \* an absent start, end or limit

(* The members of S in the order Before, and a page of a sequence.         *)
Sorted(S, Before(_, _)) ==
    [i \in 1..Cardinality(S) |->
        CHOOSE x \in S : Cardinality({y \in S : Before(y, x)}) = i - 1]
Least(a, b)  == IF a < b THEN a ELSE b
Page(s, skip, limit) == SubSeq(s, skip + 1, Least(skip + limit, Len(s)))
Members(s) == {s[i] : i \in 1..Len(s)}

-----------------------------------------------------------------------------
(* Sorted sets.                                                            *)
NoMembers == [m \in {} |-> 0]
ZAdd(z, entries) ==
    [m \in DOMAIN z \cup DOMAIN entries |->
        IF m \in DOMAIN entries THEN entries[m] ELSE z[m]]
ZIncr(z, m, delta) == ZAdd(z, [x \in {m} |-> delta + IF m \in DOMAIN z THEN z[m] ELSE 0])
ZRem(z, ms) == [m \in DOMAIN z \ ms |-> z[m]]
(* One script: the old members go, and no items at all remove the key.     *)
ZReplace(entries) == entries
ZScore(z, m) == IF m \in DOMAIN z THEN {z[m]} ELSE {}
ZCardAndMembers(z, ms) == <<Cardinality(DOMAIN z), [m \in ms |-> ZScore(z, m)]>>

Ascending(z, a, b) == z[a] < z[b] \/ (z[a] = z[b] /\ a < b)
ZRange(z, min, max, skip, limit, order) ==
    LET within == {m \in DOMAIN z : (min = NoBound \/ z[m] >= min) /\ (max = NoBound \/ z[m] <= max)}
        Up(a, b)   == Ascending(z, a, b)
        Down(a, b) == Ascending(z, b, a)
    IN Page(IF order = "asc" THEN Sorted(within, Up) ELSE Sorted(within, Down), skip,
            IF limit = NoBound THEN 1000 ELSE limit)

(* All scores are equal here, and the range is one of members.             *)
ZLexRange(z, min, max, skip, limit) ==
    LET Up(a, b) == a < b
    IN Page(Sorted({m \in DOMAIN z : min <= m /\ m < max}, Up), skip, limit)

(* The score of a member becomes the size of a set; the guard removes it.  *)
ZFromCardinality(z, set, m, removed) ==
    IF set = {} \/ removed THEN ZRem(z, {m}) ELSE ZAdd(z, [x \in {m} |-> Cardinality(set)])

(* Sets.  A scan has no order: a page is any part of the right size.       *)
SAdd(s, vs) == s \cup vs
SRem(s, vs) == s \ vs
SPages(s, skip, limit) ==
    LET left == Cardinality(s) - skip
        n    == IF left < 0 THEN 0 ELSE Least(left, limit)
    IN {t \in SUBSET s : Cardinality(t) = n}
SCheck(s, m) == <<s # {}, m \in s>>
(* The set with its whole size, whether member is in it; {} is a miss.     *)
STruncated(s, member, limit) ==
    IF s = {} THEN {}
    ELSE {[some |-> t, size |-> Cardinality(s), has |-> member \in s] :
              t \in {t \in SUBSET s : Cardinality(t) = Least(limit, Cardinality(s))}}
SRandom(s, n) == {t \in SUBSET s : Cardinality(t) = Least(n, Cardinality(s))}

(* JSON values and lists.                                                  *)
JSet(v)   == {v}
JDel      == {}
LPush(l, vs) == l \o vs
LRange(l, skip, limit) == IF limit = 0 THEN <<>> ELSE Page(l, skip, limit)

(* FT.SEARCH over the details of posts: matches is what the text finds;    *)
(* nothing to look for, or nobody to look at, finds nothing.               *)
BuildFtQuery(text, authors, anyAuthor) == text # {} /\ (anyAuthor \/ authors # {})
FtSearch(matches, text, authors, anyAuthor, kinds, authorOf, kindOf, skip, limit) ==
    LET found == {p \in matches : (anyAuthor \/ authorOf[p] \in authors) /\ kindOf[p] \in kinds}
        Up(a, b) == a < b
    IN IF BuildFtQuery(text, authors, anyAuthor) THEN Page(Sorted(found, Up), skip, limit) ELSE <<>>

-----------------------------------------------------------------------------
(* RedisOps.                                                               *)
PutIndexJson(db, key, v)        == [db EXCEPT ![key] = JSet(v)]
TryFromIndexJson(db, key)       == db[key]
TryFromIndexMultipleJson(db, keys) == [k \in keys |-> TryFromIndexJson(db, k)]
PutMultipleJson(db, entries)    ==
    [k \in DOMAIN db |-> IF k \in DOMAIN entries THEN JSet(entries[k]) ELSE db[k]]
RemoveMultipleJson(db, keys)    == [k \in DOMAIN db |-> IF k \in keys THEN JDel ELSE db[k]]
PutIndexList(db, key, vs)       == [db EXCEPT ![key] = LPush(@, vs)]
TryFromIndexList(db, key, skip, limit) == LRange(db[key], skip, limit)

PutIndexSet(db, key, vs)        == [db EXCEPT ![key] = SAdd(@, vs)]
RemoveFromIndexSet(db, key, vs) == [db EXCEPT ![key] = SRem(@, vs)]
TryFromIndexSet(db, key, skip, limit) == SPages(db[key], skip, limit)
CheckSetMember(db, key, m)      == SCheck(db[key], m)
CheckSetMemberMultiple(db, keys, m) == [k \in keys |-> CheckSetMember(db, k, m)]
TryFromMultipleSets(db, keys, m, limit) == [k \in keys |-> STruncated(db[k], m, limit)]
PutMultipleSets(db, sets)       ==
    [k \in DOMAIN db |-> IF k \in DOMAIN sets THEN SAdd(db[k], sets[k]) ELSE db[k]]
TryGetRandomFromIndexSet(db, key, n) == SRandom(db[key], n)

CheckSortedSetMember(db, key, m)  == ZScore(db[key], m)
PutIndexSortedSet(db, key, entries)     == [db EXCEPT ![key] = ZAdd(@, entries)]
ReplaceIndexSortedSet(db, key, entries) == [db EXCEPT ![key] = ZReplace(entries)]
CardAndMembers(db, key, ms)             == ZCardAndMembers(db[key], ms)
PutScoreIndexSortedSet(db, key, m, n)   == [db EXCEPT ![key] = ZIncr(@, m, n)]
PutCardinalityIndexSortedSet(db, setKey, key, m, removed) ==
    [db EXCEPT ![key] = ZFromCardinality(@, db[setKey], m, removed)]
RemoveFromIndexSortedSet(db, key, ms)   == [db EXCEPT ![key] = ZRem(@, ms)]

(* start is the upper bound and end the lower one, in either order.        *)
TryFromIndexSortedSet(db, key, start, end, skip, limit, order) ==
    ZRange(db[key], end, start, skip, limit, order)
TryFromIndexSortedSetLex(db, key, min, max, skip, limit) ==
    ZLexRange(db[key], min, max, skip, limit)
=============================================================================
