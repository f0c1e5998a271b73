------------------------------ MODULE KvStore ------------------------------
(***************************************************************************)
(* The store of the device emulator (emulator/src/kv_emulator.cpp behind   *)
(* kv_namespace.cpp): an ordered map per key space, the count of available *)
(* bytes, and the table of open iterators.  The worker thread executes one *)
(* command at a time (io_cmd::execute_cmd), so an operation is one step.   *)
(* Sizes are in units: a leading byte, a byte after it, a value byte, and  *)
(* a length field each take one.                                           *)
(***************************************************************************)
EXTENDS KeyOrder, Integers, FiniteSets, FiniteSetsExt

CONSTANTS
    Spaces,    \* the key spaces
    Keys,      \* the keys used, a subset of Key
    ValLens,   \* the lengths of values
    Options,   \* the store options used: "default", "idempotent"
    Kinds,     \* the iterator options used: "key", "kv", "kvdel"
    Conds,     \* the group conditions used: m leading bytes, equal to pat's
    MaxIter,   \* SAMSUNG_MAX_ITERATORS
    BufSize,   \* iter_list->size
    Capacity,  \* m_capacity
    Word,      \* 2^64: arithmetic on m_available is modulo this
    None       \* no iterator

\* _kv_iterator_handle, and the history of a scan (Fresh).
Iterators == [ks : Spaces, kind : Kinds, m : 0..Lead, pat : Leads, pos : Key]
Scans == [seen : SUBSET Key, repeat : BOOLEAN, ended : BOOLEAN, stable : SUBSET Key]

ASSUME StoreAssumption ==
    /\ Keys \subseteq Key /\ ValLens \subseteq Nat
    /\ Conds \subseteq [m : 0..Lead, pat : Leads]
    /\ Options \subseteq {"default", "idempotent"}
    /\ Kinds \subseteq {"key", "kv", "kvdel"}
    /\ MaxIter \in Nat \ {0} /\ BufSize \in Nat /\ Capacity \in Nat /\ Word \in Nat
    /\ Capacity < Word
    /\ None \notin Iterators /\ None \notin Scans

VARIABLES
    map,    \* map[s]: the function from the keys of space s to value lengths
    avail,  \* m_available
    iters,  \* m_it_map: iterator id -> _kv_iterator_handle
    info,   \* m_iterator_list
    scan,   \* history of each open iterator: see Fresh
    resp    \* the last answer: operation, return code, iterator, keys

vars == <<map, avail, iters, info, scan, resp>>

Ids == 1..MaxIter
Empty == [k \in {} |-> 0]
Closed == [status |-> 0, ks |-> None, m |-> 0, pat |-> None, eof |-> 0]
Answer(op, ret) == [op |-> op, ret |-> ret, it |-> 0, keys |-> {}]

Init == /\ map = [s \in Spaces |-> Empty]
        /\ avail = Capacity
        /\ iters = [i \in Ids |-> None]
        /\ info = [i \in Ids |-> Closed]
        /\ scan = [i \in Ids |-> None]
        /\ resp = Answer("none", "ok")

Open == {i \in Ids : iters[i] # None}
KeyLen(k) == Lead + k.ext
PairLen(s, k) == KeyLen(k) + map[s][k]

\* The units that the pairs at P, a set of places <<space, key>>, take up; their number
\* is the sum of the lengths.
Units(P) == UNION {{p} \X (1..PairLen(p[1], p[2])) : p \in P}

\* What a scan has returned and what it must return: the keys of its group
\* that have been in the map ever since it was opened.
Fresh(s, mask, pat) ==
    [seen |-> {}, repeat |-> FALSE, ended |-> FALSE,
     stable |-> {k \in DOMAIN map[s] : Matches(k, mask, pat)}]

\* The histories once the map has become m.
Tracked(m) == [i \in Ids |-> IF scan[i] = None THEN None
    ELSE [scan[i] EXCEPT !.stable = @ \cap DOMAIN m[iters[i].ks]]]

SetMap(m) == map' = m /\ scan' = Tracked(m)
Without(f, S) == [k \in DOMAIN f \ S |-> f[k]]

(***************************************************************************)
(* kv_store, kv_delete, kv_purge, kv_delete_group.                         *)
(***************************************************************************)
Full(need) == Capacity <= 0 /\ avail < need

\* What a store takes from m_available; an overwrite adds the old length.
Charge(s, k, v) == IF k \in DOMAIN map[s] THEN v + map[s][k] ELSE KeyLen(k) + v

Store(s, k, v, opt) ==
    LET exists == k \in DOMAIN map[s] IN
    IF Full(v + KeyLen(k)) \/ (exists /\ opt = "idempotent")
    THEN /\ resp' = Answer("store", IF exists THEN "exist" ELSE "capacity")
         /\ UNCHANGED <<map, avail, scan, iters, info>>
    ELSE /\ SetMap([map EXCEPT ![s] = [q \in DOMAIN @ \cup {k} |->
                                          IF q = k THEN v ELSE @[q]]])
         /\ avail' = (avail - Charge(s, k, v)) % Word
         /\ resp' = Answer("store", "ok")
         /\ UNCHANGED <<iters, info>>

\* Mutant: the length of the key is not given back.
DeleteValueOnly(s, k, strict) ==
    /\ k \in DOMAIN map[s]
    /\ SetMap([map EXCEPT ![s] = Without(@, {k})])
    /\ avail' = (avail + map[s][k]) % Word
    /\ resp' = Answer("delete", "ok")
    /\ UNCHANGED <<iters, info>>

\* strict: KV_DELETE_OPT_ERROR.
Delete(s, k, strict) ==
    IF k \in DOMAIN map[s]
    THEN /\ SetMap([map EXCEPT ![s] = Without(@, {k})])
         /\ avail' = (avail + PairLen(s, k)) % Word
         /\ resp' = Answer("delete", "ok")
         /\ UNCHANGED <<iters, info>>
    ELSE /\ resp' = Answer("delete", IF strict THEN "notexist" ELSE "ok")
         /\ UNCHANGED <<map, avail, scan, iters, info>>

Purge(s) == /\ SetMap([map EXCEPT ![s] = Empty])
            /\ avail' = Capacity
            /\ resp' = Answer("purge", "ok")
            /\ UNCHANGED <<iters, info>>

\* The keys of space s from the key low on: lower_bound, and what follows it.
From(s, low) == {k \in DOMAIN map[s] : ~Less(k, low)}

\* The first of a set of keys, and those before the key k.
Least(S) == CHOOSE k \in S : \A q \in S : ~Less(q, k)
Before(S, k) == {q \in S : Less(q, k)}

\* A walk over the keys S in their order, up to the first at which P fails.
Walk(S, P(_)) == {k \in S : \A q \in S : ~Less(k, q) => P(q)}

\* ((prefix & bitmask) & bit_pattern) != to_match: bits beyond the pattern's
\* are not looked at, and the walk ends at the first key that does not match.
GroupKeys(s, mask, pat) ==
    LET Hit(k) == \A i \in mask : pat[i] = 1 => k.lead[i] = 1
    IN Walk(From(s, MinKey(mask, pat)), Hit)

\* kv_delete_group hands the condition on as it is.
DeleteGroup(s, c) ==
    LET gone == GroupKeys(s, BackMask(c.m), Reversed(c.pat)) IN
    /\ SetMap([map EXCEPT ![s] = Without(@, gone)])
    /\ avail' = (avail + Cardinality(Units({s} \X gone))) % Word
    /\ resp' = [Answer("group", "ok") EXCEPT !.keys = gone]
    /\ UNCHANGED <<iters, info>>

(***************************************************************************)
(* Iterators.                                                              *)
(***************************************************************************)

\* The open entries of m_iterator_list with this condition, in any key space.
SameGroup(c) == {i \in Ids : info[i].status = 1 /\ info[i].m = c.m /\ info[i].pat = c.pat}

\* The lowest id that m_it_map does not hold.
FreeId == CHOOSE i \in Ids \ Open : \A j \in Ids \ Open : i <= j

OpenIterator(s, kind, c) ==
    IF Open = Ids \/ SameGroup(c) # {}
    THEN /\ resp' = Answer("open", IF Open = Ids THEN "toomany" ELSE "already")
         /\ UNCHANGED <<map, avail, iters, info, scan>>
    ELSE /\ iters' = [iters EXCEPT ![FreeId] =
                [ks |-> s, kind |-> kind, m |-> c.m, pat |-> c.pat,
                 pos |-> MinKey(FrontMask(c.m), c.pat)]]
         /\ info' = [info EXCEPT ![FreeId] =
                [status |-> 1, ks |-> s, m |-> c.m, pat |-> c.pat, eof |-> 0]]
         /\ scan' = [scan EXCEPT ![FreeId] = Fresh(s, FrontMask(c.m), c.pat)]
         /\ resp' = [Answer("open", "ok") EXCEPT !.it = FreeId]
         /\ UNCHANGED <<map, avail>>

\* Mutant: the map entry goes, the table entry stays.
CloseMapOnly(i) ==
    /\ iters' = [iters EXCEPT ![i] = None]
    /\ scan' = [scan EXCEPT ![i] = None]
    /\ resp' = Answer("close", "ok")
    /\ UNCHANGED <<map, avail, info>>

\* An id that is not open is closed with success.
CloseIterator(i) ==
    /\ iters' = [iters EXCEPT ![i] = None]
    /\ info' = [info EXCEPT ![i].status = 0]
    /\ scan' = [scan EXCEPT ![i] = None]
    /\ resp' = [Answer("close", "ok") EXCEPT !.it = i]
    /\ UNCHANGED <<map, avail>>

EntrySize(it, k) ==
    KeyLen(k) + 1 + (IF it.kind = "key" THEN 0 ELSE map[it.ks][k] + 1)

\* buffer_pos when the entries of the keys S have been put into the buffer.
Size(it, S) == FoldSet(LAMBDA k, n : n + EntrySize(it, k), 0, S)

\* The keys that kv_iterator_next_set puts into the buffer: up to the first that is
\* outside the group or does not fit.
Batch(it, rest) ==
    Walk(rest, LAMBDA k : /\ Matches(k, FrontMask(it.m), it.pat)
                          /\ Size(it, Before(rest, k)) + EntrySize(it, k) <= BufSize)

\* Mutant: the key the buffer had no room for is passed over.
ResumeAfter(got, left) == IF left = {Least(left)} THEN Least(left) ELSE Least(left \ {Least(left)})

\* Mutant: the next call starts at the last key returned.
ResumeAtLast(got, left) == IF got = {} THEN Least(left)
                           ELSE CHOOSE k \in got : \A q \in got : ~Less(k, q)

\* Where the next call starts when the buffer is full.
Resume(got, left) == Least(left)

NextSet(i) ==
    LET it == iters[i]
        rest == From(it.ks, it.pos)
        got == Batch(it, rest)
        left == rest \ got
        more == left # {} /\ Matches(Least(left), FrontMask(it.m), it.pat)
        m == IF it.kind = "kvdel" THEN [map EXCEPT ![it.ks] = Without(@, got)] ELSE map
    IN
    /\ i \in Open
    /\ map' = m
    /\ iters' = IF more THEN [iters EXCEPT ![i].pos = Resume(got, left)] ELSE iters
    /\ info' = [info EXCEPT ![i].eof = IF more THEN 0 ELSE 1]
    /\ scan' = [Tracked(m) EXCEPT
                   ![i].seen = @ \cup got,
                   ![i].repeat = @ \/ (~scan[i].ended /\ got \cap scan[i].seen # {}),
                   ![i].ended = @ \/ ~more]
    /\ resp' = [op |-> "next", ret |-> "ok", it |-> i, keys |-> got]
    /\ UNCHANGED avail

\* A next on an id that is not open.
NextClosed(i) == /\ i \notin Open
                 /\ resp' = [Answer("next", "notexist") EXCEPT !.it = i]
                 /\ UNCHANGED <<map, avail, iters, info, scan>>

\* What the worker may be asked to do, by key spaces, keys, options and conditions.
Write(spaces, keys, lens, opts) == \E s \in spaces, k \in keys :
    \/ \E v \in lens, opt \in opts : Store(s, k, v, opt)
    \/ \E strict \in BOOLEAN : Delete(s, k, strict)

Bulk(spaces, conds) == \E s \in spaces : Purge(s) \/ \E c \in conds : DeleteGroup(s, c)

Iterate(spaces, kinds, conds) ==
    \/ \E s \in spaces, kind \in kinds, c \in conds : OpenIterator(s, kind, c)
    \/ \E i \in Ids : CloseIterator(i) \/ NextSet(i) \/ NextClosed(i)

Next == \/ Write(Spaces, Keys, ValLens, Options)
        \/ Bulk(Spaces, Conds)
        \/ Iterate(Spaces, Kinds, Conds)

Spec == Init /\ [][Next]_vars

\* The operations on the space s that count every byte: no pair is overwritten.
Counted(s, keys, lens, conds) ==
    \/ Write({s}, keys, lens, Options \cap {"idempotent"})
    \/ Bulk({s}, conds)

(***************************************************************************)
(* Properties.                                                             *)
(***************************************************************************)

\* kv_iterator_next_set: a scan that has reported its end has returned every
\* key of its group that was in the key space all the time, whatever was stored
\* and deleted between its calls and however small the buffer.
ScanComplete == \A i \in Open : scan[i].ended => scan[i].stable \subseteq scan[i].seen

\* m_iterator_list, which decides whether a group may be opened, tells the same
\* story as m_it_map, which decides what a scan does.
TableMatches ==
    /\ \A i \in Ids : i \in Open <=> info[i].status = 1
    /\ \A i \in Open : iters[i].ks = info[i].ks /\ iters[i].m = info[i].m /\ iters[i].pat = info[i].pat
    /\ \A i, j \in Open : info[i].m = info[j].m /\ info[i].pat = info[j].pat => i = j

\* The places of all pairs.
Stored == UNION {{s} \X DOMAIN map[s] : s \in Spaces}

\* m_available is what the capacity leaves beside the pairs in the maps.
AvailableExact == avail = (Capacity - Cardinality(Units(Stored))) % Word

\* The scan stands at a pair that is larger than the buffer, and stays there: the
\* call returns nothing and does not report the end.
Stuck(i) == /\ iters[i].pos \in DOMAIN map[iters[i].ks]
            /\ EntrySize(iters[i], iters[i].pos) > BufSize
            /\ resp'.keys = {} /\ iters'[i].pos = iters[i].pos

\* Every call of kv_iterator_next_set reports the end, or moves the position
\* strictly up the order of the keys, whatever was stored or deleted since the last
\* one, and returns no key a second time: the number of possible keys bounds the
\* calls of a scan.  The one thing that holds a scan up is a pair at its position
\* whose entry alone exceeds the caller's buffer.
ScanAdvances == [][\A i \in Open : resp'.op = "next" /\ resp'.it = i =>
    /\ info'[i].eof = 1 \/ Less(iters[i].pos, iters'[i].pos) \/ Stuck(i)
    /\ ~scan'[i].repeat]_vars

============================================================================
