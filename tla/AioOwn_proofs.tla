--------------------------- MODULE AioOwn_proofs ---------------------------
(***************************************************************************)
(* Proof about the owners of the kaiocbs of AioTable: until the ids wrap,  *)
(* a process fetches events of its own commands only.                      *)
(***************************************************************************)
EXTENDS AioEvents_proofs

\* Most steps are first-order, so Zenon is tried first; a step that needs more cites SMT.
USE ZenonT(10), SMTT(20)

(***************************************************************************)
(* Whose events a process fetches.  A copy to the user may fail here, so   *)
(* that the counts need not be exact: no count is below the number of      *)
(* holders, until the ids wrap.                                            *)
(***************************************************************************)
Counted == \A c \in Ctxs : Cardinality(Holders(c)) <= ref[c]

\* A context in the table is live, with the id of its slot, or leaked by a failed copy.
Entered == /\ \A i \in Ids : tb[i] # None /\ ~Clearing(i) => mem[tb[i]] \in {"live", "leaked"}
           /\ \A i \in Ids : tb[i] # None /\ mem[tb[i]] = "live" => uid[tb[i]] = i

\* One whose id was not yet told is live, and no lookup has found it.
Unfound == /\ \A p \in Procs : pc[p] = "copy" => mem[at[p]] = "live"
           /\ \A a \in Actors, p \in Procs : Using(a) /\ pc[p] = "copy" => at[p] # at[a]

Core == Counted /\ LiveUse /\ Entered /\ NewOnes /\ Deleting /\ Unfound

\* Slot i was given to a context since the module was loaded.
Given(i) == i \in Ids \ {0} /\ (nextId = 0 \/ i < nextId)

\* Every id that is about was given before, and is of one process.
Fresh == /\ \A i \in Ids : tb[i] # None => Given(i)
         /\ \A p \in Procs : mine[p] # None => Given(mine[p])
         /\ \A k \in Cmds : cmd[k].st # "idle" => Given(cmd[k].id)
         /\ \A p \in Procs : pc[p] = "copy" => Given(uid[at[p]])
         /\ \A p, q \in Procs : mine[p] # None /\ mine[p] = mine[q] => p = q
         /\ \A p, q \in Procs : pc[p] = "copy" /\ mine[q] # None => uid[at[p]] # mine[q]
         /\ \A p, q \in Procs : pc[p] = "copy" /\ pc[q] = "copy" /\ uid[at[p]] = uid[at[q]] => p = q
         /\ \A p \in Procs, k \in Cmds : cmd[k].st # "idle" /\ cmd[k].id = mine[p] => cmd[k].by = p
         /\ \A p \in Procs, k \in Cmds : cmd[k].st # "idle" /\ pc[p] = "copy" => cmd[k].id # uid[at[p]]

\* A lookup is on the context it asked for; a list holds commands of its context, the
\* hand of a process its own.
Owned == /\ \A p \in Procs : pc[p] \in {"found", "held"} => uid[at[p]] = mine[p]
         /\ \A w \in Workers : pc[w] \in {"found", "held"} => \A k \in Range(hand[w]) : cmd[k].id = uid[at[w]]
         /\ \A c \in Ctxs : \A k \in Range(list[c]) : cmd[k].id = uid[c]
         /\ \A p \in Procs : \A k \in Range(hand[p]) : cmd[k].by = p

\* No kaiocb is handed out anew, and none changes its id or its process.
Same == \A k \in Cmds : cmd'[k].st # "idle" =>
            cmd[k].st # "idle" /\ cmd'[k].id = cmd[k].id /\ cmd'[k].by = cmd[k].by

\* Freeing kaiocbs, dropping a reference and moving kaiocbs in use are such steps.
LEMMA SameSteps ==
    ASSUME Types
    PROVE  /\ \A ks : Release(ks) => Same
           /\ \A ks : \A st \in {"held", "listed"} : Move(ks, st) /\ (\A k \in Cmds : k \in ks => cmd[k].st # "idle") => Same
           /\ \A c \in Ctxs : Deref(c) => Same
           /\ UNCHANGED cmd => Same
<1>1. ASSUME NEW ks, Release(ks) PROVE Same
    BY <1>1, ReleaseSays DEF Same
<1>2. ASSUME NEW ks, NEW st \in {"held", "listed"}, Move(ks, st), \A k \in Cmds : k \in ks => cmd[k].st # "idle"
      PROVE  Same
    BY <1>2, MoveSays DEF Same
<1> ASSUME NEW c \in Ctxs, Deref(c) PROVE Same
    <2> CASE ref[c] = 1
        BY DerefSays DEF Same
    <2> CASE ref[c] # 1
        BY DerefSays DEF Same
    <2> QED OBVIOUS
<1>3. UNCHANGED cmd => Same
    BY DEF Same
<1> QED BY <1>1, <1>2, <1>3

\* A step that gives no reference and enters no context, for what it leaves alone.
LEMMA CoreKept ==
    ASSUME Types, Core, UNCHANGED <<ref, uid>>, DOMAIN tb' = DOMAIN tb,
           \A i \in Ids : tb'[i] = tb[i] \/ tb'[i] = None,
           \A i \in Ids : Clearing(i) => Clearing(i)' \/ tb'[i] = None,
           \A b \in Actors : pc'[b] \in {"held", "put"} => pc[b] \in {"held", "put"} /\ at'[b] = at[b],
           \A c \in Ctxs : mem'[c] = mem[c] \/ mem'[c] = "leaked" \/ (mem[c] = "free" /\ mem'[c] = "new"),
           LiveUse', NewOnes', Deleting', Unfound'
    PROVE  Core'
<1>1. Ids' = Ids /\ ref \in [Ctxs -> Int] /\ \A i \in Ids : tb[i] \in Ctxs \cup {None}
    BY TypesSay DEF Ids
<1>2. ASSUME NEW c \in Ctxs PROVE Cardinality(Holders(c)') <= ref'[c]
    <2>1. None \notin Ctxs
        BY SlotsNoActors
    <2>2. Holders(c)' \subseteq Holders(c)
        BY <1>1, <2>1 DEF Holders
    <2>3. IsFiniteSet(Holders(c))
        BY HoldersFinite
    <2>4. /\ Cardinality(Holders(c)') <= Cardinality(Holders(c))
          /\ Cardinality(Holders(c)') \in Nat /\ Cardinality(Holders(c)) \in Nat
        BY <2>2, <2>3, FS_Subset, FS_CardinalityType
    <2>5. Cardinality(Holders(c)) <= ref[c] /\ ref'[c] = ref[c]
        BY DEF Core, Counted
    <2> QED BY <1>1, <2>4, <2>5, SMTT(20)
<1>3. ASSUME NEW i \in Ids, tb'[i] # None
      PROVE  /\ ~Clearing(i)' => mem'[tb'[i]] \in {"live", "leaked"}
             /\ mem'[tb'[i]] = "live" => uid'[tb'[i]] = i
    <2> tb'[i] = tb[i] /\ tb[i] \in Ctxs /\ (Clearing(i) => Clearing(i)')
        BY <1>1, <1>3
    <2> PICK c \in Ctxs : c = tb[i]
        OBVIOUS
    <2>1. /\ ~Clearing(i) => mem[c] \in {"live", "leaked"}
          /\ mem[c] = "live" => uid[c] = i
        BY <1>3 DEF Core, Entered
    <2>2. mem'[c] = mem[c] \/ mem'[c] = "leaked" \/ (mem[c] = "free" /\ mem'[c] = "new")
        OBVIOUS
    <2>3. /\ ~Clearing(i)' => mem'[c] \in {"live", "leaked"}
          /\ mem'[c] = "live" => uid'[c] = i
        BY <2>1, <2>2
    <2> QED BY <2>3
<1>4. Counted' /\ Entered'
    BY <1>1, <1>2, <1>3 DEF Counted, Entered
<1> QED BY <1>4 DEF Core

\* A step that hands out no id, for every id that it leaves alone.
LEMMA FreshKept ==
    ASSUME Fresh, Same, UNCHANGED nextId, DOMAIN tb' = DOMAIN tb,
           \A i \in Ids : tb'[i] # None => tb[i] # None,
           \A p \in Procs : mine'[p] # None => mine'[p] = mine[p],
           \A p \in Procs : pc'[p] = "copy" => pc[p] = "copy" /\ uid'[at'[p]] = uid[at[p]],
           Types
    PROVE  Fresh'
<1>1. Ids' = Ids /\ None \notin Ids
    BY SlotsNoActors DEF Ids
<1>2. /\ \A i \in Ids' : tb'[i] # None => Given(i)'
      /\ \A p \in Procs : mine'[p] # None => Given(mine[p])'
    BY <1>1 DEF Fresh, Given
<1>3. \A k \in Cmds : cmd'[k].st # "idle" => Given(cmd[k].id)' /\ cmd'[k].id # None
    BY <1>1, SMTT(20) DEF Fresh, Same, Given
<1>4. \A p \in Procs : pc'[p] = "copy" => Given(uid[at[p]])'
    BY <1>1 DEF Fresh, Given
<1>5. \A p, q \in Procs : mine'[p] # None /\ mine'[p] = mine'[q] => p = q
    BY SMTT(20) DEF Fresh
<1>6. \A p, q \in Procs : pc'[p] = "copy" /\ mine'[q] # None => uid'[at'[p]] # mine'[q]
    BY SMTT(20) DEF Fresh
<1>7. \A p, q \in Procs : pc'[p] = "copy" /\ pc'[q] = "copy" /\ uid'[at'[p]] = uid'[at'[q]] => p = q
    BY SMTT(20) DEF Fresh
<1>8. \A p \in Procs, k \in Cmds : cmd'[k].st # "idle" /\ cmd'[k].id = mine'[p] => cmd'[k].by = p
    BY <1>3, SMTT(20) DEF Fresh, Same
<1>9. \A p \in Procs, k \in Cmds : cmd'[k].st # "idle" /\ pc'[p] = "copy" => cmd'[k].id # uid'[at'[p]]
    BY SMTT(20) DEF Fresh, Same
<1> QED BY <1>2, <1>3, <1>4, <1>5, <1>6, <1>7, <1>8, <1>9 DEF Fresh

\* A step that keeps the lookups, the lists and the hands of the processes, or leaves
\* less of them, except where it is known to be right.
LEMMA OwnedKept ==
    ASSUME Types, Spots, Spots', Owned,
           \A k \in Cmds : cmd[k].st # "idle" /\ cmd'[k].st # "idle" => cmd'[k].id = cmd[k].id /\ cmd'[k].by = cmd[k].by,
           \A p \in Procs : pc'[p] \in {"found", "held"} =>
               \/ uid'[at'[p]] = mine'[p]
               \/ pc[p] \in {"found", "held"} /\ uid'[at'[p]] = uid[at[p]] /\ mine'[p] = mine[p],
           \A w \in Workers : pc'[w] \in {"found", "held"} =>
               \/ \A k \in Range(hand'[w]) : cmd'[k].id = uid'[at'[w]]
               \/ pc[w] \in {"found", "held"} /\ uid'[at'[w]] = uid[at[w]] /\ hand'[w] = hand[w],
           \A c \in Ctxs : \A k \in Range(list'[c]) :
               cmd'[k].id = uid'[c] \/ (k \in Range(list[c]) /\ uid'[c] = uid[c]),
           \A p \in Procs : \A k \in Range(hand'[p]) : cmd'[k].by = p \/ k \in Range(hand[p])
    PROVE  Owned'
<1>1. Procs \subseteq Actors /\ Workers \subseteq Actors
    BY DEF Actors
<1>2. ASSUME NEW a \in Actors, NEW k \in Range(hand[a]), k \in Range(hand'[a])
      PROVE  cmd'[k].id = cmd[k].id /\ cmd'[k].by = cmd[k].by
    <2>1. k \in Cmds
        BY SpotTypes
    <2>2. cmd[k].st = "held" /\ cmd'[k].st = "held"
        BY <1>2 DEF Spots
    <2> QED BY <2>1, <2>2
<1>3. ASSUME NEW c \in Ctxs, NEW k \in Range(list[c]), k \in Range(list'[c])
      PROVE  cmd'[k].id = cmd[k].id
    <2>1. k \in Cmds
        BY SpotTypes
    <2>2. cmd[k].st = "listed" /\ cmd'[k].st = "listed"
        BY <1>3 DEF Spots
    <2> QED BY <2>1, <2>2
<1>4. \A p \in Procs : pc'[p] \in {"found", "held"} => uid'[at'[p]] = mine'[p]
    BY SMTT(20) DEF Owned
<1>5. \A w \in Workers : pc'[w] \in {"found", "held"} => \A k \in Range(hand'[w]) : cmd'[k].id = uid'[at'[w]]
    BY <1>1, <1>2, SMTT(20) DEF Owned
<1>6. \A c \in Ctxs : \A k \in Range(list'[c]) : cmd'[k].id = uid'[c]
    BY <1>3, SMTT(20) DEF Owned
<1>7. \A p \in Procs : \A k \in Range(hand'[p]) : cmd'[k].by = p
    BY <1>1, <1>2, SMTT(20) DEF Owned
<1> QED BY <1>4, <1>5, <1>6, <1>7 DEF Owned

\* Where the actors are after one of them moved.
LEMMA GotoSays ==
    ASSUME Types, NEW a \in Actors, NEW where, NEW c, Goto(a, where, c)
    PROVE  /\ pc'[a] = where /\ at'[a] = c
           /\ \A b \in Actors : b # a => pc'[b] = pc[b] /\ at'[b] = at[b]
BY TypesSay DEF Goto

\* A call of process p that allocates, leaks or tells of a context, or forgets an id.
LEMMA ShiftCore ==
    ASSUME Types, Core, Fresh, NEW p \in Procs,
           pc[p] \in {"idle", "set", "copy"}, pc'[p] \in {"idle", "set"},
           \A b \in Actors : b # p => pc'[b] = pc[b] /\ at'[b] = at[b],
           \A q \in Procs : q # p => mine'[q] = mine[q],
           \A d \in Ctxs : \/ mem'[d] = mem[d]
                           \/ mem'[d] = "leaked" /\ (mem[d] = "free" \/ (pc[p] \in {"set", "copy"} /\ d = at[p]))
                           \/ mem[d] = "free" /\ mem'[d] = "new" /\ pc'[p] = "set" /\ at'[p] = d,
           pc'[p] = "set" => at'[p] \in Ctxs /\ mem[at'[p]] = "free" /\ mem'[at'[p]] = "new",
           UNCHANGED <<ref, uid>>, DOMAIN tb' = DOMAIN tb,
           \A i \in Ids : tb'[i] = tb[i] \/ tb'[i] = None,
           lock' = lock \/ lock = "free"
    PROVE  Core'
<1>1. /\ Procs \subseteq Actors /\ p \in Actors /\ Ids' = Ids
      /\ \A a \in Actors : pc[a] \in Somewhere => at[a] \in Ctxs
    BY TypesSay DEF Actors, Ids
<1>2. LiveUse'
    <2> SUFFICES ASSUME NEW a \in Actors, pc'[a] \in {"found", "held", "put"} PROVE mem'[at'[a]] = "live"
        BY DEF LiveUse, Using
    <2> a # p /\ pc'[a] = pc[a] /\ at'[a] = at[a] /\ mem[at[a]] = "live" /\ at[a] \in Ctxs
        BY <1>1 DEF Core, LiveUse, Using, Somewhere
    <2>1. pc[p] = "copy" => at[p] # at[a]
        BY DEF Core, Unfound, Using
    <2>2. pc[p] = "set" => mem[at[p]] = "new"
        BY DEF Core, NewOnes
    <2> QED BY <2>1, <2>2
<1>3. ASSUME NEW q \in Procs, q # p, pc[q] = "set" PROVE mem'[at[q]] = "new" /\ mem[at[q]] = "new" /\ at[q] \in Ctxs
    <2>1. mem[at[q]] = "new" /\ at[q] \in Ctxs /\ (pc[p] = "set" => at[p] # at[q] /\ mem[at[p]] = "new")
        BY <1>1, <1>3 DEF Core, NewOnes, Somewhere
    <2>2. pc[p] = "copy" => mem[at[p]] = "live"
        BY DEF Core, Unfound
    <2> QED BY <2>1, <2>2
<1>4. NewOnes'
    <2>1. \A q \in Procs : pc'[q] = "set" => mem'[at'[q]] = "new"
        BY <1>1, <1>3, SMTT(20)
    <2> ASSUME NEW q \in Procs, NEW r \in Procs, pc'[q] = "set", pc'[r] = "set", at'[q] = at'[r] PROVE q = r
        <3> CASE q # p /\ r # p
            BY <1>1, SMTT(20) DEF Core, NewOnes
        <3> CASE q = p /\ r # p
            BY <1>1, <1>3, SMTT(20)
        <3> CASE q # p /\ r = p
            BY <1>1, <1>3, SMTT(20)
        <3> QED OBVIOUS
    <2> QED BY <2>1 DEF NewOnes
<1>5. ASSUME NEW q \in Procs, pc'[q] = "copy"
      PROVE  q # p /\ pc[q] = "copy" /\ at'[q] = at[q] /\ mem'[at'[q]] = "live"
    <2> q # p /\ pc[q] = "copy" /\ at'[q] = at[q]
        BY <1>1, <1>5
    <2>1. mem[at[q]] = "live" /\ at[q] \in Ctxs
        BY <1>1 DEF Core, Unfound, Somewhere
    <2>2. pc[p] = "copy" => at[p] # at[q]
        BY DEF Fresh
    <2>3. pc[p] = "set" => mem[at[p]] = "new"
        BY DEF Core, NewOnes
    <2> QED BY <2>1, <2>2, <2>3
<1>6. Unfound'
    <2> ASSUME NEW a \in Actors, NEW q \in Procs, pc'[a] \in {"found", "held", "put"}, pc'[q] = "copy"
        PROVE  at'[q] # at'[a]
        <3>1. a # p
            OBVIOUS
        <3>2. pc'[a] = pc[a] /\ at'[a] = at[a] /\ pc[q] = "copy" /\ at'[q] = at[q]
            BY <1>5, <3>1
        <3> QED BY <3>2, SMTT(20) DEF Core, Unfound, Using
    <2> QED BY <1>5 DEF Unfound, Using
<1>7. \A q \in Procs : /\ pc'[q] = "del" <=> pc[q] = "del"
                       /\ pc[q] = "del" => q # p /\ mine'[q] = mine[q]
    BY <1>1
<1>8. Deleting'
    BY <1>7, SMTT(20) DEF Core, Deleting
<1>9. \A i : Clearing(i) => Clearing(i)'
    BY <1>7, SMTT(20) DEF Clearing
<1>10. \A b \in Actors : pc'[b] \in {"held", "put"} => pc[b] \in {"held", "put"} /\ at'[b] = at[b]
    <2> SUFFICES ASSUME NEW b \in Actors, pc'[b] \in {"held", "put"} PROVE pc[b] \in {"held", "put"} /\ at'[b] = at[b]
        OBVIOUS
    <2>1. b # p
        OBVIOUS
    <2> QED BY <2>1
<1> QED BY <1>2, <1>4, <1>6, <1>8, <1>9, <1>10, CoreKept

\* Holder x drops its reference: if the context is freed, nobody else had it.
LEMMA DerefCore ==
    ASSUME Types, Core, NEW c \in Ctxs, NEW x \in Holders(c), mem[c] = "live", Deref(c), ~late',
           UNCHANGED <<tb, mine>>,
           \A d \in Ctxs : Holders(d)' = IF d = c THEN Holders(c) \ {x} ELSE Holders(d),
           \A b \in Actors : pc'[b] \in {"found", "held", "put", "set", "copy"} =>
               b # x /\ pc'[b] = pc[b] /\ at'[b] = at[b],
           \A i \in Ids : Clearing(i) => Clearing(i)',
           x \in Ids => Clearing(x)',
           Deleting',
           \A q \in Procs : pc[q] = "copy" => at[q] # c
    PROVE  Core'
<1>1. /\ mem \in [Ctxs -> {"free", "new", "live", "leaked"}] /\ ref \in [Ctxs -> Int] /\ uid \in [Ctxs -> Ids]
      /\ Ids' = Ids /\ Procs \subseteq Actors /\ \A i \in Ids : tb[i] \in Ctxs \cup {None}
      /\ \A a \in Actors : pc[a] \in Somewhere => at[a] \in Ctxs
    BY TypesSay DEF Ids, Actors
<1>2. IsFiniteSet(Holders(c)) /\ Cardinality(Holders(c)) \in Nat /\ Cardinality(Holders(c)) <= ref[c]
    BY HoldersFinite, FS_CardinalityType DEF Core, Counted
<1>3. IsFiniteSet(Holders(c) \ {x}) /\ Cardinality(Holders(c) \ {x}) = Cardinality(Holders(c)) - 1
    BY <1>2, FS_RemoveElement
<1>4. /\ ref' = [ref EXCEPT ![c] = @ - 1]
      /\ ref[c] = 1 => \A b \in Actors : ~(pc[b] = "found" /\ at[b] = c)
    BY DEF Deref, Finding
<1>5. /\ ref[c] = 1 => mem' = [mem EXCEPT ![c] = "free"] /\ uid' = [uid EXCEPT ![c] = 0]
      /\ ref[c] # 1 => mem' = mem /\ uid' = uid
    BY DerefSays
<1>6. \A d \in Ctxs : d # c => mem'[d] = mem[d] /\ uid'[d] = uid[d] /\ ref'[d] = ref[d]
    BY <1>1, <1>4, <1>5
<1>7. ref[c] = 1 => Holders(c) = {x}
    <2> SUFFICES ASSUME ref[c] = 1 PROVE Holders(c) = {x}
        OBVIOUS
    <2>1. Cardinality(Holders(c) \ {x}) \in Nat
        BY <1>3, FS_CardinalityType
    <2>2. Cardinality(Holders(c) \ {x}) = 0
        BY <1>2, <1>3, <2>1, SMTT(20)
    <2>3. Holders(c) \ {x} = {}
        BY <1>3, <2>2, FS_EmptySet
    <2> QED BY <2>3
<1>8. mem'[c] = IF ref[c] = 1 THEN "free" ELSE "live"
    BY <1>1, <1>5
<1>9. ref[c] = 1 => \A b \in Actors : pc'[b] \in {"found", "held", "put"} => at[b] # c
    <2> SUFFICES ASSUME ref[c] = 1, NEW b \in Actors, pc'[b] \in {"found", "held", "put"}, at[b] = c PROVE FALSE
        OBVIOUS
    <2> pc[b] = pc'[b] /\ b # x
        OBVIOUS
    <2> CASE pc[b] = "found"
        BY <1>4
    <2> CASE pc[b] \in {"held", "put"}
        BY <1>7 DEF Holders
    <2> QED OBVIOUS
<1>10. Counted'
    <2> SUFFICES ASSUME NEW d \in Ctxs PROVE Cardinality(Holders(d)') <= ref'[d]
        BY DEF Counted
    <2>1. CASE d = c
        <3>1. ref'[c] = ref[c] - 1 /\ Holders(c)' = Holders(c) \ {x}
            BY <1>1, <1>4
        <3> QED BY <1>1, <1>2, <1>3, <2>1, <3>1, SMTT(20)
    <2> CASE d # c
        <3>1. ref'[d] = ref[d] /\ Holders(d)' = Holders(d)
            BY <1>6
        <3> QED BY <3>1 DEF Core, Counted
    <2> QED BY <2>1
<1>11. LiveUse'
    <2> SUFFICES ASSUME NEW b \in Actors, pc'[b] \in {"found", "held", "put"} PROVE mem'[at'[b]] = "live"
        BY DEF LiveUse, Using
    <2>1. pc'[b] = pc[b] /\ at'[b] = at[b] /\ mem[at[b]] = "live" /\ at[b] \in Ctxs
        BY <1>1 DEF Core, LiveUse, Using, Somewhere
    <2> QED BY <1>6, <1>8, <1>9, <2>1
<1>12. Entered'
    <2> SUFFICES ASSUME NEW i \in Ids, tb[i] # None
                 PROVE  /\ ~Clearing(i)' => mem'[tb[i]] \in {"live", "leaked"}
                        /\ mem'[tb[i]] = "live" => uid'[tb[i]] = i
        BY <1>1 DEF Entered
    <2>1. tb[i] \in Ctxs
        BY <1>1
    <2>2. CASE tb[i] # c
        <3>1. mem'[tb[i]] = mem[tb[i]] /\ uid'[tb[i]] = uid[tb[i]]
            BY <1>6, <2>1, <2>2
        <3> QED BY <3>1 DEF Core, Entered
    <2> CASE tb[i] = c /\ ref[c] = 1
        <3>1. ~Clearing(i) => i = x
            BY <1>7 DEF Holders
        <3> QED BY <1>8, <3>1
    <2> CASE tb[i] = c /\ ref[c] # 1
        <3>1. mem' = mem /\ uid' = uid
            BY <1>5
        <3> QED BY <3>1 DEF Core, Entered
    <2> QED BY <2>2
<1>13. NewOnes'
    <2> \A p \in Procs : pc'[p] = "set" => pc[p] = "set" /\ at'[p] = at[p] /\ mem[at[p]] = "new" /\ at[p] \in Ctxs
        BY <1>1 DEF Core, NewOnes, Somewhere
    <2>1. \A p \in Procs : pc'[p] = "set" => mem'[at'[p]] = "new"
        BY <1>6, SMTT(20)
    <2>2. \A p, q \in Procs : pc'[p] = "set" /\ pc'[q] = "set" /\ at'[p] = at'[q] => p = q
        BY SMTT(20) DEF Core, NewOnes
    <2> QED BY <2>1, <2>2 DEF NewOnes
<1>14. Unfound'
    <2> \A q \in Procs : pc'[q] = "copy" => pc[q] = "copy" /\ at'[q] = at[q] /\ at[q] \in Ctxs /\ at[q] # c
        BY <1>1 DEF Somewhere
    <2>1. \A q \in Procs : pc'[q] = "copy" => mem'[at'[q]] = "live"
        BY <1>6, SMTT(20) DEF Core, Unfound
    <2>2. \A b \in Actors, q \in Procs : pc'[b] \in {"found", "held", "put"} /\ pc'[q] = "copy" => at'[q] # at'[b]
        BY SMTT(20) DEF Core, Unfound, Using
    <2> QED BY <2>1, <2>2 DEF Unfound, Using
<1> QED BY <1>10, <1>11, <1>12, <1>13, <1>14 DEF Core

\* A context enters the table under an id that nobody has.
LEMMA EnterOwn ==
    ASSUME Types, Core, Fresh, Owned, Spots, Spots', NEW p \in Procs, SetEnter(p), ~wrapped'
    PROVE  Core' /\ Fresh' /\ Owned'
\* Until the ids wrap, aio_context_id is a slot that was never given.
<1>FreshSlot. /\ NextSlot = nextId /\ tb[nextId] = None /\ nextId \in Ids /\ Ids' = Ids
              /\ \A i : Given(i) => i # nextId /\ Given(i)'
              /\ \A i : i = nextId => Given(i)'
    <2> PICK n \in Ids : n = nextId
        BY TypesSay
    <2>1. nextId # 0
        BY DEF SetEnter
    <2>2. \A i : Given(i) => i # n
        BY <2>1, IdsFinite, SMTT(20) DEF Given, Types
    <2>3. tb[n] = None /\ NextSlot = n
        BY <2>2 DEF Fresh, NextSlot
    <2> PICK N \in Nat \ {0, 1} : N = Cardinality(Ids) /\ Ids = 0 .. N - 1
        BY IdsFinite DEF Types
    <2>4. nextId' = (n + 1) % N /\ DOMAIN tb' = DOMAIN tb
        BY <2>3 DEF SetEnter
    <2>5. nextId' = IF n + 1 = N THEN 0 ELSE n + 1
        <3>1. CASE n + 1 = N
            <4>1. N % N = 0
                BY SMTT(20)
            <4> QED BY <2>4, <3>1, <4>1
        <3> CASE n + 1 # N
            <4>1. n \in 0 .. N - 1
                OBVIOUS
            <4>2. n + 1 \in 0 .. N - 1
                BY ONLY n + 1 # N, <4>1, N \in Nat \ {0, 1}
            <4>3. (n + 1) % N = n + 1
                BY <4>2, SMTT(20)
            <4> QED BY <2>4, <4>3
        <3> QED BY <3>1
    <2>6. Ids' = Ids
        BY <2>4 DEF Ids
    <2>7. ASSUME NEW i \in Ids \ {0}, i <= n PROVE Given(i)'
        BY <2>5, <2>6, <2>7, SMTT(20) DEF Given
    <2>8. ASSUME NEW i, Given(i) PROVE Given(i)'
        <3> i \in Ids \ {0} /\ i < n
            BY <2>1, <2>8 DEF Given
        <3>1. i <= n
            BY SMTT(20)
        <3> QED BY <2>7, <3>1
    <2> ASSUME NEW i, i = n PROVE Given(i)'
        <3>1. i \in Ids \ {0} /\ i <= n
            BY <2>1, SMTT(20)
        <3> QED BY <2>7, <3>1
    <2> QED BY <2>2, <2>3, <2>6, <2>8
<1> PICK c \in Ctxs : c = at[p]
    BY TypesSay DEF SetEnter, Somewhere, Actors
<1> PICK n \in Ids : n = nextId /\ n = NextSlot
    BY <1>FreshSlot
<1>1. /\ ref \in [Ctxs -> Int] /\ Procs \subseteq Actors /\ Workers \subseteq Actors /\ p \in Actors
      /\ mem \in [Ctxs -> {"free", "new", "live", "leaked"}] /\ uid \in [Ctxs -> Ids]
      /\ DOMAIN tb = Ids /\ \A i \in Ids : tb[i] \in Ctxs \cup {None}
      /\ \A a \in Actors : pc[a] \in Somewhere => at[a] \in Ctxs
      /\ None \notin Ctxs /\ None \notin Ids
    BY TypesSay, SlotsNoActors DEF Actors
<1>2. /\ pc[p] = "set" /\ lock = "free"
      /\ tb' = [tb EXCEPT ![n] = c] /\ mem' = [mem EXCEPT ![c] = "live"]
      /\ ref' = [ref EXCEPT ![c] = 1] /\ uid' = [uid EXCEPT ![c] = n]
      /\ Goto(p, "copy", c) /\ UNCHANGED <<lock, mine, cmd, hand>>
    BY DEF SetEnter
<1>3. /\ pc'[p] = "copy" /\ at'[p] = c /\ at[p] = c
      /\ \A b \in Actors : b # p => pc'[b] = pc[b] /\ at'[b] = at[b]
    BY <1>1, <1>2, GotoSays
<1>4. /\ Ids' = Ids /\ tb'[n] = c /\ tb[n] = None /\ \A i \in Ids : i # n => tb'[i] = tb[i]
      /\ mem'[c] = "live" /\ uid'[c] = n /\ ref'[c] = 1
      /\ \A d \in Ctxs : d # c => mem'[d] = mem[d] /\ uid'[d] = uid[d] /\ ref'[d] = ref[d]
    BY <1>1, <1>2, <1>FreshSlot
<1>5. (\A i : ~Clearing(i)) /\ \A q \in Procs : pc[q] # "del"
    BY <1>2 DEF Core, Deleting, Clearing
<1>6. (\A i : ~Clearing(i)') /\ \A q \in Procs : pc'[q] # "del"
    BY <1>1, <1>3, <1>5 DEF Clearing
<1>7. mem[c] = "new" /\ (\A i \in Ids : tb[i] # c)
    BY <1>1, <1>2, <1>3, <1>5, SMTT(20) DEF Core, NewOnes, Entered
<1>8. \A a \in Actors : pc'[a] \in {"found", "held", "put"} =>
          a # p /\ pc'[a] = pc[a] /\ at'[a] = at[a] /\ at[a] \in Ctxs /\ mem[at[a]] = "live" /\ at[a] # c
    BY <1>1, <1>3, <1>7 DEF Core, LiveUse, Using, Somewhere
<1>9. \A q \in Procs : pc[q] = "copy" => q # p /\ at[q] \in Ctxs /\ mem[at[q]] = "live" /\ at[q] # c
    BY <1>1, <1>2, <1>7 DEF Core, Unfound, Somewhere
<1>10. Counted'
    <2> SUFFICES ASSUME NEW d \in Ctxs PROVE Cardinality(Holders(d)') <= ref'[d]
        BY DEF Counted
    <2>1. CASE d = c
        <3>1. Holders(c)' = {n}
            <4>1. {i \in Ids : tb'[i] = c /\ ~Clearing(i)'} = {n}
                BY <1>4, <1>6, <1>7
            <4>2. {a \in Actors : at'[a] = c /\ pc'[a] \in {"held", "put"}} = {}
                BY <1>8
            <4> QED BY <1>4, <4>1, <4>2 DEF Holders
        <3>2. Cardinality({n}) = 1
            BY FS_Singleton
        <3> QED BY <1>4, <2>1, <3>1, <3>2, SMTT(20)
    <2> CASE d # c
        <3>1. \A i \in Ids : tb'[i] = d <=> tb[i] = d
            BY <1>1, <1>4
        <3>2. \A a \in Actors : at'[a] = d /\ pc'[a] \in {"held", "put"} <=> at[a] = d /\ pc[a] \in {"held", "put"}
            BY <1>2, <1>3
        <3>3. Holders(d)' = Holders(d)
            BY <1>4, <1>5, <1>6, <3>1, <3>2 DEF Holders
        <3> QED BY <1>4, <3>3 DEF Core, Counted
    <2> QED BY <2>1
<1>11. LiveUse'
    BY <1>4, <1>8, SMTT(20) DEF LiveUse, Using
<1>12. Entered'
    <2> SUFFICES ASSUME NEW i \in Ids, tb'[i] # None
                 PROVE  mem'[tb'[i]] \in {"live", "leaked"} /\ (mem'[tb'[i]] = "live" => uid'[tb'[i]] = i)
        BY <1>4 DEF Entered
    <2>1. CASE i = n
        BY <1>4, <2>1
    <2> CASE i # n
        <3> tb'[i] = tb[i] /\ tb[i] \in Ctxs /\ tb[i] # c
            BY <1>1, <1>4, <1>7
        <3>1. mem[tb[i]] \in {"live", "leaked"} /\ (mem[tb[i]] = "live" => uid[tb[i]] = i)
            BY <1>5 DEF Core, Entered
        <3> QED BY <1>4, <3>1
    <2> QED BY <2>1
<1>13. NewOnes' /\ Deleting'
    <2>1. \A q \in Procs : pc'[q] = "set" => q # p /\ pc[q] = "set" /\ at'[q] = at[q] /\ at[q] \in Ctxs /\ at[q] # c
        BY <1>1, <1>2, <1>3, SMTT(20) DEF Core, NewOnes, Somewhere
    <2> QED BY <1>4, <1>6, <2>1, SMTT(20) DEF Core, NewOnes, Deleting
<1>14. \A q \in Procs : pc'[q] = "copy" =>
           q = p \/ (pc[q] = "copy" /\ at'[q] = at[q] /\ at[q] \in Ctxs /\ at[q] # c /\ uid'[at'[q]] = uid[at[q]])
    BY <1>1, <1>3, <1>4, <1>9, SMTT(20)
<1>15. Unfound'
    <2>1. \A q \in Procs : pc'[q] = "copy" => mem'[at'[q]] = "live"
        BY <1>3, <1>4, <1>9, <1>14, SMTT(20)
    <2>2. \A a \in Actors, q \in Procs : pc'[a] \in {"found", "held", "put"} /\ pc'[q] = "copy" => at'[q] # at'[a]
        BY <1>3, <1>8, <1>14, SMTT(20) DEF Core, Unfound, Using
    <2> QED BY <2>1, <2>2 DEF Unfound, Using
<1>16. Core'
    BY <1>10, <1>11, <1>12, <1>13, <1>15 DEF Core
<1>17. (\A i : Given(i) => i # n /\ Given(i)') /\ (\A i : i = n => Given(i)') /\ uid'[at'[p]] = n
    BY <1>3, <1>4, <1>FreshSlot
<1>18. Fresh'
    <2>1. \A i \in Ids' : tb'[i] # None => Given(i)'
        BY <1>4, <1>17 DEF Fresh
    <2>2. \A q \in Procs : mine'[q] # None => Given(mine[q])' /\ mine'[q] # n
        <3> SUFFICES ASSUME NEW q \in Procs, mine[q] # None PROVE Given(mine[q])' /\ mine[q] # n
            BY <1>2
        <3> PICK i : i = mine[q]
            OBVIOUS
        <3>1. Given(i) /\ mine'[q] = i
            BY <1>2 DEF Fresh
        <3> QED BY <1>17, <3>1 DEF Given
    <2>3. \A k \in Cmds : cmd'[k].st # "idle" => Given(cmd[k].id)' /\ cmd'[k].id # n
        <3> SUFFICES ASSUME NEW k \in Cmds, cmd[k].st # "idle" PROVE Given(cmd[k].id)' /\ cmd[k].id # n
            BY <1>2
        <3> PICK i : i = cmd[k].id
            OBVIOUS
        <3>1. Given(i) /\ cmd'[k].id = i
            BY <1>2 DEF Fresh
        <3> QED BY <1>17, <3>1 DEF Given
    <2>4. \A q \in Procs : pc'[q] = "copy" => Given(uid[at[q]])' /\ (q # p => pc[q] = "copy" /\ uid'[at'[q]] = uid[at[q]] /\ uid[at[q]] # n)
        <3> SUFFICES ASSUME NEW q \in Procs, pc'[q] = "copy"
                     PROVE  Given(uid[at[q]])' /\ (q # p => pc[q] = "copy" /\ uid'[at'[q]] = uid[at[q]] /\ uid[at[q]] # n)
            OBVIOUS
        <3>1. CASE q = p
            <4>1. \A i : i = uid'[at'[p]] => Given(i)'
                BY <1>17
            <4> QED BY <3>1, <4>1 DEF Given
        <3> CASE q # p
            <4> PICK i : i = uid[at[q]]
                OBVIOUS
            <4>1. pc[q] = "copy" /\ uid'[at'[q]] = i /\ Given(i)
                BY <1>14 DEF Fresh
            <4> QED BY <1>17, <4>1 DEF Given
        <3> QED BY <3>1
    <2>5. \A q, r \in Procs : mine'[q] # None /\ mine'[q] = mine'[r] => q = r
        BY <1>2 DEF Fresh
    <2>6. \A q, r \in Procs : pc'[q] = "copy" /\ mine'[r] # None => uid'[at'[q]] # mine'[r]
        <3> SUFFICES ASSUME NEW q \in Procs, NEW r \in Procs, pc'[q] = "copy", mine'[r] # None, q # p
                     PROVE  uid'[at'[q]] # mine'[r]
            BY <1>17, <2>2
        <3>1. pc[q] = "copy" /\ uid'[at'[q]] = uid[at[q]] /\ mine'[r] = mine[r]
            BY <1>2, <2>4
        <3>2. pc[q] = "copy" /\ mine[r] # None => uid[at[q]] # mine[r]
            BY DEF Fresh
        <3> QED BY <3>1, <3>2
    <2>7. \A q, r \in Procs : pc'[q] = "copy" /\ pc'[r] = "copy" /\ uid'[at'[q]] = uid'[at'[r]] => q = r
        <3> SUFFICES ASSUME NEW q \in Procs, NEW r \in Procs,
                            pc'[q] = "copy", pc'[r] = "copy", uid'[at'[q]] = uid'[at'[r]], q # p, r # p
                     PROVE  q = r
            BY <1>17, <2>4
        <3>1. pc[q] = "copy" /\ pc[r] = "copy" /\ uid[at[q]] = uid[at[r]]
            BY <2>4
        <3> QED BY <3>1 DEF Fresh
    <2>8. \A q \in Procs, k \in Cmds : cmd'[k].st # "idle" /\ cmd'[k].id = mine'[q] => cmd'[k].by = q
        BY <1>2 DEF Fresh
    <2>9. \A q \in Procs, k \in Cmds : cmd'[k].st # "idle" /\ pc'[q] = "copy" => cmd'[k].id # uid'[at'[q]]
        <3> SUFFICES ASSUME NEW q \in Procs, NEW k \in Cmds, cmd'[k].st # "idle", pc'[q] = "copy", q # p
                     PROVE  cmd'[k].id # uid'[at'[q]]
            BY <1>17, <2>3
        <3>1. pc[q] = "copy" /\ uid'[at'[q]] = uid[at[q]] /\ cmd' = cmd
            BY <1>2, <2>4
        <3> QED BY <3>1 DEF Fresh
    <2> QED BY <2>1, <2>2, <2>3, <2>4, <2>5, <2>6, <2>7, <2>8, <2>9 DEF Fresh
<1>19. Owned'
    <2>1. UNCHANGED <<cmd, hand, list>>
        BY SpotsSet DEF SetLocked, Core, NewOnes, LiveSet
    <2>2. \A d \in Ctxs : \A k \in Range(list[d]) : uid'[d] = uid[d]
        <3> SUFFICES ASSUME NEW d \in Ctxs, NEW k \in Range(list[d]), d = c PROVE FALSE
            BY <1>4
        <3> QED BY <1>7, MembersEmpty DEF Spots
    <2>3. \A a \in Actors : pc'[a] \in {"found", "held"} => pc[a] \in {"found", "held"} /\ uid'[at'[a]] = uid[at[a]]
        BY <1>4, <1>8, SMTT(20)
    <2> QED BY <1>1, <1>2, <2>1, <2>2, <2>3, OwnedKept
<1> QED BY <1>16, <1>18, <1>19

\* nvme_set_aioctx, but for entering the table.
LEMMA SetOwn ==
    ASSUME Types, Core, Fresh, Owned, Spots, Spots', NEW p \in Procs, SetBegin(p) \/ SetFull(p) \/ SetEnd(p)
    PROVE  Core' /\ Fresh' /\ Owned'
<1> USE DEF tableVars, ctxVars, actorVars, histVars
<1>1. /\ Procs \subseteq Actors /\ Workers \subseteq Actors /\ p \in Actors /\ p \notin Workers
      /\ mem \in [Ctxs -> {"free", "new", "live", "leaked"}] /\ mine \in [Procs -> Ids \cup {None}]
      /\ DOMAIN tb = Ids
      /\ pc[p] \in Somewhere => at[p] \in Ctxs
    BY TypesSay, TableAssumption DEF Actors
<1>2. /\ UNCHANGED <<ref, uid, list, cmd, hand, nextId>>
      /\ \A q \in Procs : q # p => mine'[q] = mine[q]
    BY <1>1 DEF SetBegin, SetEnd, SetAlloc, SetBadArgument, SetFull, SetReturn, SetCopyFails
<1>3. /\ \A b \in Actors : b # p => pc'[b] = pc[b] /\ at'[b] = at[b]
      /\ pc[p] \in {"idle", "set", "copy"} /\ pc'[p] \in {"idle", "set"}
    <2>1. CASE SetBadArgument(p)
        BY <2>1 DEF SetBadArgument, MayAlloc
    <2> CASE ~SetBadArgument(p)
        <3>1. \E where \in {"idle", "set"} : \E c : Goto(p, where, c)
            BY DEF SetBegin, SetEnd, SetAlloc, SetFull, SetReturn, SetCopyFails
        <3>2. pc[p] \in {"idle", "set", "copy"}
            BY DEF SetBegin, SetEnd, SetAlloc, SetFull, SetReturn, SetCopyFails, MayAlloc
        <3> QED BY <1>1, <3>1, <3>2, GotoSays
    <2> QED BY <2>1
<1>4. DOMAIN tb' = DOMAIN tb /\ \A i \in Ids : tb'[i] = tb[i] \/ tb'[i] = None
    BY <1>1 DEF SetBegin, SetEnd, SetAlloc, SetBadArgument, SetFull, SetReturn, SetCopyFails
<1>5. lock' = lock \/ lock = "free"
    BY DEF SetBegin, SetEnd, SetAlloc, SetBadArgument, SetFull, SetReturn, SetCopyFails
<1>6. /\ \A d \in Ctxs : \/ mem'[d] = mem[d]
                         \/ mem'[d] = "leaked" /\ (mem[d] = "free" \/ (pc[p] \in {"set", "copy"} /\ d = at[p]))
                         \/ mem[d] = "free" /\ mem'[d] = "new" /\ pc'[p] = "set" /\ at'[p] = d
      /\ pc'[p] = "set" => at'[p] \in Ctxs /\ mem[at'[p]] = "free" /\ mem'[at'[p]] = "new"
    <2>1. CASE SetBegin(p)
        <3>1. MayAlloc(p)
            BY <2>1 DEF SetBegin, SetAlloc, SetBadArgument
        <3> PICK c \in Ctxs : c = Allocated /\ mem[c] = "free"
            BY <3>1 DEF MayAlloc, Allocated
        <3>2. CASE SetAlloc(p)
            <4> mem' = [mem EXCEPT ![c] = "new"] /\ Goto(p, "set", c)
                BY <3>2 DEF SetAlloc
            <4>1. pc'[p] = "set" /\ at'[p] = c
                BY <1>1, GotoSays
            <4> QED BY <1>1, <4>1
        <3> CASE SetBadArgument(p)
            <4>1. mem' = [mem EXCEPT ![c] = "leaked"] /\ pc'[p] = "idle"
                BY <3>1 DEF SetBadArgument, MayAlloc
            <4> QED BY <1>1, <4>1
        <3> QED BY <2>1, <3>2 DEF SetBegin
    <2> CASE SetFull(p) \/ SetEnd(p)
        <3> pc[p] \in {"set", "copy"} /\ Goto(p, "idle", None) /\ (mem' = mem \/ mem' = [mem EXCEPT ![at[p]] = "leaked"])
            BY DEF SetEnd, SetFull, SetReturn, SetCopyFails
        <3>1. pc'[p] = "idle"
            BY <1>1, GotoSays
        <3> QED BY <1>1, <3>1
    <2> QED BY <2>1
<1>7. Core'
    BY <1>2, <1>3, <1>4, <1>5, <1>6, ShiftCore
<1>8. Fresh'
    <2>1. Same
        BY <1>2, SameSteps
    <2>2. \A q \in Procs : pc'[q] = "copy" => q # p /\ pc[q] = "copy" /\ uid'[at'[q]] = uid[at[q]]
        BY <1>1, <1>2, <1>3
    <2>3. \A i \in Ids : tb'[i] # None => tb[i] # None
        BY <1>4
    <2>4. CASE SetReturn(p)
        <3> PICK i : i = uid[at[p]]
            OBVIOUS
        <3> pc[p] = "copy" /\ mine'[p] = i /\ UNCHANGED tb
            BY <1>1, <2>4 DEF SetReturn
        <3>1. Ids' = Ids
            BY <1>4 DEF Ids
        <3>2. /\ Given(i)
              /\ \A q \in Procs : mine[q] # None => i # mine[q]
              /\ \A q \in Procs : pc[q] = "copy" /\ uid[at[q]] = i => q = p
              /\ \A k \in Cmds : cmd[k].st # "idle" => cmd[k].id # i
            BY DEF Fresh
        <3>3. /\ \A j \in Ids' : tb'[j] # None => Given(j)'
              /\ \A q \in Procs : pc'[q] = "copy" => Given(uid[at[q]])'
              /\ \A k \in Cmds : cmd'[k].st # "idle" => Given(cmd[k].id)'
            BY <1>2, <2>2, <3>1 DEF Fresh, Given
        <3>4. \A q \in Procs : mine'[q] # None => Given(mine[q])'
            BY <1>2, <3>1, <3>2 DEF Fresh, Given
        <3>5. \A q, r \in Procs : mine'[q] # None /\ mine'[q] = mine'[r] => q = r
            <4>1. \A q, r \in Procs : mine[q] # None /\ mine[q] = mine[r] => q = r
                BY DEF Fresh
            <4>2. \A q \in Procs : q # p => mine'[q] = mine[q] /\ (mine[q] # None => mine[q] # mine'[p])
                BY <1>2, <3>2
            <4> QED BY <4>1, <4>2
        <3>6. \A q, r \in Procs : pc'[q] = "copy" /\ mine'[r] # None => uid'[at'[q]] # mine'[r]
            <4> SUFFICES ASSUME NEW q \in Procs, NEW r \in Procs, pc'[q] = "copy", mine'[r] # None
                         PROVE  uid'[at'[q]] # mine'[r]
                OBVIOUS
            <4>1. q # p /\ pc[q] = "copy" /\ uid'[at'[q]] = uid[at[q]]
                BY <2>2
            <4>2. CASE r = p
                BY <3>2, <4>1, <4>2
            <4>3. CASE r # p
                <5>1. mine'[r] = mine[r]
                    BY <1>2, <4>3
                <5>2. pc[q] = "copy" /\ mine[r] # None => uid[at[q]] # mine[r]
                    BY DEF Fresh
                <5> QED BY <4>1, <5>1, <5>2
            <4> QED BY <4>2, <4>3
        <3>7. \A q, r \in Procs : pc'[q] = "copy" /\ pc'[r] = "copy" /\ uid'[at'[q]] = uid'[at'[r]] => q = r
            <4>1. \A q, r \in Procs : pc[q] = "copy" /\ pc[r] = "copy" /\ uid[at[q]] = uid[at[r]] => q = r
                BY DEF Fresh
            <4> QED BY <2>2, <4>1
        <3>8. \A q \in Procs, k \in Cmds : cmd'[k].st # "idle" /\ cmd'[k].id = mine'[q] => cmd'[k].by = q
            <4>1. \A k \in Cmds : cmd'[k].st # "idle" => cmd[k].st # "idle" /\ cmd'[k].id # mine'[p]
                BY <1>2, <3>2
            <4>2. \A q \in Procs : q # p => mine'[q] = mine[q]
                BY <1>2
            <4>3. \A q \in Procs, k \in Cmds : cmd[k].st # "idle" /\ cmd[k].id = mine[q] => cmd[k].by = q
                BY DEF Fresh
            <4> QED BY <1>2, <4>1, <4>2, <4>3
        <3>9. \A q \in Procs, k \in Cmds : cmd'[k].st # "idle" /\ pc'[q] = "copy" => cmd'[k].id # uid'[at'[q]]
            <4>1. \A q \in Procs, k \in Cmds : cmd[k].st # "idle" /\ pc[q] = "copy" => cmd[k].id # uid[at[q]]
                BY DEF Fresh
            <4> QED BY <1>2, <2>2, <4>1
        <3> QED BY <3>3, <3>4, <3>5, <3>6, <3>7, <3>8, <3>9 DEF Fresh
    <2> CASE ~SetReturn(p)
        <3>1. UNCHANGED mine
            BY DEF SetBegin, SetEnd, SetAlloc, SetBadArgument, SetFull, SetCopyFails
        <3> QED BY <1>2, <1>4, <2>1, <2>2, <2>3, <3>1, FreshKept
    <2> QED BY <2>4
<1>9. Owned'
    <2>1. \A b \in Actors : pc'[b] \in {"found", "held"} => b # p /\ pc[b] \in {"found", "held"} /\ uid'[at'[b]] = uid[at[b]]
        BY <1>2, <1>3
    <2> QED BY <1>1, <1>2, <2>1, OwnedKept
<1> QED BY <1>7, <1>8, <1>9

\* A context whose id is given to a process or a command was told of.
LEMMA ToldContext ==
    ASSUME Types, Core, Fresh, NEW i \in Ids, tb[i] # None, mem[tb[i]] = "live",
           (\E p \in Procs : mine[p] = i) \/ (\E k \in Cmds : cmd[k].st # "idle" /\ cmd[k].id = i)
    PROVE  uid[tb[i]] = i /\ \A q \in Procs : pc[q] = "copy" => at[q] # tb[i]
<1>1. uid[tb[i]] = i
    BY DEF Core, Entered
<1>2. None \notin Ids
    BY SlotsNoActors
<1> QED BY <1>1, <1>2, SMTT(20) DEF Fresh

\* nvme_del_aioctx, and the end of a process.
LEMMA DelOwn ==
    ASSUME Types, Core, Fresh, Owned, Spots, Spots', NEW p \in Procs, DelStep(p) \/ Die(p), ~late'
    PROVE  Core' /\ Fresh' /\ Owned'
<1> USE DEF tableVars, ctxVars, actorVars, histVars
<1>1. /\ Procs \subseteq Actors /\ Workers \subseteq Actors /\ p \in Actors /\ p \notin Workers
      /\ mem \in [Ctxs -> {"free", "new", "live", "leaked"}] /\ mine \in [Procs -> Ids \cup {None}]
      /\ DOMAIN tb = Ids /\ None \notin Ids /\ (\A i \in Ids : tb[i] \in Ctxs \cup {None})
      /\ uid \in [Ctxs -> Ids] /\ list \in [Ctxs -> Seq(Cmds)]
      /\ \A a \in Actors : pc[a] \in Somewhere => at[a] \in Ctxs
    BY TypesSay, SlotsNoActors, TableAssumption DEF Actors
<1>2. CASE DelNothing(p) \/ Die(p)
    <2> /\ pc[p] = "idle" /\ mine' = [mine EXCEPT ![p] = None]
        /\ UNCHANGED <<tb, nextId, lock, mem, ref, uid, list, cmd, pc, at, hand>>
        BY <1>2 DEF DelNothing, Die
    <2> mine'[p] = None /\ \A q \in Procs : q # p => mine'[q] = mine[q]
        BY <1>1
    <2>1. Core'
        BY ShiftCore
    <2>2. Same
        BY SameSteps
    <2>3. Fresh'
        BY <2>2, FreshKept
    <2>4. Owned'
        BY OwnedKept
    <2> QED BY <2>1, <2>3, <2>4
<1>3. CASE DelClear(p)
    <2> PICK m : m = mine[p]
        OBVIOUS
    <2>1. /\ pc[p] = "del" /\ tb' = [tb EXCEPT ![m] = None] /\ lock' = "free"
          /\ mine' = [mine EXCEPT ![p] = None] /\ Goto(p, "idle", None)
          /\ UNCHANGED <<nextId, mem, ref, uid, list, cmd, hand>>
        BY <1>3 DEF DelClear
    <2>2. /\ pc'[p] = "idle" /\ mine'[p] = None
          /\ \A b \in Actors : b # p => pc'[b] = pc[b] /\ at'[b] = at[b]
          /\ \A q \in Procs : q # p => mine'[q] = mine[q]
        BY <1>1, <2>1, GotoSays
    <2>3. DOMAIN tb' = DOMAIN tb /\ (\A i \in Ids : tb'[i] = tb[i] \/ tb'[i] = None) /\ (m \in Ids => tb'[m] = None)
        BY <1>1, <2>1
    <2>4. \A q \in Procs : pc'[q] # "del"
        BY <1>1, <2>1, <2>2 DEF Core, Deleting
    <2>5. \A i \in Ids : Clearing(i) => tb'[i] = None
        BY <2>1, <2>3 DEF Core, Deleting, Clearing
    <2>6. Deleting'
        BY <2>4 DEF Deleting
    <2>7. LiveUse' /\ NewOnes' /\ Unfound'
        <3>1. \A b \in Actors : pc'[b] # "idle" => pc'[b] = pc[b] /\ at'[b] = at[b]
            BY <2>2
        <3>2. LiveUse'
            BY <2>1, <3>1 DEF Core, LiveUse, Using
        <3>3. mem' = mem /\ \A q \in Procs : q \in Actors
            BY <1>1, <2>1
        <3>4. \A b \in Actors : Using(b)' => Using(b) /\ at'[b] = at[b]
            BY <3>1 DEF Using
        <3> \A q \in Procs : pc'[q] \in {"set", "copy"} => pc'[q] = pc[q] /\ at'[q] = at[q]
            BY <3>1, <3>3
        <3>5. NewOnes'
            <4>1. \A q \in Procs : pc'[q] = "set" => mem'[at'[q]] = "new"
                BY <3>3 DEF Core, NewOnes
            <4>2. \A q, r \in Procs : pc'[q] = "set" /\ pc'[r] = "set" /\ at'[q] = at'[r] => q = r
                BY SMTT(20) DEF Core, NewOnes
            <4> QED BY <4>1, <4>2 DEF NewOnes
        <3>6. Unfound'
            <4>1. \A q \in Procs : pc'[q] = "copy" => mem'[at'[q]] = "live"
                BY <3>3 DEF Core, Unfound
            <4>2. \A b \in Actors, q \in Procs : Using(b)' /\ pc'[q] = "copy" => at'[q] # at'[b]
                BY <3>4 DEF Core, Unfound
            <4> QED BY <4>1, <4>2 DEF Unfound
        <3> QED BY <3>2, <3>5, <3>6
    <2>8. \A b \in Actors : pc'[b] \in {"held", "put"} => pc[b] \in {"held", "put"} /\ at'[b] = at[b]
        BY <2>2
    <2>9. Core'
        BY <2>1, <2>3, <2>5, <2>6, <2>7, <2>8, CoreKept
    <2>10. Same
        BY <2>1, SameSteps
    <2>11. \A q \in Procs : pc'[q] = "copy" => pc[q] = "copy" /\ uid'[at'[q]] = uid[at[q]]
        BY <1>1, <2>1, <2>2
    <2>12. \A i \in Ids : tb'[i] # None => tb[i] # None
        BY <2>3
    <2>13. Fresh'
        BY <2>1, <2>2, <2>3, <2>10, <2>11, <2>12, FreshKept
    <2>14. \A b \in Actors : pc'[b] \in {"found", "held"} => b # p /\ pc[b] \in {"found", "held"} /\ uid'[at'[b]] = uid[at[b]]
        BY <2>1, <2>2
    <2>15. Owned'
        BY <1>1, <2>1, <2>2, <2>14, OwnedKept
    <2> QED BY <2>9, <2>13, <2>15
<1>4. CASE DelDeref(p)
    <2> PICK m \in Ids : m = mine[p]
        BY <1>1, <1>4 DEF DelDeref
    <2> PICK c \in Ctxs : c = tb[m]
        BY <1>1, <1>4 DEF DelDeref
    <2> /\ pc[p] = "idle" /\ lock = "free" /\ mem[c] = "live" /\ Deref(c) /\ lock' = "held"
        /\ Goto(p, "del", c) /\ UNCHANGED <<tb, nextId, hand, mine>>
        BY <1>4 DEF DelDeref
    <2>1. /\ pc'[p] = "del" /\ \A b \in Actors : b # p => pc'[b] = pc[b] /\ at'[b] = at[b]
        BY <1>1, GotoSays
    <2>2. (\A i : ~Clearing(i)) /\ \A q \in Procs : pc[q] # "del"
        BY DEF Core, Deleting, Clearing
    <2>3. \A i : Clearing(i)' <=> i = m
        BY <1>1, <2>1, <2>2 DEF Clearing
    <2>4. m \in Holders(c) /\ m \notin Actors
        BY <2>2, SlotsNoActors DEF Holders
    <2>5. ASSUME NEW d \in Ctxs PROVE Holders(d)' = IF d = c THEN Holders(c) \ {m} ELSE Holders(d)
        <3>1. \A b \in Actors : at'[b] = d /\ pc'[b] \in {"held", "put"} <=> at[b] = d /\ pc[b] \in {"held", "put"}
            BY <2>1
        <3>2. Ids' = Ids
            BY DEF Ids
        <3>3. \A i \in Ids : tb'[i] = d /\ ~Clearing(i)' <=> tb[i] = d /\ ~Clearing(i) /\ i # m
            BY <2>2, <2>3
        <3>4. Holders(d)' = Holders(d) \ {m}
            BY <2>4, <3>1, <3>2, <3>3 DEF Holders
        <3>5. d # c => m \notin Holders(d)
            BY <2>4 DEF Holders
        <3> QED BY <3>4, <3>5
    <2>6. Deleting'
        <3>1. \A q \in Procs : pc'[q] = "del" => q = p
            BY <1>1, <2>1, <2>2
        <3>2. lock' = "held" /\ mine'[p] # None
            BY <1>4 DEF DelDeref
        <3> QED BY <3>1, <3>2 DEF Deleting
    <2>7. \A q \in Procs : pc[q] = "copy" => at[q] # c
        BY <1>1, <1>4, ToldContext DEF DelDeref
    <2>8. \A b \in Actors : pc'[b] \in {"found", "held", "put", "set", "copy"} => b # m /\ b # p /\ pc'[b] = pc[b] /\ at'[b] = at[b]
        BY <2>1, <2>4
    <2>9. Core'
        <3>1. (\A i \in Ids : Clearing(i) => Clearing(i)') /\ (m \in Ids => Clearing(m)')
            BY <2>2, <2>3
        <3>2. \A b \in Actors : pc'[b] \in {"found", "held", "put", "set", "copy"} =>
                  b # m /\ pc'[b] = pc[b] /\ at'[b] = at[b]
            BY <2>8
        <3>3. UNCHANGED <<tb, mine>>
            OBVIOUS
        <3> QED BY <2>4, <2>5, <2>6, <2>7, <3>1, <3>2, <3>3, DerefCore, SMTT(20)
    <2>10. Same
        BY SameSteps
    <2>11. /\ \A d \in Ctxs : d # c => uid'[d] = uid[d] /\ list'[d] = list[d]
           /\ (uid' = uid /\ list' = list /\ mem' = mem) \/ (list'[c] = <<>> /\ mem'[c] = "free")
        <3>1. CASE ref[c] = 1
            BY <1>1, <3>1, DerefSays, SMTT(20)
        <3>2. CASE ref[c] # 1
            BY <3>2, DerefSays
        <3> QED BY <3>1, <3>2
    <2>12. \A q \in Procs : pc'[q] = "copy" => pc[q] = "copy" /\ uid'[at'[q]] = uid[at[q]]
        BY <1>1, <2>7, <2>8, <2>11, SMTT(20) DEF Somewhere
    <2>13. Fresh'
        BY <2>10, <2>12, FreshKept
    <2>14. \A b \in Actors : pc'[b] \in {"found", "held"} => pc[b] \in {"found", "held"} /\ uid'[at'[b]] = uid[at[b]]
        <3> SUFFICES ASSUME NEW b \in Actors, pc'[b] \in {"found", "held"}
                     PROVE  pc[b] \in {"found", "held"} /\ uid'[at'[b]] = uid[at[b]]
            OBVIOUS
        <3>1. pc'[b] = pc[b] /\ at'[b] = at[b] /\ at[b] \in Ctxs /\ mem'[at[b]] = "live"
            BY <1>1, <2>8, <2>9 DEF Core, LiveUse, Using, Somewhere
        <3> QED BY <2>11, <3>1
    <2>15. \A d \in Ctxs : \A k \in Range(list'[d]) : k \in Range(list[d]) /\ uid'[d] = uid[d]
        BY <2>11, MembersEmpty
    <2>16. Owned'
        BY <1>1, <2>10, <2>14, <2>15, OwnedKept DEF Same
    <2> QED BY <2>9, <2>13, <2>16
<1> QED BY <1>2, <1>3, <1>4 DEF DelStep

\* A step of a command alone leaves the contexts and their references as they are.
LEMMA StayCore ==
    ASSUME Core, UNCHANGED <<tb, lock, mem, ref, uid, pc, at, mine>>
    PROVE  Core'
<1>1. Ids' = Ids /\ \A d : Holders(d)' = Holders(d)
    BY DEF Ids, Holders, Clearing
<1>2. \A i : Clearing(i)' <=> Clearing(i)
    BY DEF Clearing
<1>3. Counted' /\ LiveUse' /\ Entered'
    BY <1>1, <1>2 DEF Core, Counted, LiveUse, Entered, Using
<1>4. NewOnes' /\ Deleting' /\ Unfound'
    BY DEF Core, NewOnes, Deleting, Unfound, Using
<1> QED BY <1>3, <1>4 DEF Core

\* A lookup, and what it was for.
LEMMA UseOwn ==
    ASSUME Types, Hands, Core, Fresh, Owned, Spots, Spots', NEW a \in Actors, ~late',
           \/ a \in Procs /\ GetStep(a)
           \/ a \in Workers /\ WorkerStep(a)
    PROVE  Core' /\ Fresh' /\ Owned'
\* A lookup that begins on a live context, goes on, or ends.
<1>LookCore. ASSUME NEW where, NEW c, Goto(a, where, c),
                    UNCHANGED <<tb, lock, mem, ref, uid, mine>>,
                    pc[a] \notin {"set", "copy", "del"}, where \notin {"set", "copy", "del"},
                    where \in {"held", "put"} => pc[a] \in {"held", "put"} /\ c = at[a],
                    where = "found" => mem[c] = "live" /\ \A q \in Procs : pc[q] = "copy" => at[q] # c
             PROVE  Core'
    <2> USE <1>LookCore
    <2>1. /\ Procs \subseteq Actors /\ Ids' = Ids
        BY DEF Actors, Ids
    <2>2. /\ pc'[a] = where /\ at'[a] = c
          /\ \A b \in Actors : b # a => pc'[b] = pc[b] /\ at'[b] = at[b]
        BY GotoSays
    <2>3. \A q \in Procs : /\ pc'[q] \in {"set", "copy", "del"} => pc'[q] = pc[q] /\ at'[q] = at[q]
                           /\ pc[q] = "del" => pc'[q] = "del"
        BY <2>1, <2>2
    <2>4. LiveUse'
        BY <2>2 DEF Core, LiveUse, Using
    <2>5. NewOnes'
        BY <2>3, SMTT(20) DEF Core, NewOnes
    <2>6. Deleting' /\ \A i : Clearing(i) => Clearing(i)'
        BY <2>3, SMTT(20) DEF Core, Deleting, Clearing
    <2>7. \A b \in Actors : pc'[b] \in {"held", "put"} => pc[b] \in {"held", "put"} /\ at'[b] = at[b]
        BY <2>2
    <2>8. Unfound'
        <3> ASSUME NEW b \in Actors, NEW q \in Procs, pc'[b] \in {"found", "held", "put"}, pc'[q] = "copy"
            PROVE  at'[q] # at'[b]
            <4> pc[q] = "copy" /\ at'[q] = at[q]
                BY <2>3
            <4> CASE b = a
                BY <2>2 DEF Core, Unfound, Using
            <4> CASE b # a
                BY <2>2 DEF Core, Unfound, Using
            <4> QED OBVIOUS
        <3>1. \A q \in Procs : pc'[q] = "copy" => mem'[at'[q]] = "live"
            BY <2>3, SMTT(20) DEF Core, Unfound
        <3> QED BY <3>1 DEF Unfound, Using
    <2> QED BY <2>4, <2>5, <2>6, <2>7, <2>8, CoreKept
\* A lookup takes its reference.
<1>RefCore. ASSUME Ref(a) PROVE Core'
    <2> USE <1>RefCore
    <2> PICK c \in Ctxs : c = at[a]
        BY TypesSay DEF Ref, Somewhere
    <2>1. Procs \subseteq Actors /\ ref \in [Ctxs -> Int]
        BY TypesSay DEF Actors
    <2> /\ pc[a] = "found" /\ ref' = [ref EXCEPT ![c] = @ + 1]
        /\ UNCHANGED <<tb, lock, mem, uid, mine>> /\ Goto(a, "held", c) /\ Ids' = Ids
        BY DEF Ref, tableVars, Ids
    <2>2. /\ pc'[a] = "held" /\ at'[a] = c /\ at[a] = c
          /\ \A b \in Actors : b # a => pc'[b] = pc[b] /\ at'[b] = at[b]
        BY GotoSays
    <2>3. \A i : Clearing(i)' <=> Clearing(i)
        BY <2>1, <2>2 DEF Clearing
    <2>4. ASSUME NEW d \in Ctxs PROVE Cardinality(Holders(d)') <= ref'[d]
        <3>1. IsFiniteSet(Holders(d)) /\ Cardinality(Holders(d)) \in Nat /\ Cardinality(Holders(d)) <= ref[d]
            BY HoldersFinite, FS_CardinalityType DEF Core, Counted
        <3>2. CASE d = c
            <4>1. \A b \in Actors : at'[b] = c /\ pc'[b] \in {"held", "put"} <=> b = a \/ (at[b] = c /\ pc[b] \in {"held", "put"})
                BY <2>2
            <4>2. Holders(c)' = Holders(c) \cup {a}
                BY <2>3, <4>1 DEF Holders
            <4> PICK n \in Nat : n = Cardinality(Holders(c))
                BY <3>1, <3>2
            <4>3. Cardinality(Holders(c) \cup {a}) \in {n, n + 1}
                BY <3>1, <3>2, FS_AddElement
            <4>4. Cardinality(Holders(c) \cup {a}) \in Nat
                BY <3>1, <3>2, FS_AddElement, FS_CardinalityType
            <4>5. ref'[c] = ref[c] + 1 /\ ref[c] \in Int
                BY <2>1
            <4> QED BY <3>1, <3>2, <4>2, <4>3, <4>4, <4>5, SMTT(20)
        <3> CASE d # c
            <4>1. \A b \in Actors : at'[b] = d /\ pc'[b] \in {"held", "put"} <=> at[b] = d /\ pc[b] \in {"held", "put"}
                BY <2>2
            <4>2. Holders(d)' = Holders(d)
                BY <2>3, <4>1 DEF Holders
            <4> QED BY <2>1, <3>1, <4>2
        <3> QED BY <3>2
    <2>5. Counted'
        BY <2>4 DEF Counted
    <2>6. LiveUse'
        BY <2>2 DEF Core, LiveUse, Using
    <2>7. Entered'
        BY <2>3 DEF Core, Entered
    <2>8. NewOnes' /\ Deleting'
        BY <2>1, <2>2, SMTT(20) DEF Core, NewOnes, Deleting
    <2>9. Unfound'
        <3>1. \A q \in Procs : pc'[q] = "copy" => pc[q] = "copy" /\ at'[q] = at[q]
            BY <2>1, <2>2
        <3> QED BY <2>2, <3>1, SMTT(20) DEF Core, Unfound, Using
    <2> QED BY <2>5, <2>6, <2>7, <2>8, <2>9 DEF Core
<1> USE DEF tableVars, ctxVars, actorVars, histVars
<1>1. /\ Procs \subseteq Actors /\ Workers \subseteq Actors /\ Procs \cap Workers = {} /\ Actors = Procs \cup Workers
      /\ DOMAIN tb = Ids /\ None \notin Ids /\ (\A i \in Ids : tb[i] \in Ctxs \cup {None})
      /\ uid \in [Ctxs -> Ids] /\ list \in [Ctxs -> Seq(Cmds)] /\ hand \in [Actors -> Seq(Cmds)]
      /\ \A b \in Actors : pc[b] \in Somewhere => at[b] \in Ctxs
      /\ \A k \in Cmds : cmd[k].st = "device" => cmd[k].id \in Ids
      /\ mine \in [Procs -> Ids \cup {None}]
    BY TypesSay, SlotsNoActors, TableAssumption DEF Actors
<1>2. UNCHANGED <<tb, nextId, lock, mine>>
    BY DEF GetStep, WorkerStep, Get, Ref, Take, ProcPut, CopyOut, Complete, Enlist, WorkerPut
<1>3. ASSUME Same, UNCHANGED uid, \A q \in Procs : pc'[q] = "copy" => pc[q] = "copy" /\ at'[q] = at[q]
      PROVE  Fresh'
    <2>1. \A q \in Procs : pc'[q] = "copy" => pc[q] = "copy" /\ uid'[at'[q]] = uid[at[q]]
        BY <1>3
    <2> QED BY <1>2, <1>3, <2>1, FreshKept
<1>4. ASSUME Ref(a) PROVE Core' /\ Fresh' /\ Owned'
    <2> pc[a] = "found" /\ Goto(a, "held", at[a]) /\ UNCHANGED <<uid, list, cmd, hand, mine>>
        BY <1>4 DEF Ref
    <2>1. /\ pc'[a] = "held" /\ at'[a] = at[a]
          /\ \A b \in Actors : b # a => pc'[b] = pc[b] /\ at'[b] = at[b]
        BY GotoSays
    <2>2. Same
        BY SameSteps
    <2>3. Fresh'
        BY <1>1, <1>3, <2>1, <2>2
    <2>4. \A b \in Actors : pc'[b] \in {"found", "held"} => pc[b] \in {"found", "held"} /\ uid'[at'[b]] = uid[at[b]]
        BY <2>1
    <2>5. Owned'
        BY <1>1, <2>4, OwnedKept
    <2> QED BY <1>4, <2>3, <2>5, <1>RefCore
<1>5. ASSUME NEW where \in {"idle", "out"}, pc[a] = "put", Deref(at[a]), Goto(a, where, None), UNCHANGED hand
      PROVE  Core' /\ Fresh' /\ Owned'
    <2> PICK c \in Ctxs : c = at[a]
        BY <1>1, <1>5 DEF Somewhere
    <2>1. /\ pc'[a] = where /\ at'[a] = None
          /\ \A b \in Actors : b # a => pc'[b] = pc[b] /\ at'[b] = at[b]
        BY <1>5, GotoSays
    <2>2. mem[c] = "live" /\ Deref(c) /\ \A q \in Procs : pc[q] = "copy" => at[q] # c
        BY <1>5 DEF Core, LiveUse, Unfound, Using
    <2>3. \A i : Clearing(i)' <=> Clearing(i)
        BY <1>1, <1>2, <1>5, <2>1 DEF Clearing
    <2>4. a \in Holders(c) /\ a \notin Ids
        BY <1>5, SlotsNoActors DEF Holders
    <2>5. ASSUME NEW d \in Ctxs PROVE Holders(d)' = IF d = c THEN Holders(c) \ {a} ELSE Holders(d)
        <3>1. \A b \in Actors : at'[b] = d /\ pc'[b] \in {"held", "put"} <=> b # a /\ at[b] = d /\ pc[b] \in {"held", "put"}
            BY <2>1
        <3>2. Ids' = Ids
            BY <1>2 DEF Ids
        <3>3. Holders(d)' = Holders(d) \ {a}
            BY <1>2, <2>3, <2>4, <3>1, <3>2 DEF Holders
        <3>4. d # c => a \notin Holders(d)
            BY <2>4 DEF Holders
        <3> QED BY <3>3, <3>4
    <2>6. Deleting'
        <3>1. \A q \in Procs : pc'[q] = "del" <=> pc[q] = "del"
            BY <1>1, <1>5, <2>1
        <3> QED BY <1>2, <3>1 DEF Core, Deleting
    <2>7. \A b \in Actors : pc'[b] \in {"found", "held", "put", "set", "copy"} => b # a /\ pc'[b] = pc[b] /\ at'[b] = at[b]
        BY <2>1
    <2>8. Core'
        BY <1>2, <2>2, <2>3, <2>4, <2>5, <2>6, <2>7, DerefCore
    <2>9. Same
        BY <2>2, SameSteps
    <2>10. /\ \A d \in Ctxs : d # c => uid'[d] = uid[d] /\ list'[d] = list[d]
           /\ (uid' = uid /\ list' = list /\ mem' = mem) \/ (list'[c] = <<>> /\ mem'[c] = "free")
        <3>1. mem \in [Ctxs -> {"free", "new", "live", "leaked"}]
            BY TypesSay
        <3> QED BY <1>1, <2>2, <3>1, DerefSays, SMTT(20)
    <2>11. \A q \in Procs : pc'[q] = "copy" => pc[q] = "copy" /\ uid'[at'[q]] = uid[at[q]]
        BY <1>1, <2>2, <2>7, <2>10, SMTT(20) DEF Somewhere
    <2>12. Fresh'
        BY <1>2, <2>9, <2>11, FreshKept
    <2>13. \A b \in Actors : pc'[b] \in {"found", "held"} => pc[b] \in {"found", "held"} /\ uid'[at'[b]] = uid[at[b]]
        <3> SUFFICES ASSUME NEW b \in Actors, pc'[b] \in {"found", "held"}
                     PROVE  pc[b] \in {"found", "held"} /\ uid'[at'[b]] = uid[at[b]]
            OBVIOUS
        <3>1. pc'[b] = pc[b] /\ at'[b] = at[b] /\ at[b] \in Ctxs /\ mem'[at[b]] = "live"
            BY <1>1, <2>7, <2>8 DEF Core, LiveUse, Using, Somewhere
        <3> QED BY <2>10, <3>1
    <2>14. \A d \in Ctxs : \A k \in Range(list'[d]) : k \in Range(list[d]) /\ uid'[d] = uid[d]
        BY <2>10, MembersEmpty
    <2>15. Owned'
        BY <1>1, <1>2, <1>5, <2>9, <2>13, <2>14, OwnedKept DEF Same
    <2> QED BY <2>8, <2>12, <2>15
<1>6. ASSUME a \in Procs, Get(a) PROVE Core' /\ Fresh' /\ Owned'
    <2> PICK m \in Ids : m = mine[a]
        BY <1>1, <1>6 DEF Get
    <2> PICK c \in Ctxs : c = tb[m]
        BY <1>1, <1>6 DEF Get
    <2> /\ pc[a] = "idle" /\ Goto(a, "found", c) /\ mem[c] = "live"
        /\ UNCHANGED <<tb, lock, mem, ref, uid, list, cmd, hand, mine>>
        BY <1>6 DEF Get, Find
    <2>1. /\ pc'[a] = "found" /\ at'[a] = c
          /\ \A b \in Actors : b # a => pc'[b] = pc[b] /\ at'[b] = at[b]
        BY GotoSays
    <2>2. uid[c] = m /\ \A q \in Procs : pc[q] = "copy" => at[q] # c
        <3>1. tb[m] # None /\ mem[tb[m]] = "live" /\ \E p \in Procs : mine[p] = m
            BY <1>6 DEF Get
        <3> QED BY <3>1, ToldContext
    <2>3. Core'
        BY <2>2, <1>LookCore
    <2>4. Same
        BY SameSteps
    <2>5. Fresh'
        BY <1>1, <1>3, <2>1, <2>4
    <2>6. \A b \in Actors : b # a /\ pc'[b] \in {"found", "held"} => pc[b] \in {"found", "held"} /\ uid'[at'[b]] = uid[at[b]]
        BY <2>1
    <2>7. uid'[at'[a]] = mine'[a] /\ a \notin Workers
        BY <1>1, <1>6, <2>1, <2>2
    <2>8. Owned'
        BY <1>1, <2>6, <2>7, OwnedKept
    <2> QED BY <2>3, <2>5, <2>8
<1>7. ASSUME a \in Workers, NEW k \in Cmds, Complete(a, k) PROVE Core' /\ Fresh' /\ Owned'
    <2> PICK m \in Ids : m = cmd[k].id /\ cmd[k].st = "device"
        BY <1>1, <1>7 DEF Complete
    <2>1. pc[a] = "idle" /\ UNCHANGED <<tb, lock, mem, ref, uid, list, mine>>
        BY <1>7 DEF Complete
    <2>2. CASE tb[m] = None
        <3> Release({k}) /\ UNCHANGED <<pc, at, hand>>
            BY <1>7, <2>2 DEF Complete
        <3>1. Same
            BY SameSteps
        <3>2. Core'
            BY <2>1, StayCore
        <3>3. Fresh'
            BY <1>3, <2>1, <3>1
        <3>4. Owned'
            BY <2>1, <3>1, OwnedKept DEF Same
        <3> QED BY <3>2, <3>3, <3>4
    <2>3. CASE tb[m] # None
        <3> PICK c \in Ctxs : c = tb[m]
            BY <1>1, <2>3
        <3>1. Goto(a, "found", c) /\ mem[c] = "live" /\ hand' = [hand EXCEPT ![a] = <<k>>] /\ Move({k}, "held")
            BY <1>7, <2>3 DEF Complete, Find
        <3> /\ pc'[a] = "found" /\ at'[a] = c /\ hand'[a] = <<k>>
            /\ \A b \in Actors : b # a => pc'[b] = pc[b] /\ at'[b] = at[b] /\ hand'[b] = hand[b]
            BY <1>1, <3>1, GotoSays, SMTT(20)
        <3>2. uid[c] = m /\ \A q \in Procs : pc[q] = "copy" => at[q] # c
            BY <2>3, <3>1, ToldContext, SMTT(20)
        <3>3. Core'
            BY <2>1, <3>1, <3>2, <1>LookCore
        <3>4. Same /\ cmd'[k].id = m
            BY <3>1, SameSteps, MoveSays, SMTT(20)
        <3>5. Fresh'
            BY <1>1, <1>3, <1>7, <2>1, <3>4
        <3>6. \A b \in Actors : b # a /\ pc'[b] \in {"found", "held"} => pc[b] \in {"found", "held"} /\ uid'[at'[b]] = uid[at[b]]
            BY <2>1
        <3>7. \A j \in Range(hand'[a]) : cmd'[j].id = uid'[at'[a]]
            BY <2>1, <3>2, <3>4, MembersOne, SMTT(20)
        <3>8. a \notin Procs /\ \A q \in Procs : hand'[q] = hand[q]
            BY <1>1, <1>7
        <3>9. Owned'
            <4>1. \A j \in Cmds : cmd[j].st # "idle" /\ cmd'[j].st # "idle" => cmd'[j].id = cmd[j].id /\ cmd'[j].by = cmd[j].by
                BY <3>4 DEF Same
            <4>2. \A w \in Workers : pc'[w] \in {"found", "held"} =>
                      \/ \A j \in Range(hand'[w]) : cmd'[j].id = uid'[at'[w]]
                      \/ pc[w] \in {"found", "held"} /\ uid'[at'[w]] = uid[at[w]] /\ hand'[w] = hand[w]
                BY <1>1, <3>6, <3>7
            <4>3. \A q \in Procs : pc'[q] \in {"found", "held"} =>
                      pc[q] \in {"found", "held"} /\ uid'[at'[q]] = uid[at[q]] /\ mine'[q] = mine[q]
                BY <1>1, <2>1, <3>6, <3>8
            <4> QED BY <2>1, <3>8, <4>1, <4>2, <4>3, OwnedKept
        <3> QED BY <3>3, <3>5, <3>9
    <2> QED BY <2>2, <2>3
<1>8. ASSUME a \in Workers, Enlist(a) PROVE Core' /\ Fresh' /\ Owned'
    <2>1. PICK k \in Cmds : hand[a] = <<k>>
        BY <1>8 DEF Hands, Fits, Enlist
    <2> PICK c \in Ctxs : c = at[a]
        BY <1>1, <1>8 DEF Enlist, Somewhere
    <2> /\ pc[a] = "held" /\ Goto(a, "put", c) /\ Move({k}, "listed")
        /\ list' = [list EXCEPT ![c] = @ \o <<k>>] /\ hand' = [hand EXCEPT ![a] = <<>>]
        /\ UNCHANGED <<tb, lock, mem, ref, uid, mine>>
        BY <1>8, <2>1, MembersOne DEF Enlist
    <2>2. /\ pc'[a] = "put" /\ at'[a] = c
          /\ \A b \in Actors : b # a => pc'[b] = pc[b] /\ at'[b] = at[b] /\ hand'[b] = hand[b]
        BY <1>1, GotoSays, SMTT(20)
    <2>3. cmd[k].st = "held" /\ cmd[k].id = uid[c]
        BY <1>8, <2>1, MembersOne, SMTT(20) DEF Spots, Owned
    <2>4. Same /\ cmd'[k].id = uid[c]
        BY <2>3, SameSteps, MoveSays, SMTT(20)
    <2>5. Core'
        BY <1>LookCore
    <2>6. Fresh'
        BY <1>1, <1>3, <1>8, <2>2, <2>4
    <2>7. \A d \in Ctxs : \A j \in Range(list'[d]) : j \in Range(list[d]) \/ (d = c /\ j = k)
        <3> list'[c] = list[c] \o <<k>> /\ \A d \in Ctxs : d # c => list'[d] = list[d]
            BY <1>1
        <3>1. Range(list'[c]) = Range(list[c]) \cup {k}
            BY SpotTypes, MembersAdd, SMTT(20)
        <3> QED BY <3>1
    <2>8. \A b \in Actors : pc'[b] \in {"found", "held"} =>
              b # a /\ pc[b] \in {"found", "held"} /\ uid'[at'[b]] = uid[at[b]] /\ hand'[b] = hand[b]
        BY <2>2
    <2>9. \A q \in Procs : hand'[q] = hand[q]
        BY <1>1, <1>8, <2>2
    <2>10. \A d \in Ctxs : \A j \in Range(list'[d]) : cmd'[j].id = uid'[d] \/ (j \in Range(list[d]) /\ uid'[d] = uid[d])
        BY <2>4, <2>7
    <2>11. Owned'
        BY <1>1, <2>4, <2>8, <2>9, <2>10, OwnedKept DEF Same
    <2> QED BY <2>5, <2>6, <2>11
<1>9. ASSUME a \in Procs, Take(a) PROVE Core' /\ Fresh' /\ Owned'
    <2> PICK c \in Ctxs : c = at[a]
        BY <1>1, <1>9 DEF Take, Somewhere
    <2> PICK l \in Seq(Cmds) : l = list[c]
        BY SpotTypes
    <2> PICK n \in 0 .. Len(l) : n = IF Len(l) < Nr THEN Len(l) ELSE Nr
        BY TableAssumption, SMTT(20)
    <2> DEFINE s == SubSeq(l, 1, n)
               r == SubSeq(l, n + 1, Len(l))
    <2> /\ pc[a] = "held" /\ Goto(a, "put", c) /\ Move(Range(s), "held")
        /\ list' = [list EXCEPT ![c] = r] /\ hand' = [hand EXCEPT ![a] = Fronted(s)]
        /\ UNCHANGED <<tb, lock, mem, ref, uid, mine>>
        BY <1>9 DEF Take
    <2>1. Range(l) = Range(s) \cup Range(r) /\ Range(Fronted(s)) = Range(s)
        <3>1. l \in Seq(Cmds) /\ n \in 0 .. Len(l)
            OBVIOUS
        <3> QED BY ONLY <3>1, MembersCut
    <2> HIDE DEF s, r
    <2>2. /\ pc'[a] = "put" /\ at'[a] = c /\ hand'[a] = Fronted(s)
          /\ \A b \in Actors : b # a => pc'[b] = pc[b] /\ at'[b] = at[b] /\ hand'[b] = hand[b]
        BY <1>1, GotoSays, SMTT(20)
    <2>3. list'[c] = r /\ \A d \in Ctxs : d # c => list'[d] = list[d]
        BY <1>1
    <2>4. \A k \in Range(s) : k \in Cmds /\ cmd[k].st = "listed" /\ cmd[k].id = uid[c]
        BY <2>1, SpotTypes, SMTT(20) DEF Spots, Owned
    <2>5. uid[c] = mine[a]
        BY <1>9 DEF Owned
    <2>6. \A k \in Range(s) : cmd'[k].by = a
        <3> SUFFICES ASSUME NEW k \in Range(s) PROVE cmd'[k].by = a
            OBVIOUS
        <3> k \in Cmds /\ cmd[k].st # "idle" /\ cmd[k].id = mine[a]
            BY <2>4, <2>5
        <3>1. cmd[k].by = a
            BY <1>9 DEF Fresh
        <3>2. cmd'[k].by = cmd[k].by
            BY MoveSays
        <3> QED BY <3>1, <3>2
    <2>7. Same
        BY <2>4, SameSteps
    <2>8. Core'
        BY <1>LookCore
    <2>9. Fresh'
        BY <1>1, <1>3, <2>2, <2>7
    <2>10. \A d \in Ctxs : \A k \in Range(list'[d]) : k \in Range(list[d]) /\ uid'[d] = uid[d]
        BY <2>1, <2>3
    <2>11. \A q \in Procs : \A k \in Range(hand'[q]) : cmd'[k].by = q \/ k \in Range(hand[q])
        BY <1>1, <2>1, <2>2, <2>6
    <2>12. \A b \in Actors : pc'[b] \in {"found", "held"} =>
              b # a /\ pc[b] \in {"found", "held"} /\ uid'[at'[b]] = uid[at[b]] /\ hand'[b] = hand[b]
        BY <2>2
    <2>13. Owned'
        BY <1>1, <2>7, <2>10, <2>11, <2>12, OwnedKept DEF Same
    <2> QED BY <2>8, <2>9, <2>13
<1>10. ASSUME a \in Procs, CopyOut(a) PROVE Core' /\ Fresh' /\ Owned'
    <2> /\ pc[a] = "out" /\ Goto(a, "idle", None) /\ Release(Range(hand[a])) /\ hand' = [hand EXCEPT ![a] = <<>>]
        /\ UNCHANGED <<tb, lock, mem, ref, uid, list, mine>>
        BY <1>10 DEF CopyOut
    <2>1. /\ pc'[a] = "idle" /\ hand'[a] = <<>>
          /\ \A b \in Actors : b # a => pc'[b] = pc[b] /\ at'[b] = at[b] /\ hand'[b] = hand[b]
        BY <1>1, GotoSays, SMTT(20)
    <2>2. Same
        BY SameSteps
    <2>3. Core'
        BY <1>LookCore
    <2>4. Fresh'
        BY <1>1, <1>3, <2>1, <2>2
    <2>5. \A b \in Actors : pc'[b] \in {"found", "held"} =>
              b # a /\ pc[b] \in {"found", "held"} /\ uid'[at'[b]] = uid[at[b]] /\ hand'[b] = hand[b]
        BY <2>1
    <2>6. \A q \in Procs : \A k \in Range(hand'[q]) : k \in Range(hand[q])
        BY <1>1, <2>1, MembersEmpty
    <2>7. Owned'
        BY <1>1, <2>2, <2>5, <2>6, OwnedKept DEF Same
    <2> QED BY <2>3, <2>4, <2>7
<1> ASSUME WorkerPut(a) \/ ProcPut(a) PROVE Core' /\ Fresh' /\ Owned'
    BY <1>5 DEF WorkerPut, ProcPut
<1> CASE a \in Procs /\ GetStep(a)
    BY <1>4, <1>6, <1>9, <1>10 DEF GetStep
<1> CASE a \in Workers /\ WorkerStep(a)
    BY <1>4, <1>7, <1>8 DEF WorkerStep
<1> QED OBVIOUS

\* A command is submitted with the id of its process.
LEMMA SubmitOwn ==
    ASSUME Types, Core, Fresh, Owned, Spots, Spots', NEW p \in Procs, NEW k \in Cmds, Submit(p, k)
    PROVE  Core' /\ Fresh' /\ Owned'
<1> USE DEF tableVars, ctxVars, actorVars, histVars
<1> /\ mine[p] # None /\ cmd[k] = Idle /\ cmd' = [cmd EXCEPT ![k] = Kaiocb("device", mine[p], p)]
    /\ UNCHANGED <<tb, nextId, lock, mem, ref, uid, list, pc, at, hand, mine>>
    BY DEF Submit
<1>1. Core'
    BY StayCore
<1> /\ cmd[k].st = "idle" /\ cmd'[k].id = mine[p] /\ cmd'[k].by = p
    /\ \A j \in Cmds : j # k => cmd'[j] = cmd[j]
    BY TypesSay, SMTT(20) DEF Idle, Kaiocb
<1>2. \A i : Given(i)' <=> Given(i)
    BY DEF Given, Ids
<1>3. Fresh'
    <2>1. \A j \in Cmds : cmd'[j].st # "idle" => Given(cmd'[j].id)
        BY DEF Fresh
    <2>2. \A q \in Procs, j \in Cmds : cmd'[j].st # "idle" /\ cmd'[j].id = mine[q] => cmd'[j].by = q
        BY SMTT(20) DEF Fresh
    <2>3. \A q \in Procs, j \in Cmds : cmd'[j].st # "idle" /\ pc[q] = "copy" => cmd'[j].id # uid[at[q]]
        BY SMTT(20) DEF Fresh
    <2> QED BY <1>2, <2>1, <2>2, <2>3, SMTT(20) DEF Fresh, Ids
<1>4. Owned'
    BY OwnedKept
<1> QED BY <1>1, <1>3, <1>4

\* The module is loaded again: nothing is left of the contexts, nor of their ids.
LEMMA ReloadOwn ==
    ASSUME Types, Hands, Reload
    PROVE  Core' /\ Fresh' /\ Owned'
<1> /\ \A a \in Actors : pc'[a] = "idle"
    /\ \A p \in Procs : mine'[p] = None
    /\ Ids' = Ids /\ \A i \in Ids : tb'[i] = None
    /\ \A c \in Ctxs : list'[c] = <<>> /\ ref'[c] = 0
    BY DEF Reload, actorVars, Ids
<1>1. /\ \A a \in Actors : hand'[a] = <<>>
      /\ \A k \in Cmds : cmd'[k].st = "idle"
    BY SpotsReload
<1>2. Procs \subseteq Actors /\ Workers \subseteq Actors /\ None \notin Ctxs
    BY SlotsNoActors DEF Actors
<1>3. Core'
    <2>1. \A c \in Ctxs : Holders(c)' = {}
        BY <1>2 DEF Holders
    <2>2. Counted'
        <3>1. \A c \in Ctxs : Cardinality(Holders(c)') = 0
            BY <2>1, FS_EmptySet
        <3> QED BY <3>1, SMTT(20) DEF Counted
    <2>3. Entered'
        BY DEF Entered
    <2>4. LiveUse' /\ NewOnes' /\ Deleting' /\ Unfound'
        BY <1>2 DEF LiveUse, NewOnes, Deleting, Unfound, Using
    <2> QED BY <2>2, <2>3, <2>4 DEF Core
<1>4. Fresh'
    BY <1>1, <1>2 DEF Fresh
<1>5. Owned'
    BY <1>1, <1>2, MembersEmpty DEF Owned
<1> QED BY <1>3, <1>4, <1>5

\* The inductive invariant, until freed memory is touched or the ids wrap.
Own == ~late /\ ~wrapped => Core /\ Spots /\ Fresh /\ Owned

\* At first nobody holds an event.
LEMMA InitOwn == Init => Own
<1> SUFFICES ASSUME Init PROVE Core /\ Spots /\ Fresh /\ Owned
    BY DEF Own
<1> /\ \A a \in Actors : pc[a] = "idle" /\ hand[a] = <<>>
    /\ \A p \in Procs : mine[p] = None
    /\ \A i \in Ids : tb[i] = None
    /\ \A c \in Ctxs : list[c] = <<>> /\ ref[c] = 0
    /\ \A k \in Cmds : cmd[k].st = "idle"
    BY DEF Init, Ids, Idle, Kaiocb
<1>1. Procs \subseteq Actors /\ Workers \subseteq Actors /\ None \notin Ctxs
    BY TableAssumption DEF Actors
<1>2. Core
    <2>1. \A c \in Ctxs : Holders(c) = {}
        BY <1>1 DEF Holders
    <2>2. Counted
        <3>1. \A c \in Ctxs : Cardinality(Holders(c)) = 0
            BY <2>1, FS_EmptySet
        <3> QED BY <3>1, SMTT(20) DEF Counted
    <2>3. Entered
        BY DEF Entered
    <2>4. LiveUse /\ NewOnes /\ Deleting /\ Unfound
        BY <1>1 DEF LiveUse, NewOnes, Deleting, Unfound, Using
    <2> QED BY <2>2, <2>3, <2>4 DEF Core
<1>3. Fresh
    BY <1>1 DEF Fresh
<1>4. Owned
    BY <1>1, MembersEmpty DEF Owned
<1>5. Spots
    BY MembersEmpty, SMTT(20) DEF Spots
<1> QED BY <1>2, <1>3, <1>4, <1>5

\* Every step keeps the events with the process whose command they end.
LEMMA NextOwn == Types /\ Hands /\ Own /\ [Next]_vars => Own'
<1> SUFFICES ASSUME Types, Hands, Own, [Next]_vars, ~late', ~wrapped'
             PROVE  Core' /\ Spots' /\ Fresh' /\ Owned'
    BY DEF Own
<1> USE DEF tableVars, ctxVars, actorVars, histVars
<1>1. CASE Reload
    BY <1>1, ReloadOwn, SpotsReload
<1>2. CASE UNCHANGED vars
    <2> /\ UNCHANGED <<tb, nextId, lock, mem, ref, uid, list, cmd, pc, at, hand, mine, late, wrapped>>
        BY <1>2 DEF vars
    <2> Core /\ Spots /\ Fresh /\ Owned
        BY DEF Own
    <2>1. Core'
        BY StayCore
    <2>2. Spots'
        BY SMTT(20) DEF Spots
    <2>3. Fresh'
        BY DEF Fresh, Given, Ids
    <2>4. Owned'
        BY DEF Owned
    <2> QED BY <2>1, <2>2, <2>3, <2>4
<1>3. CASE Next /\ ~Reload
    <2>1. ~late /\ ~wrapped
        <3>1. wrapped => wrapped'
            BY <1>3 DEF Next, SetBegin, SetLocked, SetEnd, DelStep, GetStep, WorkerStep, SetAlloc, SetBadArgument, SetEnter,
                   SetFull, SetReturn, SetCopyFails, DelDeref, DelClear, DelNothing, Die, Get, Ref, Take, ProcPut, CopyOut,
                   Submit, Complete, Enlist, WorkerPut
        <3> QED BY <1>3, <3>1 DEF Next
    <2> Core /\ Spots /\ Fresh /\ Owned
        BY <2>1 DEF Own
    <2>2. LiveUse /\ LiveSet
        BY DEF Core, NewOnes, LiveSet
    <2> Spots'
        BY <2>2, NextSpots
    <2>3. ASSUME NEW p \in Procs, SetBegin(p) \/ SetLocked(p) \/ SetEnd(p) PROVE Core' /\ Fresh' /\ Owned'
        BY <2>3, SetOwn, EnterOwn DEF SetLocked
    <2>4. ASSUME NEW p \in Procs, DelStep(p) \/ Die(p) PROVE Core' /\ Fresh' /\ Owned'
        BY <2>4, DelOwn
    <2> ASSUME NEW p \in Procs, GetStep(p) PROVE Core' /\ Fresh' /\ Owned'
        BY UseOwn DEF Actors
    <2> ASSUME NEW p \in Procs, NEW k \in Cmds, Submit(p, k) PROVE Core' /\ Fresh' /\ Owned'
        BY SubmitOwn
    <2> ASSUME NEW w \in Workers, WorkerStep(w) PROVE Core' /\ Fresh' /\ Owned'
        BY UseOwn DEF Actors
    <2> QED BY <1>3, <2>3, <2>4 DEF Next
<1> QED BY <1>1, <1>2, <1>3

\* set_aioctx_event and nvme_get_ioevents: until aio_context_id wraps, the events a
\* process fetches are those of its own commands, whoever had a context before it and
\* whatever of theirs was still under way.
THEOREM OwnCorrect == Spec => []OwnEvents
<1>1. Own => OwnEvents
    BY DEF Own, Owned, OwnEvents
<1>2. Table => Types
    BY DEF Table
<1>3. Events => Hands
    BY DEF Events
<1> QED BY <1>1, <1>2, <1>3, InitTable, NextTable, InitEvents, NextEvents, InitOwn, NextOwn, PTL DEF Spec

============================================================================
