-------------------------- MODULE AioEvents_proofs -------------------------
(***************************************************************************)
(* Proofs about the kaiocbs of AioTable, over the table that               *)
(* AioTable_proofs shows exact: a kaiocb is in one place, and none is      *)
(* freed while it is listed.                                               *)
(***************************************************************************)
EXTENDS AioTable_proofs

\* Most steps are first-order, so Zenon is tried first; a step that needs more cites SMT.
USE ZenonT(10), SMTT(20)

(***************************************************************************)
(* Where the kaiocbs are.                                                  *)
(***************************************************************************)
\* What actor a may hold at a place: a worker one kaiocb until it lists it, a process
\* what it took until it has copied it out.
Fits(a, where, s) ==
    /\ where \in {"idle", "set", "copy", "del"} => s = <<>>
    /\ a \in Procs /\ where \in {"found", "held"} => s = <<>>
    /\ a \in Workers /\ where = "put" => s = <<>>
    /\ a \in Workers /\ where \in {"found", "held"} => \E k \in Cmds : s = <<k>>

\* Hands are empty between two calls, and a kaiocb that was taken is in a hand.
Hands == /\ \A a \in Actors : Fits(a, pc[a], hand[a])
         /\ \A k \in Cmds : cmd[k].st = "held" => \E a \in Actors : k \in Range(hand[a])

\* The members of the sequences that the steps make.
LEMMA MembersEmpty == Range(<<>>) = {}
BY SMTT(20) DEF Range

\* A list of one kaiocb.
LEMMA MembersOne ==
    ASSUME NEW k
    PROVE  Range(<<k>>) = {k}
BY SMTT(20) DEF Range

\* A kaiocb that is added at the end of a list.
LEMMA MembersAdd ==
    ASSUME NEW l \in Seq(Cmds), NEW k \in Cmds
    PROVE  /\ DOMAIN l = 1 .. Len(l) /\ DOMAIN (l \o <<k>>) = 1 .. Len(l) + 1 /\ Len(l) \in Nat
           /\ (\A i \in DOMAIN l : (l \o <<k>>)[i] = l[i]) /\ (l \o <<k>>)[Len(l) + 1] = k
           /\ Range(l \o <<k>>) = Range(l) \cup {k}
<1>1. /\ l \o <<k>> \in Seq(Cmds) /\ Len(l \o <<k>>) = Len(l) + 1 /\ Len(l) \in Nat
      /\ (l \o <<k>>)[Len(l) + 1] = k /\ \A i \in 1 .. Len(l) : (l \o <<k>>)[i] = l[i]
    BY SMTT(20)
<1>2. DOMAIN l = 1 .. Len(l) /\ DOMAIN (l \o <<k>>) = 1 .. Len(l) + 1
    BY <1>1, SMTT(20)
<1>3. Range(l) \cup {k} \subseteq Range(l \o <<k>>)
    BY <1>1, <1>2, SMTT(20) DEF Range
<1>4. Range(l \o <<k>>) \subseteq Range(l) \cup {k}
    <2> SUFFICES ASSUME NEW i \in 1 .. Len(l) + 1 PROVE (l \o <<k>>)[i] \in Range(l) \cup {k}
        BY <1>2 DEF Range
    <2>1. CASE i = Len(l) + 1
        BY <1>1, <2>1
    <2>2. CASE i \in 1 .. Len(l)
        BY <1>1, <1>2, <2>2 DEF Range
    <2> QED BY <1>1, <2>1, <2>2, SMTT(20)
<1> QED BY <1>1, <1>2, <1>3, <1>4

\* A list that is cut after n kaiocbs, the first part turned round.
LEMMA MembersCut ==
    ASSUME NEW l \in Seq(Cmds), NEW n \in 0 .. Len(l)
    PROVE  LET s == SubSeq(l, 1, n)
               r == SubSeq(l, n + 1, Len(l))
           IN /\ Range(Fronted(s)) = Range(s) /\ Range(l) = Range(s) \cup Range(r)
              /\ s \in Seq(Cmds) /\ r \in Seq(Cmds)
              /\ \A i \in DOMAIN r : n + i \in DOMAIN l /\ r[i] = l[n + i]
              /\ (\A i, j \in DOMAIN l : l[i] = l[j] => i = j) => Range(r) \cap Range(s) = {}
              /\ l = <<>> => r = <<>>
<1> DEFINE s == SubSeq(l, 1, n)
           r == SubSeq(l, n + 1, Len(l))
<1>1. Len(l) \in Nat /\ n \in Nat /\ n <= Len(l) /\ DOMAIN l = 1 .. Len(l)
    BY SMTT(20)
<1>2. s \in Seq(Cmds) /\ Len(s) = n /\ \A i \in 1 .. n : s[i] = l[i]
    BY <1>1, SMTT(20)
<1>3. r \in Seq(Cmds) /\ Len(r) = Len(l) - n /\ \A i \in 1 .. Len(l) - n : r[i] = l[n + i]
    <2> PICK m \in Nat : m = n + 1
        BY <1>1, SMTT(20)
    <2> PICK e \in Nat : e = Len(l)
        BY <1>1
    <2>1. r = SubSeq(l, m, e) /\ m >= 1
        BY <1>1, SMTT(20)
    <2>2. r \in Seq(Cmds)
        BY <1>1, <2>1, SMTT(20)
    <2>3. Len(r) = IF m <= e THEN (e - m) + 1 ELSE 0
        BY <1>1, <2>1, SMTT(20)
    <2>4. Len(r) = e - n
        BY <1>1, <2>3, SMTT(20)
    <2>5. \A i \in 1 .. Len(r) : r[i] = l[(m + i) - 1]
        BY <1>1, <2>1, <2>4, SMTT(20)
    <2>6. \A i \in 1 .. e - n : (m + i) - 1 = n + i
        BY <1>1, SMTT(20)
    <2> QED BY <2>2, <2>4, <2>5, <2>6
<1> HIDE DEF s, r
<1>4. DOMAIN s = 1 .. n /\ DOMAIN r = 1 .. Len(l) - n
    BY <1>2, <1>3, SMTT(20)
<1>5. Range(s) = {l[i] : i \in 1 .. n}
    BY <1>2, <1>4 DEF Range
<1>6. Range(l) = Range(s) \cup Range(r)
    <2>1. Range(s) \cup Range(r) \subseteq Range(l)
        <3>1. ASSUME NEW i \in 1 .. n PROVE s[i] \in Range(l)
            BY <1>1, <1>2, SMTT(20) DEF Range
        <3>2. ASSUME NEW i \in 1 .. Len(l) - n PROVE r[i] \in Range(l)
            <4>1. n + i \in 1 .. Len(l)
                BY <1>1, SMTT(20)
            <4> QED BY <1>1, <1>3, <4>1 DEF Range
        <3> QED BY <1>4, <3>1, <3>2 DEF Range
    <2>2. ASSUME NEW i \in 1 .. Len(l) PROVE l[i] \in Range(s) \cup Range(r)
        <3>1. CASE i <= n
            BY <1>1, <1>5, <3>1, SMTT(20)
        <3>2. CASE i > n
            <4>1. i - n \in 1 .. Len(l) - n /\ n + (i - n) = i
                BY <1>1, <3>2, SMTT(20)
            <4>2. r[i - n] = l[i]
                BY <1>3, <4>1
            <4> QED BY <1>4, <4>1, <4>2 DEF Range
        <3> QED BY <1>1, <3>1, <3>2, SMTT(20)
    <2> QED BY <1>1, <2>1, <2>2 DEF Range
<1>7. Range(Fronted(s)) = Range(s)
    <2>1. DOMAIN Fronted(s) = 1 .. n /\ \A i \in 1 .. n : Fronted(s)[i] = s[(n - i) + 1]
        BY <1>2, SMTT(20) DEF Fronted
    <2>2. \A i \in 1 .. n : (n - i) + 1 \in 1 .. n /\ (n - ((n - i) + 1)) + 1 = i
        BY <1>1, SMTT(20)
    <2>3. Range(Fronted(s)) \subseteq Range(s)
        BY <1>4, <2>1, <2>2, SMTT(20) DEF Range
    <2>4. \A i \in 1 .. n : s[i] = Fronted(s)[(n - i) + 1]
        BY <2>1, <2>2
    <2>5. Range(s) \subseteq Range(Fronted(s))
        BY <1>4, <2>1, <2>2, <2>4, SMTT(20) DEF Range
    <2> QED BY <2>3, <2>5
<1>8. \A i \in DOMAIN r : n + i \in DOMAIN l /\ r[i] = l[n + i]
    BY <1>1, <1>3, <1>4, SMTT(20)
<1>9. ASSUME \A i, j \in DOMAIN l : l[i] = l[j] => i = j PROVE Range(r) \cap Range(s) = {}
    <2> SUFFICES ASSUME NEW i \in DOMAIN r, NEW x \in 1 .. n, r[i] = l[x] PROVE FALSE
        BY <1>5 DEF Range
    <2>1. n + i = x
        BY <1>1, <1>8, <1>9, SMTT(20)
    <2>2. i \in Nat \ {0}
        BY <1>1, <1>4, SMTT(20)
    <2> QED BY <1>1, <2>1, <2>2, SMTT(20)
<1>10. l = <<>> => r = <<>>
    <2> SUFFICES ASSUME l = <<>> PROVE r = <<>>
        OBVIOUS
    <2>1. Len(r) = 0
        BY <1>1, <1>3, SMTT(20)
    <2> QED BY <1>3, <2>1, SMTT(20)
<1> QED BY <1>2, <1>3, <1>6, <1>7, <1>8, <1>9, <1>10 DEF s, r

\* What happens to a kaiocb that is freed or moved, and to one that is not.
LEMMA ReleaseSays ==
    ASSUME NEW ks, Release(ks)
    PROVE  \A k \in Cmds : IF k \in ks THEN cmd'[k] = Idle /\ cmd'[k].st = "idle" ELSE cmd'[k] = cmd[k]
BY DEF Release, Idle, Kaiocb

\* Moving kaiocbs changes the state of those, and neither their id nor their owner.
LEMMA MoveSays ==
    ASSUME Types, NEW ks, NEW st \in {"held", "listed"}, Move(ks, st)
    PROVE  \A k \in Cmds : IF k \in ks THEN cmd'[k].st = st /\ cmd'[k].id = cmd[k].id /\ cmd'[k].by = cmd[k].by
                           ELSE cmd'[k] = cmd[k]
<1>1. cmd \in [Cmds -> [st : {"idle", "device", "held", "listed"}, id : Ids \cup {None}, by : Procs \cup {None}]]
    BY TypesSay
<1>2. cmd' = [k \in Cmds |-> IF k \in ks THEN [cmd[k] EXCEPT !.st = st] ELSE cmd[k]]
    BY DEF Move
<1> SUFFICES ASSUME NEW k \in Cmds, k \in ks
             PROVE  cmd'[k].st = st /\ cmd'[k].id = cmd[k].id /\ cmd'[k].by = cmd[k].by
    BY <1>2
<1>3. cmd'[k] = [cmd[k] EXCEPT !.st = st] /\ cmd[k] \in [st : {"idle", "device", "held", "listed"}, id : Ids \cup {None}, by : Procs \cup {None}]
    BY <1>1, <1>2
<1> QED BY <1>3

\* What is left of the kaiocbs and the lists when a reference is dropped.
LEMMA DerefSays ==
    ASSUME Types, NEW c \in Ctxs, Deref(c)
    PROVE  /\ ref[c] = 1 => /\ mem' = [mem EXCEPT ![c] = "free"] /\ uid' = [uid EXCEPT ![c] = 0]
                            /\ list' = [list EXCEPT ![c] = <<>>]
                            /\ \A k \in Cmds : IF k \in Range(list[c]) THEN cmd'[k] = Idle /\ cmd'[k].st = "idle"
                                               ELSE cmd'[k] = cmd[k]
           /\ ref[c] # 1 => UNCHANGED <<mem, uid, list, cmd>>
<1>1. CASE ref[c] = 1
    <2>1. /\ mem' = [mem EXCEPT ![c] = "free"] /\ uid' = [uid EXCEPT ![c] = 0]
          /\ list' = [list EXCEPT ![c] = <<>>] /\ Release(Range(list[c]))
        BY <1>1 DEF Deref
    <2> QED BY <1>1, <2>1, ReleaseSays
<1>2. CASE ref[c] # 1
    BY <1>2 DEF Deref
<1> QED BY <1>1, <1>2

\* No step loses or mixes up what the actors hold.
LEMMA NextHands ==
    ASSUME Types, Hands, [Next]_vars
    PROVE  Hands'

\* An actor goes somewhere and holds what it may hold there; nothing that is held by
\* nobody else is lost from its hand.
<1>HandsMove. ASSUME Types, Hands, NEW a \in Actors, NEW where, NEW s,
                     pc' = [pc EXCEPT ![a] = where], hand' = [hand EXCEPT ![a] = s], Fits(a, where, s),
                     \A k \in Cmds : cmd'[k].st = "held" =>
                         k \in Range(s) \/ \E b \in Actors \ {a} : k \in Range(hand[b])
              PROVE  Hands'
    <2> USE <1>HandsMove
    <2>1. DOMAIN pc = Actors /\ DOMAIN hand = Actors
        BY TypesSay
    <2>2. /\ pc'[a] = where /\ hand'[a] = s
          /\ \A b \in Actors : b # a => pc'[b] = pc[b] /\ hand'[b] = hand[b]
        BY <2>1
    <2>3. \A b \in Actors : Fits(b, pc'[b], hand'[b])
        BY <2>2 DEF Hands
    <2>4. \A k \in Cmds : cmd'[k].st = "held" => \E b \in Actors : k \in Range(hand'[b])
        BY <2>2
    <2>5. \A b \in Actors : Fits(b, pc[b], hand[b])'
        BY <2>3 DEF Fits
    <2> QED BY <2>4, <2>5 DEF Hands
\* The same with the hand left alone.
<1>HandsGo. ASSUME Types, Hands, NEW a \in Actors, NEW where, NEW c, Goto(a, where, c), UNCHANGED hand,
                   Fits(a, where, hand[a]),
                   \A k \in Cmds : cmd'[k].st = "held" => cmd[k].st = "held"
            PROVE  Hands'
    <2> USE <1>HandsGo
    <2>1. hand \in [Actors -> Seq(Cmds)]
        BY TypesSay
    <2>2. hand' = [hand EXCEPT ![a] = hand[a]] /\ pc' = [pc EXCEPT ![a] = where]
        BY <2>1 DEF Goto
    <2>3. \A k \in Cmds : cmd'[k].st = "held" => \E b \in Actors : k \in Range(hand[b])
        BY DEF Hands
    <2>4. \A k \in Cmds : cmd'[k].st = "held" =>
              k \in Range(hand[a]) \/ \E b \in Actors \ {a} : k \in Range(hand[b])
        BY <2>3
    <2> QED BY <2>2, <2>4, <1>HandsMove
\* A step that leaves places and hands alone.
<1>HandsStay. ASSUME Hands, UNCHANGED <<pc, hand>>, \A k \in Cmds : cmd'[k].st = "held" => cmd[k].st = "held"
              PROVE  Hands'
    <2> USE <1>HandsStay
    <2>1. \A a \in Actors : Fits(a, pc[a], hand[a])'
        BY DEF Hands, Fits
    <2>2. \A k \in Cmds : cmd'[k].st = "held" => \E a \in Actors : k \in Range(hand'[a])
        BY DEF Hands
    <2> QED BY <2>1, <2>2 DEF Hands
<1> USE DEF tableVars, ctxVars, actorVars, histVars
<1>0. /\ Procs \subseteq Actors /\ Workers \subseteq Actors
      /\ (\A p \in Procs : p \notin Workers)
      /\ \A a \in Actors : Fits(a, pc[a], hand[a])
    BY TableAssumption DEF Actors, Hands
<1>1. ASSUME NEW p \in Procs, SetBegin(p) \/ SetLocked(p) \/ SetEnd(p) PROVE Hands'
    <2>1. UNCHANGED <<cmd, hand>>
        BY <1>1 DEF SetBegin, SetLocked, SetEnd, SetAlloc, SetBadArgument, SetEnter, SetFull, SetReturn, SetCopyFails
    <2>2. hand[p] = <<>>
        BY <1>0, <1>1 DEF Fits, SetBegin, SetLocked, SetEnd, SetAlloc, SetBadArgument, SetEnter, SetFull, SetReturn,
                          SetCopyFails, MayAlloc
    <2>3. \A where \in {"set", "copy", "idle"} : Fits(p, where, hand[p])
        BY <1>0, <2>2 DEF Fits
    <2>4. CASE SetBadArgument(p)
        BY <2>1, <2>4, <1>HandsStay DEF SetBadArgument
    <2>5. ASSUME NEW where \in {"set", "copy", "idle"}, NEW c, Goto(p, where, c) PROVE Hands'
        BY <1>0, <2>1, <2>3, <2>5, <1>HandsGo
    <2> QED BY <1>1, <2>4, <2>5
            DEF SetBegin, SetLocked, SetEnd, SetAlloc, SetEnter, SetFull, SetReturn, SetCopyFails
<1>2. ASSUME NEW p \in Procs, DelStep(p) \/ Die(p) PROVE Hands'
    <2>1. UNCHANGED hand /\ hand[p] = <<>>
        BY <1>0, <1>2 DEF Fits, DelStep, DelDeref, DelClear, DelNothing, Die
    <2>2. \A where \in {"del", "idle"} : Fits(p, where, hand[p])
        BY <1>0, <2>1 DEF Fits
    <2>3. CASE DelDeref(p)
        <3>1. mine[p] \in Ids /\ tb[mine[p]] \in Ctxs /\ Goto(p, "del", tb[mine[p]])
            BY <2>3, TypesSay DEF DelDeref
        <3>2. Deref(tb[mine[p]]) \/ UNCHANGED cmd
            BY <2>3 DEF DelDeref
        <3>3. \A k \in Cmds : cmd'[k].st = "held" => cmd[k].st = "held"
            BY <3>1, <3>2, DerefSays
        <3> QED BY <1>0, <2>1, <2>2, <3>1, <3>3, <1>HandsGo
    <2>4. CASE DelClear(p)
        BY <1>0, <2>1, <2>2, <2>4, <1>HandsGo DEF DelClear
    <2>5. CASE DelNothing(p) \/ Die(p)
        BY <2>5, <1>HandsStay DEF DelNothing, Die
    <2> QED BY <1>2, <2>3, <2>4, <2>5 DEF DelStep
<1>3. ASSUME NEW a \in Actors, Ref(a) PROVE Hands'
    <2>1. Fits(a, "held", hand[a]) /\ UNCHANGED <<cmd, hand>> /\ Goto(a, "held", at[a])
        BY <1>0, <1>3 DEF Fits, Ref
    <2> QED BY <2>1, <1>HandsGo
<1>4. ASSUME NEW a \in Actors, WorkerPut(a) \/ ProcPut(a) PROVE Hands'
    <2>1. at[a] \in Ctxs /\ Deref(at[a]) /\ UNCHANGED hand
        BY <1>4, TypesSay DEF WorkerPut, ProcPut, Somewhere
    <2>2. \A k \in Cmds : cmd'[k].st = "held" => cmd[k].st = "held"
        BY <2>1, DerefSays
    <2>3. CASE WorkerPut(a)
        <3>1. Fits(a, "idle", hand[a]) /\ Goto(a, "idle", None)
            BY <1>0, <2>3 DEF Fits, WorkerPut
        <3> QED BY <2>1, <2>2, <3>1, <1>HandsGo
    <2>4. CASE ProcPut(a)
        <3>1. Fits(a, "out", hand[a]) /\ Goto(a, "out", None)
            BY <1>0, <2>4 DEF Fits, ProcPut
        <3> QED BY <2>1, <2>2, <3>1, <1>HandsGo
    <2> QED BY <1>4, <2>3, <2>4
<1>5. ASSUME NEW p \in Procs, Get(p) PROVE Hands'
    <2>1. Fits(p, "found", hand[p]) /\ UNCHANGED <<cmd, hand>> /\ Goto(p, "found", tb[mine[p]])
        BY <1>0, <1>5 DEF Fits, Get, Find
    <2> QED BY <1>0, <2>1, <1>HandsGo
<1>6. ASSUME NEW w \in Workers, NEW k \in Cmds, Complete(w, k) PROVE Hands'
    <2>1. CASE tb[cmd[k].id] = None
        <3>1. Release({k}) /\ UNCHANGED <<pc, hand>>
            BY <1>6, <2>1 DEF Complete
        <3>2. \A j \in Cmds : cmd'[j].st = "held" => cmd[j].st = "held"
            BY <3>1, ReleaseSays
        <3> QED BY <3>1, <3>2, <1>HandsStay
    <2>2. CASE tb[cmd[k].id] # None
        <3>1. /\ Move({k}, "held") /\ hand' = [hand EXCEPT ![w] = <<k>>] /\ pc' = [pc EXCEPT ![w] = "found"]
              /\ pc[w] = "idle"
            BY <1>6, <2>2 DEF Complete, Find, Goto
        <3>2. hand[w] = <<>> /\ Fits(w, "found", <<k>>)
            BY <1>0, <3>1 DEF Fits
        <3>3. \A j \in Cmds : j # k => cmd'[j] = cmd[j]
            BY <3>1, MoveSays
        <3>4. \A j \in Cmds : cmd'[j].st = "held" =>
                  j \in Range(<<k>>) \/ \E b \in Actors \ {w} : j \in Range(hand[b])
            <4> SUFFICES ASSUME NEW j \in Cmds, cmd'[j].st = "held", j # k
                         PROVE  \E b \in Actors \ {w} : j \in Range(hand[b])
                BY MembersOne
            <4>1. PICK b \in Actors : j \in Range(hand[b])
                BY <3>3 DEF Hands
            <4> QED BY <3>2, <4>1, MembersEmpty
        <3> QED BY <1>0, <3>1, <3>2, <3>4, <1>HandsMove
    <2> QED BY <2>1, <2>2
<1>7. ASSUME NEW w \in Workers, Enlist(w) PROVE Hands'
    <2>1. /\ Move(Range(hand[w]), "listed") /\ hand' = [hand EXCEPT ![w] = <<>>] /\ pc' = [pc EXCEPT ![w] = "put"]
        BY <1>7 DEF Enlist, Goto
    <2>2. Fits(w, "put", <<>>)
        BY <1>0 DEF Fits
    <2>3. \A j \in Cmds : cmd'[j].st = "held" => j \notin Range(hand[w]) /\ cmd[j].st = "held"
        BY <2>1, MoveSays
    <2>4. \A j \in Cmds : cmd'[j].st = "held" => \E b \in Actors \ {w} : j \in Range(hand[b])
        BY <2>3 DEF Hands
    <2> QED BY <1>0, <2>1, <2>2, <2>4, <1>HandsMove
<1>8. ASSUME NEW p \in Procs, Take(p) PROVE Hands'
    <2> PICK l, n : /\ l = list[at[p]] /\ n = IF Len(l) < Nr THEN Len(l) ELSE Nr
        OBVIOUS
    <2>1. /\ hand' = [hand EXCEPT ![p] = Fronted(SubSeq(l, 1, n))] /\ pc' = [pc EXCEPT ![p] = "put"]
          /\ Move(Range(SubSeq(l, 1, n)), "held") /\ pc[p] = "held"
        BY <1>8 DEF Take, Goto
    <2>2. at[p] \in Ctxs
        BY <1>0, <2>1, TypesSay DEF Somewhere
    <2>3. l \in Seq(Cmds)
        BY <2>2, TypesSay
    <2>4. n \in 0 .. Len(l)
        BY <2>3, TableAssumption, SMTT(20)
    <2>5. hand[p] = <<>> /\ Fits(p, "put", Fronted(SubSeq(l, 1, n)))
        BY <1>0, <2>1 DEF Fits
    <2>6. Range(Fronted(SubSeq(l, 1, n))) = Range(SubSeq(l, 1, n))
        BY <2>3, <2>4, MembersCut, SMTT(20)
    <2>7. \A j \in Cmds : cmd'[j].st = "held" =>
              j \in Range(SubSeq(l, 1, n)) \/ \E b \in Actors \ {p} : j \in Range(hand[b])
        <3> SUFFICES ASSUME NEW j \in Cmds, cmd'[j].st = "held", j \notin Range(SubSeq(l, 1, n))
                     PROVE  \E b \in Actors \ {p} : j \in Range(hand[b])
            OBVIOUS
        <3>1. cmd[j].st = "held"
            BY <2>1, MoveSays
        <3>2. PICK b \in Actors : j \in Range(hand[b])
            BY <3>1 DEF Hands
        <3> QED BY <2>5, <3>2, MembersEmpty
    <2> QED BY <1>0, <2>1, <2>5, <2>6, <2>7, <1>HandsMove
<1>9. ASSUME NEW p \in Procs, CopyOut(p) PROVE Hands'
    <2>1. Release(Range(hand[p])) /\ hand' = [hand EXCEPT ![p] = <<>>] /\ pc' = [pc EXCEPT ![p] = "idle"]
        BY <1>9 DEF CopyOut, Goto
    <2>2. Fits(p, "idle", <<>>)
        BY <1>0 DEF Fits
    <2>3. \A j \in Cmds : cmd'[j].st = "held" => j \notin Range(hand[p]) /\ cmd[j].st = "held"
        BY <2>1, ReleaseSays
    <2>4. \A j \in Cmds : cmd'[j].st = "held" => \E b \in Actors \ {p} : j \in Range(hand[b])
        BY <2>3 DEF Hands
    <2> QED BY <1>0, <2>1, <2>2, <2>4, <1>HandsMove
<1>10. ASSUME NEW p \in Procs, NEW k \in Cmds, Submit(p, k) PROVE Hands'
    <2>1. cmd' = [cmd EXCEPT ![k] = Kaiocb("device", mine[p], p)] /\ UNCHANGED <<pc, hand>>
        BY <1>10 DEF Submit
    <2>2. Kaiocb("device", mine[p], p).st = "device"
        BY DEF Kaiocb
    <2>3. \A j \in Cmds : cmd'[j].st = "held" => cmd[j].st = "held"
        BY <2>1, <2>2, TypesSay
    <2> QED BY <2>1, <2>3, <1>HandsStay
<1>11. CASE Reload
    <2>1. Release({k \in Cmds : cmd[k].st = "listed"}) /\ UNCHANGED <<pc, hand>>
        BY <1>11 DEF Reload
    <2>2. \A j \in Cmds : cmd'[j].st = "held" => cmd[j].st = "held"
        BY <2>1, ReleaseSays
    <2> QED BY <2>1, <2>2, <1>HandsStay
<1>12. CASE UNCHANGED vars
    BY <1>12, <1>HandsStay DEF vars
<1>13. ASSUME NEW p \in Procs, GetStep(p) PROVE Hands'
    BY <1>0, <1>3, <1>4, <1>5, <1>8, <1>9, <1>13 DEF GetStep
<1>14. ASSUME NEW w \in Workers, WorkerStep(w) PROVE Hands'
    BY <1>0, <1>3, <1>4, <1>6, <1>7, <1>14 DEF WorkerStep
<1> QED BY <1>1, <1>2, <1>10, <1>11, <1>12, <1>13, <1>14 DEF Next

\* Nothing is on two lists, twice on one, or in two hands, and what is on a list or in
\* a hand says so; a context outside the table has no list.
Spots == /\ \A c \in Ctxs : \A k \in Range(list[c]) : cmd[k].st = "listed"
         /\ \A a \in Actors : \A k \in Range(hand[a]) : cmd[k].st = "held"
         /\ \A c, d \in Ctxs : \A i \in DOMAIN list[c], j \in DOMAIN list[d] :
                list[c][i] = list[d][j] => c = d /\ i = j
         /\ \A a, b \in Actors : Range(hand[a]) \cap Range(hand[b]) # {} => a = b
         /\ \A c \in Ctxs : mem[c] \in {"free", "new"} => list[c] = <<>>

\* A lookup is on a live context.
Using(a) == pc[a] \in {"found", "held", "put"}
LiveUse == \A a \in Actors : Using(a) => mem[at[a]] = "live"

\* A call that is to enter its context has a new one.
LiveSet == \A p \in Procs : pc[p] = "set" => mem[at[p]] = "new"

\* What is on a list or in a hand is a command.
LEMMA SpotTypes ==
    ASSUME Types
    PROVE  /\ \A c \in Ctxs : Range(list[c]) \subseteq Cmds /\ DOMAIN list[c] = 1 .. Len(list[c]) /\ list[c] \in Seq(Cmds)
           /\ \A a \in Actors : Range(hand[a]) \subseteq Cmds /\ hand[a] \in Seq(Cmds)
<1>1. list \in [Ctxs -> Seq(Cmds)] /\ hand \in [Actors -> Seq(Cmds)]
    BY TypesSay
<1>2. ASSUME NEW s \in Seq(Cmds) PROVE Range(s) \subseteq Cmds /\ DOMAIN s = 1 .. Len(s)
    BY SMTT(20) DEF Range
<1> QED BY <1>1, <1>2

\* Lists and hands stay, and what is in them; no context goes back to the pool.
LEMMA SpotsStay ==
    ASSUME Types, Spots, UNCHANGED <<list, hand>>,
           \A k \in Cmds : cmd[k].st \in {"listed", "held"} => cmd'[k].st = cmd[k].st,
           \A c \in Ctxs : mem'[c] \in {"free", "new"} => mem[c] \in {"free", "new"}
    PROVE  Spots'
<1>1. \A c \in Ctxs : \A k \in Range(list[c]) : cmd'[k].st = "listed"
    BY SpotTypes DEF Spots
<1>2. \A a \in Actors : \A k \in Range(hand[a]) : cmd'[k].st = "held"
    BY SpotTypes DEF Spots
<1>3. \A c \in Ctxs : mem'[c] \in {"free", "new"} => list[c] = <<>>
    BY DEF Spots
<1> QED BY <1>1, <1>2, <1>3, SMTT(20) DEF Spots

\* nvme_set_aioctx: the list of a new context is empty before it is made so.
LEMMA SpotsSet ==
    ASSUME Types, Spots, LiveSet, NEW p \in Procs, SetBegin(p) \/ SetLocked(p) \/ SetEnd(p)
    PROVE  Spots' /\ UNCHANGED <<cmd, list, hand>>
<1> USE DEF tableVars, ctxVars, actorVars, histVars
<1>1. mem \in [Ctxs -> {"free", "new", "live", "leaked"}] /\ list \in [Ctxs -> Seq(Cmds)] /\ p \in Actors
    BY TypesSay DEF Actors
<1>2. CASE SetAlloc(p) \/ SetBadArgument(p)
    <2>1. /\ UNCHANGED <<cmd, list, hand>> /\ MayAlloc(p)
          /\ \E v : mem' = [mem EXCEPT ![Allocated] = v]
        BY <1>2 DEF SetAlloc, SetBadArgument
    <2>2. Allocated \in Ctxs /\ mem[Allocated] = "free"
        BY <2>1 DEF MayAlloc, Allocated
    <2>3. \A c \in Ctxs : mem'[c] \in {"free", "new"} => mem[c] \in {"free", "new"}
        BY <1>1, <2>1, <2>2
    <2> QED BY <2>1, <2>3, SpotsStay
<1>3. CASE SetEnter(p)
    <2> PICK c \in Ctxs : c = at[p]
        BY <1>1, <1>3, TypesSay DEF SetEnter, Somewhere
    <2>1. list[c] = <<>>
        BY <1>3 DEF SetEnter, LiveSet, Spots
    <2>2. UNCHANGED <<cmd, hand>> /\ list' = [list EXCEPT ![c] = <<>>] /\ mem' = [mem EXCEPT ![c] = "live"]
        BY <1>3 DEF SetEnter
    <2>3. list' = list
        BY <1>1, <2>1, <2>2
    <2>4. \A d \in Ctxs : mem'[d] \in {"free", "new"} => mem[d] \in {"free", "new"}
        BY <1>1, <2>2
    <2> QED BY <2>2, <2>3, <2>4, SpotsStay
<1>4. CASE SetFull(p) \/ SetCopyFails(p)
    <2>1. UNCHANGED <<cmd, list, hand>> /\ mem' = [mem EXCEPT ![at[p]] = "leaked"]
        BY <1>4 DEF SetFull, SetCopyFails
    <2>2. \A d \in Ctxs : mem'[d] \in {"free", "new"} => mem[d] \in {"free", "new"}
        BY <1>1, <2>1
    <2> QED BY <2>1, <2>2, SpotsStay
<1>5. CASE SetReturn(p)
    <2>1. UNCHANGED <<cmd, list, hand, mem>>
        BY <1>5 DEF SetReturn
    <2> QED BY <2>1, SpotsStay
<1> QED BY <1>2, <1>3, <1>4, <1>5 DEF SetBegin, SetLocked, SetEnd

\* The module is loaded again: every list and every hand is empty.
LEMMA SpotsReload ==
    ASSUME Types, Hands, Reload
    PROVE  /\ Spots' /\ \A a \in Actors : hand'[a] = <<>>
           /\ \A k \in Cmds : cmd'[k].st = "idle"
<1>1. /\ list' = [c \in Ctxs |-> <<>>] /\ UNCHANGED <<hand, pc>> /\ \A a \in Actors : pc[a] = "idle"
      /\ Release({k \in Cmds : cmd[k].st = "listed"})
      /\ \A k \in Cmds : cmd[k].st # "device"
    BY DEF Reload, actorVars
<1>2. \A a \in Actors : hand'[a] = <<>> /\ hand[a] = <<>>
    BY <1>1 DEF Hands, Fits
<1>3. \A k \in Cmds : cmd[k].st # "held"
    BY <1>2, MembersEmpty DEF Hands
<1>4. \A k \in Cmds : cmd'[k].st = "idle"
    <2> SUFFICES ASSUME NEW k \in Cmds PROVE cmd'[k].st = "idle"
        OBVIOUS
    <2>1. cmd[k].st \in {"idle", "listed"}
        <3>1. cmd[k] \in [st : {"idle", "device", "held", "listed"}, id : Ids \cup {None}, by : Procs \cup {None}]
            BY TypesSay
        <3> QED BY <1>1, <1>3, <3>1
    <2>2. CASE cmd[k].st = "listed"
        BY <1>1, <2>2, ReleaseSays, SMTT(20)
    <2>3. CASE cmd[k].st # "listed"
        <3>1. cmd'[k] = cmd[k]
            BY <1>1, <2>3, ReleaseSays
        <3> QED BY <2>1, <2>3, <3>1
    <2> QED BY <2>2, <2>3
<1>5. \A c \in Ctxs : list'[c] = <<>> /\ Range(list'[c]) = {} /\ DOMAIN list'[c] = {}
    BY <1>1, MembersEmpty, SMTT(20)
<1>6. \A a \in Actors : Range(hand'[a]) = {}
    BY <1>2, MembersEmpty
<1> QED BY <1>2, <1>4, <1>5, <1>6 DEF Spots

\* Every step keeps the kaiocbs apart.
LEMMA NextSpots ==
    ASSUME Types, Hands, Spots, LiveUse, LiveSet, [Next]_vars
    PROVE  Spots'
\* What Spots says of the state before the step.
<1>a. \A c \in Ctxs : \A k \in Range(list[c]) : k \in Cmds /\ cmd[k].st = "listed"
    BY SpotTypes DEF Spots
<1>b. \A a \in Actors : \A k \in Range(hand[a]) : k \in Cmds /\ cmd[k].st = "held"
    BY SpotTypes DEF Spots
<1>c. \A c, d \in Ctxs : \A i \in DOMAIN list[c], j \in DOMAIN list[d] : list[c][i] = list[d][j] => c = d /\ i = j
    BY DEF Spots
<1>d. \A a, b \in Actors : Range(hand[a]) \cap Range(hand[b]) # {} => a = b
    BY DEF Spots

\* A reference is dropped: if it is the last one, the list goes with the context.
<1>SpotsDeref. ASSUME Types, Spots, NEW c \in Ctxs, Deref(c), UNCHANGED hand
               PROVE  Spots'
    <2> USE <1>SpotsDeref
    <2>1. /\ list \in [Ctxs -> Seq(Cmds)] /\ mem \in [Ctxs -> {"free", "new", "live", "leaked"}]
        BY TypesSay
    <2>2. CASE ref[c] # 1
        <3>1. UNCHANGED <<mem, list, cmd>>
            BY <2>2, DerefSays
        <3> QED BY <3>1, SpotsStay
    <2>3. CASE ref[c] = 1
        <3>1. /\ mem' = [mem EXCEPT ![c] = "free"] /\ list' = [list EXCEPT ![c] = <<>>]
              /\ \A k \in Cmds : k \notin Range(list[c]) => cmd'[k] = cmd[k]
            BY <2>3, DerefSays
        <3>2. list'[c] = <<>> /\ \A d \in Ctxs : d # c => list'[d] = list[d] /\ mem'[d] = mem[d]
            BY <2>1, <3>1
        <3>3. \A d \in Ctxs : d # c => Range(list[d]) \cap Range(list[c]) = {}
            BY SMTT(20) DEF Spots, Range
        <3>4. ASSUME NEW d \in Ctxs, NEW k \in Range(list'[d]) PROVE cmd'[k].st = "listed"
            <4>1. d # c
                BY <3>2, <3>4, MembersEmpty
            <4>2. k \in Range(list[d]) /\ k \in Cmds /\ k \notin Range(list[c])
                BY <3>2, <3>3, <3>4, <4>1, SpotTypes
            <4> QED BY <3>1, <4>2 DEF Spots
        <3>5. ASSUME NEW a \in Actors, NEW k \in Range(hand[a]) PROVE cmd'[k].st = "held"
            <4>1. k \in Cmds /\ cmd[k].st = "held"
                BY SpotTypes DEF Spots
            <4>2. k \notin Range(list[c])
                BY <4>1 DEF Spots
            <4> QED BY <3>1, <4>1, <4>2
        <3>6. ASSUME NEW d \in Ctxs, NEW e \in Ctxs, NEW i \in DOMAIN list'[d], NEW j \in DOMAIN list'[e],
                     list'[d][i] = list'[e][j]
              PROVE  d = e /\ i = j
            <4>1. DOMAIN <<>> = {}
                BY SMTT(20)
            <4>2. d # c /\ e # c
                BY <3>2, <3>6, <4>1
            <4>3. list'[d] = list[d] /\ list'[e] = list[e]
                BY <3>2, <4>2
            <4> QED BY <3>6, <4>3, SMTT(20) DEF Spots
        <3>7. \A d \in Ctxs : mem'[d] \in {"free", "new"} => list'[d] = <<>>
            BY <3>2 DEF Spots
        <3>8. \A a, b \in Actors : Range(hand[a]) \cap Range(hand[b]) # {} => a = b
            BY DEF Spots
        <3> QED BY <3>4, <3>5, <3>6, <3>7, <3>8 DEF Spots
    <2> QED BY <2>2, <2>3
\* A kaiocb goes from the device to the hand of a worker.
<1>SpotsComplete. ASSUME Types, Hands, Spots, NEW w \in Workers, NEW k \in Cmds, Complete(w, k), UNCHANGED mem
                  PROVE  Spots'
    <2> USE <1>SpotsComplete
    <2> USE DEF tableVars, ctxVars, actorVars, histVars
    <2>0. w \in Actors /\ cmd[k].st = "device" /\ UNCHANGED list
        BY DEF Actors, Complete
    <2>1. CASE tb[cmd[k].id] = None
        <3>1. Release({k}) /\ UNCHANGED hand
            BY <2>1 DEF Complete
        <3>2. \A j \in Cmds : j # k => cmd'[j] = cmd[j]
            BY <3>1, ReleaseSays
        <3> QED BY <2>0, <3>1, <3>2, SpotsStay
    <2>2. CASE tb[cmd[k].id] # None
        <3>1. Move({k}, "held") /\ hand' = [hand EXCEPT ![w] = <<k>>] /\ pc[w] = "idle"
            BY <2>2 DEF Complete
        <3>2. cmd'[k].st = "held" /\ \A j \in Cmds : j # k => cmd'[j] = cmd[j]
            BY <3>1, MoveSays
        <3>3. hand'[w] = <<k>> /\ \A a \in Actors : a # w => hand'[a] = hand[a]
            BY <2>0, <3>1, TypesSay
        <3>4. \A a \in Actors : k \notin Range(hand[a])
            BY <2>0 DEF Spots
        <3>5. \A a \in Actors : Range(hand'[a]) = IF a = w THEN {k} ELSE Range(hand[a])
            BY <3>3, MembersOne
        <3>6. \A c \in Ctxs : \A j \in Range(list[c]) : cmd'[j].st = "listed"
            BY <2>0, <3>2, SpotTypes, SMTT(20) DEF Spots
        <3>7. \A a \in Actors : \A j \in Range(hand'[a]) : cmd'[j].st = "held"
            BY <3>2, <3>5, SpotTypes, SMTT(20) DEF Spots
        <3>8. \A a, b \in Actors : Range(hand'[a]) \cap Range(hand'[b]) # {} => a = b
            BY <3>4, <3>5, SMTT(20) DEF Spots
        <3> QED BY <2>0, <3>6, <3>7, <3>8, SMTT(20) DEF Spots
    <2> QED BY <2>1, <2>2
\* It goes from there to the end of a list.
<1>SpotsEnlist. ASSUME Types, Hands, Spots, LiveUse, NEW w \in Workers, Enlist(w)
                PROVE  Spots'
    <2> USE <1>SpotsEnlist
    <2>0. w \in Actors /\ pc[w] = "held" /\ UNCHANGED mem
        BY DEF Actors, Enlist
    <2>1. PICK k \in Cmds : hand[w] = <<k>>
        BY <2>0 DEF Hands, Fits
    <2> PICK c \in Ctxs : c = at[w]
        BY <2>0, TypesSay DEF Somewhere
    <2>2. /\ list' = [list EXCEPT ![c] = @ \o <<k>>] /\ Move({k}, "listed") /\ hand' = [hand EXCEPT ![w] = <<>>]
        BY <2>1, MembersOne DEF Enlist
    <2>3. list \in [Ctxs -> Seq(Cmds)] /\ hand \in [Actors -> Seq(Cmds)] /\ mem[c] = "live"
        BY <2>0, TypesSay DEF LiveUse, Using
    <2>4. list'[c] = list[c] \o <<k>> /\ \A d \in Ctxs : d # c => list'[d] = list[d]
        BY <2>2, <2>3
    <2>5. hand'[w] = <<>> /\ \A a \in Actors : a # w => hand'[a] = hand[a]
        BY <2>0, <2>2, <2>3
    <2>6. cmd'[k].st = "listed" /\ \A j \in Cmds : j # k => cmd'[j] = cmd[j]
        BY <2>2, MoveSays
    <2>7. /\ cmd[k].st = "held" /\ \A d \in Ctxs : k \notin Range(list[d])
          /\ \A a \in Actors : a # w => k \notin Range(hand[a])
        <3>1. k \in Range(hand[w])
            BY <2>1, MembersOne
        <3> QED BY <2>0, <3>1 DEF Spots
    <2>8. /\ DOMAIN list[c] = 1 .. Len(list[c]) /\ DOMAIN list'[c] = 1 .. Len(list[c]) + 1 /\ Len(list[c]) \in Nat
          /\ (\A i \in DOMAIN list[c] : list'[c][i] = list[c][i]) /\ list'[c][Len(list[c]) + 1] = k
          /\ Range(list'[c]) = Range(list[c]) \cup {k}
        <3> PICK l \in Seq(Cmds) : l = list[c]
            BY <2>3
        <3>1. /\ DOMAIN l = 1 .. Len(l) /\ DOMAIN (l \o <<k>>) = 1 .. Len(l) + 1 /\ Len(l) \in Nat
              /\ (\A i \in DOMAIN l : (l \o <<k>>)[i] = l[i]) /\ (l \o <<k>>)[Len(l) + 1] = k
              /\ Range(l \o <<k>>) = Range(l) \cup {k}
            BY MembersAdd
        <3> PICK m : m = l \o <<k>>
            OBVIOUS
        <3>2. /\ DOMAIN l = 1 .. Len(l) /\ DOMAIN m = 1 .. Len(l) + 1 /\ Len(l) \in Nat
              /\ (\A i \in DOMAIN l : m[i] = l[i]) /\ m[Len(l) + 1] = k /\ Range(m) = Range(l) \cup {k}
            BY <3>1
        <3>3. m = list'[c]
            BY <2>4
        <3> QED BY <3>2, <3>3
    <2>9. ASSUME NEW d \in Ctxs, NEW j \in Range(list'[d]) PROVE cmd'[j].st = "listed"
        <3>1. j = k \/ j \in Range(list[d])
            BY <2>4, <2>8, <2>9
        <3> QED BY <2>6, <3>1, <1>a
    <2>10. ASSUME NEW a \in Actors, NEW j \in Range(hand'[a]) PROVE cmd'[j].st = "held"
        <3>1. a # w /\ j \in Range(hand[a]) /\ j # k
            BY <2>5, <2>7, <2>10, MembersEmpty
        <3> QED BY <2>6, <3>1, <1>b
    <2>11. ASSUME NEW d \in Ctxs, NEW i \in DOMAIN list'[d]
           PROVE  \/ i \in DOMAIN list[d] /\ list'[d][i] = list[d][i] /\ list'[d][i] # k
                  \/ d = c /\ i = Len(list[c]) + 1 /\ list'[d][i] = k
        <3>1. \A e \in Ctxs : \A x \in DOMAIN list[e] : list[e][x] # k
            BY <2>7 DEF Range
        <3>2. CASE d # c
            BY <2>4, <2>11, <3>1, <3>2
        <3>3. CASE d = c /\ i # Len(list[c]) + 1
            <4>1. i \in DOMAIN list[c]
                BY <2>8, <2>11, <3>3, SMTT(20)
            <4> QED BY <2>8, <3>1, <3>3, <4>1
        <3>4. CASE d = c /\ i = Len(list[c]) + 1
            BY <2>8, <3>4
        <3> QED BY <3>2, <3>3, <3>4
    <2>12. ASSUME NEW d \in Ctxs, NEW e \in Ctxs, NEW i \in DOMAIN list'[d], NEW j \in DOMAIN list'[e],
                  list'[d][i] = list'[e][j]
           PROVE  d = e /\ i = j
        BY <2>11, <2>12, SMTT(20) DEF Spots
    <2>13. \A a, b \in Actors : Range(hand'[a]) \cap Range(hand'[b]) # {} => a = b
        BY <2>5, MembersEmpty, SMTT(20) DEF Spots
    <2>14. \A d \in Ctxs : mem'[d] \in {"free", "new"} => list'[d] = <<>>
        BY <2>0, <2>3, <2>4 DEF Spots
    <2> QED BY <2>9, <2>10, <2>12, <2>13, <2>14 DEF Spots
\* A process takes the front of a list.
<1>SpotsTake. ASSUME Types, Hands, Spots, NEW p \in Procs, Take(p)
              PROVE  Spots'
    <2> USE <1>SpotsTake
    <2>0. p \in Actors /\ pc[p] = "held" /\ UNCHANGED mem
        BY DEF Actors, Take
    <2> PICK c \in Ctxs : c = at[p]
        BY <2>0, TypesSay DEF Somewhere
    <2> PICK l \in Seq(Cmds) : l = list[c]
        BY SpotTypes
    <2> PICK n \in 0 .. Len(l) : n = IF Len(l) < Nr THEN Len(l) ELSE Nr
        BY TableAssumption, SMTT(20)
    <2> DEFINE s == SubSeq(l, 1, n)
               r == SubSeq(l, n + 1, Len(l))
    <2>1. /\ hand' = [hand EXCEPT ![p] = Fronted(s)] /\ list' = [list EXCEPT ![c] = r] /\ Move(Range(s), "held")
        BY DEF Take
    <2>2. /\ Range(Fronted(s)) = Range(s) /\ Range(l) = Range(s) \cup Range(r) /\ s \in Seq(Cmds) /\ r \in Seq(Cmds)
          /\ \A i \in DOMAIN r : n + i \in DOMAIN l /\ r[i] = l[n + i]
          /\ (\A i, j \in DOMAIN l : l[i] = l[j] => i = j) => Range(r) \cap Range(s) = {}
          /\ l = <<>> => r = <<>>
        <3>1. l \in Seq(Cmds) /\ n \in 0 .. Len(l)
            OBVIOUS
        <3> QED BY ONLY <3>1, MembersCut
    <2> HIDE DEF s, r
    <2>3. list \in [Ctxs -> Seq(Cmds)] /\ hand \in [Actors -> Seq(Cmds)]
        BY TypesSay
    <2>4. list'[c] = r /\ \A d \in Ctxs : d # c => list'[d] = list[d]
        BY <2>1, <2>3
    <2>5. Range(hand'[p]) = Range(s) /\ \A a \in Actors : a # p => hand'[a] = hand[a]
        <3>1. hand'[p] = Fronted(s) /\ \A a \in Actors : a # p => hand'[a] = hand[a]
            BY <2>0, <2>1, <2>3
        <3> QED BY <2>2, <3>1
    <2>6. /\ \A j \in Cmds : j \in Range(s) => cmd'[j].st = "held"
          /\ \A j \in Cmds : j \notin Range(s) => cmd'[j] = cmd[j]
        BY <2>1, MoveSays
    <2>7. Len(l) \in Nat /\ n \in Nat /\ DOMAIN r = 1 .. Len(r) /\ Len(r) \in Nat
        BY <2>2, SMTT(20)
    <2>8. \A i \in DOMAIN r : n + i \in DOMAIN l /\ r[i] = l[n + i]
        BY <2>2
    <2>9. Range(r) \cap Range(s) = {}
        <3>1. \A i, j \in DOMAIN l : l[i] = l[j] => i = j
            BY SMTT(20) DEF Spots
        <3> QED BY <2>2, <3>1
    <2>10. ASSUME NEW d \in Ctxs, NEW j \in Range(list'[d]) PROVE cmd'[j].st = "listed"
        <3>1. j \in Range(list[d]) /\ j \notin Range(s)
            <4>1. CASE d = c
                BY <2>2, <2>4, <2>9, <2>10, <4>1
            <4>2. CASE d # c
                <5>1. Range(list[d]) \cap Range(list[c]) = {}
                    BY <4>2, SMTT(20) DEF Spots, Range
                <5> QED BY <2>2, <2>4, <2>10, <4>2, <5>1
            <4> QED BY <4>1, <4>2
        <3> QED BY <2>6, <3>1, <1>a
    <2>11. \A j \in Range(s) : j \in Cmds /\ cmd[j].st = "listed" /\ \A a \in Actors : j \notin Range(hand[a])
        <3> SUFFICES ASSUME NEW j \in Range(s)
                     PROVE  j \in Cmds /\ cmd[j].st = "listed" /\ \A a \in Actors : j \notin Range(hand[a])
            OBVIOUS
        <3>1. j \in Range(list[c])
            BY <2>2
        <3>2. j \in Cmds /\ cmd[j].st = "listed"
            BY <3>1, SpotTypes DEF Spots
        <3> QED BY <3>2 DEF Spots
    <2>12. ASSUME NEW a \in Actors, NEW j \in Range(hand'[a]) PROVE cmd'[j].st = "held"
        <3>1. CASE a = p
            BY <2>5, <2>6, <2>11, <2>12, <3>1
        <3>2. CASE a # p
            BY <2>5, <2>6, <2>11, <2>12, <3>2, SpotTypes, SMTT(20) DEF Spots
        <3> QED BY <3>1, <3>2
    <2>13. ASSUME NEW d \in Ctxs, NEW e \in Ctxs, NEW i \in DOMAIN list'[d], NEW j \in DOMAIN list'[e],
                  list'[d][i] = list'[e][j]
           PROVE  d = e /\ i = j
        <3> DEFINE Was(f, x) == IF f = c THEN n + x ELSE x
        <3>1. ASSUME NEW f \in Ctxs, NEW x \in DOMAIN list'[f]
              PROVE  Was(f, x) \in DOMAIN list[f] /\ list'[f][x] = list[f][Was(f, x)]
            BY <2>4, <2>8, <3>1
        <3>2. d = e /\ Was(d, i) = Was(e, j)
            <4>1. Was(d, i) \in DOMAIN list[d] /\ Was(e, j) \in DOMAIN list[e] /\ list[d][Was(d, i)] = list[e][Was(e, j)]
                BY <2>13, <3>1
            <4> HIDE DEF Was
            <4> QED BY <4>1, <1>c
        <3>3. CASE d = c
            <4>1. i \in 1 .. Len(r) /\ j \in 1 .. Len(r)
                BY <2>4, <2>7, <2>13, <3>2, <3>3
            <4> QED BY <2>7, <3>2, <3>3, <4>1, SMTT(20)
        <3>4. CASE d # c
            BY <3>2, <3>4
        <3> QED BY <3>3, <3>4
    <2>14. \A a, b \in Actors : Range(hand'[a]) \cap Range(hand'[b]) # {} => a = b
        BY <2>5, <2>11, SMTT(20) DEF Spots
    <2>15. \A d \in Ctxs : mem'[d] \in {"free", "new"} => list'[d] = <<>>
        <3> SUFFICES ASSUME mem[c] \in {"free", "new"} PROVE r = <<>>
            BY <2>0, <2>4 DEF Spots
        <3>1. l = <<>>
            BY DEF Spots
        <3> QED BY <2>2, <3>1
    <2> QED BY <2>10, <2>12, <2>13, <2>14, <2>15 DEF Spots
\* A process is done with what it took.
<1>SpotsCopyOut. ASSUME Types, Spots, NEW p \in Procs, CopyOut(p)
                 PROVE  Spots'
    <2> USE <1>SpotsCopyOut
    <2>0. /\ p \in Actors /\ UNCHANGED <<mem, list>> /\ Release(Range(hand[p])) /\ hand' = [hand EXCEPT ![p] = <<>>]
        BY DEF Actors, CopyOut, ctxVars
    <2>1. hand'[p] = <<>> /\ \A a \in Actors : a # p => hand'[a] = hand[a]
        BY <2>0, TypesSay
    <2>2. \A j \in Cmds : j \notin Range(hand[p]) => cmd'[j] = cmd[j]
        BY <2>0, ReleaseSays
    <2>3. ASSUME NEW d \in Ctxs, NEW j \in Range(list[d]) PROVE cmd'[j].st = "listed"
        <3>1. j \in Cmds /\ cmd[j].st = "listed"
            BY SpotTypes DEF Spots
        <3>2. j \notin Range(hand[p])
            BY <2>0, <3>1 DEF Spots
        <3> QED BY <2>2, <3>1, <3>2
    <2>4. ASSUME NEW a \in Actors, NEW j \in Range(hand'[a]) PROVE cmd'[j].st = "held"
        <3>1. a # p /\ j \in Range(hand[a])
            BY <2>1, <2>4, MembersEmpty
        <3>2. j \in Cmds /\ j \notin Range(hand[p])
            BY <2>0, <3>1, SpotTypes DEF Spots
        <3> QED BY <2>2, <3>1, <3>2 DEF Spots
    <2>5. \A a, b \in Actors : Range(hand'[a]) \cap Range(hand'[b]) # {} => a = b
        <3> SUFFICES ASSUME NEW a \in Actors, NEW b \in Actors, Range(hand'[a]) \cap Range(hand'[b]) # {} PROVE a = b
            OBVIOUS
        <3>1. a # p /\ b # p
            BY <2>1, MembersEmpty
        <3> QED BY <2>1, <3>1, <1>d
    <2>6. \A d \in Ctxs : mem'[d] \in {"free", "new"} => list'[d] = <<>>
        BY <2>0 DEF Spots
    <2>7. list' = list
        BY <2>0
    <2>8. \A d \in Ctxs : \A j \in Range(list'[d]) : cmd'[j].st = "listed"
        BY <2>3, <2>7
    <2>9. \A d, e \in Ctxs : \A i \in DOMAIN list'[d], j \in DOMAIN list'[e] : list'[d][i] = list'[e][j] => d = e /\ i = j
        BY <2>7, <1>c, SMTT(20)
    <2> QED BY <2>4, <2>5, <2>6, <2>8, <2>9 DEF Spots
\* A command is submitted.
<1>SpotsSubmit. ASSUME Types, Spots, NEW p \in Procs, NEW k \in Cmds, Submit(p, k)
                PROVE  Spots'
    <2> USE <1>SpotsSubmit
    <2>1. cmd' = [cmd EXCEPT ![k] = Kaiocb("device", mine[p], p)] /\ UNCHANGED <<list, hand, mem>> /\ cmd[k] = Idle
        BY DEF Submit, ctxVars, actorVars
    <2>2. Idle.st = "idle"
        BY DEF Idle, Kaiocb
    <2>3. \A j \in Cmds : j # k => cmd'[j] = cmd[j]
        BY <2>1, TypesSay
    <2>4. \A j \in Cmds : cmd[j].st \in {"listed", "held"} => cmd'[j].st = cmd[j].st
        BY <2>1, <2>2, <2>3
    <2> QED BY <2>1, <2>4, SpotsStay
<1> USE DEF tableVars, ctxVars, actorVars, histVars
<1>1. Procs \subseteq Actors /\ Workers \subseteq Actors
    BY DEF Actors
<1>2. ASSUME NEW p \in Procs, DelStep(p) \/ Die(p) PROVE Spots'
    <2>1. CASE DelDeref(p)
        <3>1. tb[mine[p]] \in Ctxs /\ UNCHANGED hand
            BY <2>1, TypesSay DEF DelDeref
        <3>2. CASE mem[tb[mine[p]]] = "live"
            BY <2>1, <3>1, <3>2, <1>SpotsDeref DEF DelDeref
        <3>3. CASE mem[tb[mine[p]]] # "live"
            <4>1. UNCHANGED <<mem, list, cmd>>
                BY <2>1, <3>3 DEF DelDeref
            <4> QED BY <3>1, <4>1, SpotsStay
        <3> QED BY <3>2, <3>3
    <2>2. CASE DelClear(p) \/ DelNothing(p) \/ Die(p)
        <3>1. UNCHANGED <<mem, list, cmd, hand>>
            BY <2>2 DEF DelClear, DelNothing, Die
        <3> QED BY <3>1, SpotsStay
    <2> QED BY <1>2, <2>1, <2>2 DEF DelStep
<1>3. ASSUME NEW a \in Actors, Ref(a) \/ Get(a) PROVE Spots'
    <2>1. UNCHANGED <<mem, list, cmd, hand>>
        BY <1>3 DEF Ref, Get
    <2> QED BY <2>1, SpotsStay
<1>4. ASSUME NEW a \in Actors, WorkerPut(a) \/ ProcPut(a) PROVE Spots'
    <2>1. at[a] \in Ctxs /\ Deref(at[a]) /\ UNCHANGED hand
        BY <1>4, TypesSay DEF WorkerPut, ProcPut, Somewhere
    <2> QED BY <2>1, <1>SpotsDeref
<1>5. ASSUME NEW p \in Procs, GetStep(p) PROVE Spots'
    BY <1>1, <1>3, <1>4, <1>5, <1>SpotsTake, <1>SpotsCopyOut DEF GetStep
<1>6. ASSUME NEW w \in Workers, WorkerStep(w) PROVE Spots'
    <2>1. ASSUME NEW k \in Cmds, Complete(w, k) PROVE Spots'
        BY <2>1, <1>SpotsComplete DEF Complete
    <2> QED BY <1>1, <1>3, <1>4, <1>6, <2>1, <1>SpotsEnlist DEF WorkerStep
<1>7. CASE UNCHANGED vars
    BY <1>7, SpotsStay DEF vars
<1> QED BY <1>2, <1>5, <1>6, <1>7, SpotsSet, <1>SpotsSubmit, SpotsReload DEF Next

(***************************************************************************)
(* Until a copy fails or freed memory is touched, what says it is listed   *)
(* is on the list of a live context.                                       *)
(***************************************************************************)
Kept == /\ \A k \in Cmds : cmd[k].st = "listed" => \E c \in Ctxs : k \in Range(list[c])
        /\ \A c \in Ctxs : mem[c] = "leaked" => list[c] = <<>>

\* The references are exact: a lookup has a live context, and a new one has no holder.
LEMMA StructLive ==
    ASSUME Types, Struct
    PROVE  LiveUse /\ LiveSet
<1>1. \A a \in Actors : pc[a] \in {"held", "put"} => at[a] \in Ctxs /\ a \in Holders(at[a])
    BY TypesSay DEF Holders, Somewhere
<1>2. LiveUse
    BY <1>1 DEF LiveUse, Using, Struct, RefsHeld, FoundLive
<1> QED BY <1>2 DEF LiveSet, Struct, NewOnes

\* No step loses a kaiocb that is listed.
LEMMA NextKept ==
    ASSUME Types, Hands, Spots, Kept, LiveUse, LiveSet, Sane, [Next]_vars, Sane'
    PROVE  Kept'
<1> USE DEF tableVars, ctxVars, actorVars, histVars
<1>0. /\ list \in [Ctxs -> Seq(Cmds)] /\ mem \in [Ctxs -> {"free", "new", "live", "leaked"}]
      /\ Procs \subseteq Actors /\ Workers \subseteq Actors
    BY TypesSay DEF Actors
<1>1. ASSUME UNCHANGED list, \A k \in Cmds : cmd'[k].st = "listed" => cmd[k].st = "listed",
             \A c \in Ctxs : mem'[c] = "leaked" => mem[c] \in {"leaked", "free", "new"}
      PROVE  Kept'
    BY <1>1 DEF Kept, Spots
<1>2. ASSUME NEW c \in Ctxs, Deref(c) PROVE Kept'
    <2>1. CASE ref[c] # 1
        BY <1>1, <1>2, <2>1, DerefSays
    <2>2. CASE ref[c] = 1
        <3>1. /\ mem' = [mem EXCEPT ![c] = "free"] /\ list' = [list EXCEPT ![c] = <<>>]
              /\ \A k \in Cmds : cmd'[k].st = "listed" => k \notin Range(list[c]) /\ cmd[k].st = "listed"
            BY <1>2, <2>2, DerefSays
        <3>2. \A d \in Ctxs : d # c => list'[d] = list[d] /\ mem'[d] = mem[d]
            BY <1>0, <3>1
        <3>3. mem'[c] = "free"
            BY <1>0, <3>1
        <3> QED BY <3>1, <3>2, <3>3 DEF Kept
    <2> QED BY <2>1, <2>2
<1>3. ASSUME NEW p \in Procs, SetBegin(p) \/ SetLocked(p) \/ SetEnd(p) PROVE Kept'
    <2>1. UNCHANGED <<cmd, list>>
        BY <1>3, SpotsSet
    <2>2. \A c \in Ctxs : mem'[c] = "leaked" => mem[c] \in {"leaked", "free", "new"}
        <3>1. CASE SetBegin(p)
            <4>1. MayAlloc(p) /\ \E v : mem' = [mem EXCEPT ![Allocated] = v]
                BY <3>1 DEF SetBegin, SetAlloc, SetBadArgument
            <4>2. Allocated \in Ctxs /\ mem[Allocated] = "free"
                BY <4>1 DEF MayAlloc, Allocated
            <4> QED BY <1>0, <4>1, <4>2
        <3>2. CASE SetLocked(p)
            <4>1. mem[at[p]] = "new" /\ \E v : mem' = [mem EXCEPT ![at[p]] = v]
                BY <3>2 DEF SetLocked, SetEnter, SetFull, LiveSet
            <4> QED BY <1>0, <4>1
        <3>3. CASE SetEnd(p)
            <4>1. mem' = mem
                BY <3>3 DEF SetEnd, SetReturn, SetCopyFails, Sane
            <4> QED BY <4>1
        <3> QED BY <1>3, <3>1, <3>2, <3>3
    <2> QED BY <1>1, <2>1, <2>2
<1>4. ASSUME NEW p \in Procs, DelStep(p) \/ Die(p) PROVE Kept'
    <2>1. CASE DelDeref(p)
        <3>1. tb[mine[p]] \in Ctxs /\ Deref(tb[mine[p]])
            BY <2>1, TypesSay DEF DelDeref, Sane
        <3> QED BY <1>2, <3>1
    <2>2. CASE DelClear(p) \/ DelNothing(p) \/ Die(p)
        <3>1. UNCHANGED <<mem, list, cmd>>
            BY <2>2 DEF DelClear, DelNothing, Die
        <3> QED BY <1>1, <3>1
    <2> QED BY <1>4, <2>1, <2>2 DEF DelStep
<1>5. ASSUME NEW a \in Actors, Ref(a) \/ Get(a) PROVE Kept'
    <2>1. UNCHANGED <<mem, list, cmd>>
        BY <1>5 DEF Ref, Get
    <2> QED BY <1>1, <2>1
<1>6. ASSUME NEW a \in Actors, WorkerPut(a) \/ ProcPut(a) PROVE Kept'
    <2>1. at[a] \in Ctxs /\ Deref(at[a])
        BY <1>6, TypesSay DEF WorkerPut, ProcPut, Somewhere
    <2> QED BY <1>2, <2>1
<1>7. ASSUME NEW w \in Workers, NEW k \in Cmds, Complete(w, k) PROVE Kept'
    <2>1. UNCHANGED <<mem, list>> /\ (Release({k}) \/ Move({k}, "held"))
        BY <1>7 DEF Complete
    <2>2. \A j \in Cmds : cmd'[j].st = "listed" => cmd[j].st = "listed"
        BY <2>1, ReleaseSays, MoveSays
    <2> QED BY <1>1, <2>1, <2>2
<1>8. ASSUME NEW w \in Workers, Enlist(w) PROVE Kept'
    <2>1. PICK k \in Cmds : hand[w] = <<k>>
        BY <1>0, <1>8 DEF Hands, Fits, Enlist
    <2> PICK c \in Ctxs : c = at[w]
        BY <1>0, <1>8, TypesSay DEF Enlist, Somewhere
    <2>2. list' = [list EXCEPT ![c] = @ \o <<k>>] /\ Move({k}, "listed") /\ UNCHANGED mem /\ mem[c] = "live"
        BY <1>0, <1>8, <2>1, MembersOne DEF Enlist, LiveUse, Using
    <2>3. list'[c] = list[c] \o <<k>> /\ \A d \in Ctxs : d # c => list'[d] = list[d]
        BY <1>0, <2>2
    <2>4. Range(list'[c]) = Range(list[c]) \cup {k}
        BY <2>3, SpotTypes, MembersAdd
    <2>5. \A d \in Ctxs : Range(list[d]) \subseteq Range(list'[d])
        BY <2>3, <2>4
    <2>6. \A j \in Cmds : cmd'[j].st = "listed" => j = k \/ cmd[j].st = "listed"
        BY <2>2, MoveSays, SMTT(20)
    <2>7. \A j \in Cmds : cmd'[j].st = "listed" => \E d \in Ctxs : j \in Range(list'[d])
        BY <2>4, <2>5, <2>6 DEF Kept
    <2>8. \A d \in Ctxs : mem'[d] = "leaked" => list'[d] = <<>>
        BY <2>2, <2>3 DEF Kept
    <2> QED BY <2>7, <2>8 DEF Kept
<1>9. ASSUME NEW p \in Procs, Take(p) PROVE Kept'
    <2> PICK c \in Ctxs : c = at[p]
        BY <1>0, <1>9, TypesSay DEF Take, Somewhere
    <2> PICK l \in Seq(Cmds) : l = list[c]
        BY SpotTypes
    <2> PICK n \in 0 .. Len(l) : n = IF Len(l) < Nr THEN Len(l) ELSE Nr
        BY TableAssumption, SMTT(20)
    <2> DEFINE s == SubSeq(l, 1, n)
               r == SubSeq(l, n + 1, Len(l))
    <2>1. list' = [list EXCEPT ![c] = r] /\ Move(Range(s), "held") /\ UNCHANGED mem
        BY <1>9 DEF Take
    <2>2. Range(l) = Range(s) \cup Range(r)
        <3>1. l \in Seq(Cmds) /\ n \in 0 .. Len(l)
            OBVIOUS
        <3> QED BY ONLY <3>1, MembersCut
    <2>3. mem[c] = "live"
        BY <1>0, <1>9 DEF Take, LiveUse, Using
    <2> HIDE DEF s, r
    <2>4. list'[c] = r /\ \A d \in Ctxs : d # c => list'[d] = list[d]
        BY <1>0, <2>1
    <2>5. \A j \in Cmds : cmd'[j].st = "listed" => j \notin Range(s) /\ cmd[j].st = "listed"
        BY <2>1, MoveSays
    <2>6. \A j \in Cmds : cmd'[j].st = "listed" => \E d \in Ctxs : j \in Range(list'[d])
        BY <2>2, <2>4, <2>5 DEF Kept
    <2>7. \A d \in Ctxs : mem'[d] = "leaked" => list'[d] = <<>>
        BY <2>1, <2>3, <2>4 DEF Kept
    <2> QED BY <2>6, <2>7 DEF Kept
<1>10. ASSUME NEW p \in Procs, CopyOut(p) PROVE Kept'
    <2>1. UNCHANGED <<mem, list>> /\ Release(Range(hand[p]))
        BY <1>10 DEF CopyOut
    <2>2. \A j \in Cmds : cmd'[j].st = "listed" => cmd[j].st = "listed"
        BY <2>1, ReleaseSays
    <2> QED BY <1>1, <2>1, <2>2
<1>11. ASSUME NEW p \in Procs, NEW k \in Cmds, Submit(p, k) PROVE Kept'
    <2>1. cmd' = [cmd EXCEPT ![k] = Kaiocb("device", mine[p], p)] /\ UNCHANGED <<mem, list>>
        BY <1>11 DEF Submit
    <2>2. Kaiocb("device", mine[p], p).st = "device"
        BY DEF Kaiocb
    <2>3. \A j \in Cmds : cmd'[j].st = "listed" => cmd[j].st = "listed"
        BY <2>1, <2>2, TypesSay
    <2> QED BY <1>1, <2>1, <2>3
<1>12. CASE Reload
    <2>1. mem' = [c \in Ctxs |-> "free"] /\ \A k \in Cmds : cmd'[k].st = "idle"
        BY <1>12, SpotsReload DEF Reload
    <2> QED BY <2>1 DEF Kept
<1>13. CASE UNCHANGED vars
    BY <1>1, <1>13 DEF vars
<1>14. ASSUME NEW p \in Procs, GetStep(p) PROVE Kept'
    BY <1>0, <1>5, <1>6, <1>9, <1>10, <1>14 DEF GetStep
<1>15. ASSUME NEW w \in Workers, WorkerStep(w) PROVE Kept'
    BY <1>0, <1>5, <1>6, <1>7, <1>8, <1>15 DEF WorkerStep
<1> QED BY <1>3, <1>4, <1>11, <1>12, <1>13, <1>14, <1>15 DEF Next

\* The inductive invariant for the kaiocbs.
Events == Hands /\ (Sane => Spots /\ Kept)

\* At first no kaiocb is anywhere.
LEMMA InitEvents == Init => Events
<1> SUFFICES ASSUME Init PROVE Events
    OBVIOUS
<1>1. /\ \A a \in Actors : pc[a] = "idle" /\ hand[a] = <<>>
      /\ \A c \in Ctxs : list[c] = <<>>
      /\ \A k \in Cmds : cmd[k] = Idle
    BY DEF Init
<1>2. Idle.st = "idle"
    BY DEF Idle, Kaiocb
<1>3. /\ \A a \in Actors : Range(hand[a]) = {}
      /\ \A c \in Ctxs : Range(list[c]) = {} /\ DOMAIN list[c] = {}
    BY <1>1, MembersEmpty, SMTT(20)
<1>4. Hands
    BY <1>1, <1>2 DEF Hands, Fits
<1>5. Spots
    BY <1>1, <1>3 DEF Spots
<1>6. Kept
    BY <1>1, <1>2 DEF Kept
<1> QED BY <1>4, <1>5, <1>6 DEF Events

\* Every step keeps the kaiocbs in their places.
LEMMA NextEvents == Table /\ Events /\ [Next]_vars => Events'
<1> SUFFICES ASSUME Table, Events, [Next]_vars PROVE Events'
    OBVIOUS
<1>1. Types /\ Hands
    BY DEF Table, Events
<1>2. Hands'
    BY <1>1, NextHands
<1>3. ASSUME Sane' PROVE Sane
    <2>1. CASE UNCHANGED vars
        BY <1>3, <2>1 DEF vars, histVars, Sane
    <2>2. CASE Next
        <3>1. uncopied' = uncopied \/ uncopied' = TRUE
            BY <2>2 DEF Next, SetBegin, SetLocked, SetEnd, DelStep, GetStep, WorkerStep, SetAlloc, SetBadArgument, SetEnter,
                   SetFull, SetReturn, SetCopyFails, DelDeref, DelClear, DelNothing, Die, Get, Ref, Take, ProcPut, CopyOut,
                   Submit, Complete, Enlist, WorkerPut, Reload, histVars
        <3> QED BY <1>3, <2>2, <3>1, SMTT(20) DEF Next, Sane
    <2> QED BY <2>1, <2>2
<1>4. ASSUME Sane' PROVE Spots' /\ Kept'
    <2>1. Sane /\ Struct /\ Spots /\ Kept
        BY <1>3, <1>4 DEF Table, Events
    <2>2. LiveUse /\ LiveSet
        BY <1>1, <2>1, StructLive
    <2> QED BY <1>1, <1>4, <2>1, <2>2, NextSpots, NextKept
<1> QED BY <1>2, <1>4 DEF Events

\* list_add_tail, the loop of nvme_get_ioevents and remove_kaioctx: a kaiocb is on the
\* list of one live context, in one hand, or in neither, however many there are.
THEOREM PlacedCorrect == Spec => []EventsPlaced
<1>1. Table /\ Events => EventsPlaced
    <2> SUFFICES ASSUME Types, Hands, Struct, Spots, Kept, NEW k \in Cmds
                 PROVE  /\ cmd[k].st = "listed" <=> \E c \in Ctxs : mem[c] = "live" /\ k \in Range(list[c])
                        /\ cmd[k].st = "held" <=> \E a \in Actors : k \in Range(hand[a])
                        /\ \A c, d \in Ctxs : \A i \in DOMAIN list[c], j \in DOMAIN list[d] :
                               list[c][i] = k /\ list[d][j] = k => c = d /\ i = j
                        /\ \A a, b \in Actors : k \in Range(hand[a]) /\ k \in Range(hand[b]) => a = b
        BY DEF Table, Events, EventsPlaced
    <2>1. \A c \in Ctxs : k \in Range(list[c]) => mem[c] = "live"
        <3> SUFFICES ASSUME NEW c \in Ctxs, k \in Range(list[c]) PROVE mem[c] = "live"
            OBVIOUS
        <3>1. list[c] # <<>>
            BY MembersEmpty
        <3>2. mem[c] \in {"free", "new", "live", "leaked"}
            BY TypesSay
        <3> QED BY <3>1, <3>2 DEF Spots, Kept
    <2>2. cmd[k].st = "listed" <=> \E c \in Ctxs : mem[c] = "live" /\ k \in Range(list[c])
        BY <2>1 DEF Spots, Kept
    <2>3. cmd[k].st = "held" <=> \E a \in Actors : k \in Range(hand[a])
        BY DEF Spots, Hands
    <2>4. \A a, b \in Actors : k \in Range(hand[a]) /\ k \in Range(hand[b]) => a = b
        BY DEF Spots
    <2>5. \A c, d \in Ctxs : \A i \in DOMAIN list[c], j \in DOMAIN list[d] :
              list[c][i] = k /\ list[d][j] = k => c = d /\ i = j
        BY SMTT(20) DEF Spots
    <2> QED BY <2>2, <2>3, <2>4, <2>5
<1> QED BY <1>1, InitTable, NextTable, InitEvents, NextEvents, PTL DEF Spec

============================================================================
