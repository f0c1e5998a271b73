--------------------------- MODULE KddPath_proofs --------------------------
(***************************************************************************)
(* Proofs about the path of a command through the kernel device driver.    *)
(*                                                                         *)
(* KadiAio: the user's side, for every set of requests, every queue depth  *)
(* and every choice of the faults.                                         *)
(*                                                                         *)
(* KvCommand: the kernel's side, for every finite set of commands and      *)
(* every bound of the accounting.  The inductive invariant says, for each  *)
(* place in the code and each kind of command, exactly what is held there  *)
(* and exactly which fields of the control block are set.                  *)
(***************************************************************************)
EXTENDS KadiAio, KvCommand, FiniteSetTheorems, TLAPS

\* Most steps are first-order, so Zenon is tried first; a step that needs more cites SMT.
USE ZenonT(10), SMTT(20)

(***************************************************************************)
(* KadiAio.                                                                *)
(***************************************************************************)
\* A context has at most one command under way, in one place: releasing it for
\* one event cannot take it away from another.
OneEach ==
    /\ \A e, f \in dev : e.reqid = f.reqid => e = f
    /\ \A i, j \in DOMAIN list : list[i].reqid = list[j].reqid => i = j
    /\ \A i, j \in DOMAIN batch : batch[i].reqid = batch[j].reqid => i = j
    /\ \A e \in dev : \A i \in DOMAIN list : e.reqid # list[i].reqid
    /\ \A e \in dev : \A i \in DOMAIN batch : e.reqid # batch[i].reqid
    /\ \A i \in DOMAIN list : \A j \in DOMAIN batch : list[i].reqid # batch[j].reqid

\* A request has no command before its ioctl, and no context before get_cmd_ctx.
Fresh == \A r \in Reqs :
    /\ pc[r] \in {"idle", "ask"} => \A c \in Ctxs : pending[c] # r
    /\ pc[r] = "have" => /\ \A e \in dev : e.req # r
                         /\ \A i \in DOMAIN list : list[i].req # r
                         /\ \A i \in DOMAIN batch : batch[i].req # r

\* The inductive invariant.
PoolStrong == TypeOK /\ PoolPartition /\ EventOwner /\ OneEach /\ Fresh

(***************************************************************************)
(* The two bounds of a fetch.                                              *)
(***************************************************************************)
\* nr, the number of events poll_completion asks for, is at least one and no more
\* than the rest of the count.
LEMMA LeastOfThree ==
    ASSUME NEW a \in Nat, NEW b \in Nat, NEW c \in Nat
    PROVE  /\ Least({a, b, c}) \in {a, b, c}
           /\ Least({a, b, c}) <= a
<1>1. \E n \in {a, b, c} : \A k \in {a, b, c} : n <= k
    <2>1. CASE a <= b /\ a <= c BY <2>1, SMTT(20)
    <2>2. CASE b <= a /\ b <= c BY <2>2, SMTT(20)
    <2>3. CASE c <= a /\ c <= b BY <2>3, SMTT(20)
    <2> QED BY <2>1, <2>2, <2>3, SMTT(20)
<1>2. /\ Least({a, b, c}) \in {a, b, c}
      /\ \A k \in {a, b, c} : Least({a, b, c}) <= k
    BY <1>1 DEF Least
<1> QED BY <1>2

\* The number of events nvme_get_ioevents returns.
LEMMA LeastOfTwo ==
    ASSUME NEW a \in Nat, NEW b \in Nat
    PROVE  /\ Least({a, b}) \in Nat
           /\ Least({a, b}) <= a /\ Least({a, b}) <= b
           /\ a <= b => Least({a, b}) = a
<1>1. \E n \in {a, b} : \A k \in {a, b} : n <= k
    <2>1. CASE a <= b BY <2>1, SMTT(20)
    <2>2. CASE b <= a BY <2>2, SMTT(20)
    <2> QED BY <2>1, <2>2, SMTT(20)
<1>2. /\ Least({a, b}) \in {a, b}
      /\ \A k \in {a, b} : Least({a, b}) <= k
    BY <1>1 DEF Least
<1> QED BY <1>2, SMTT(20)

\* What a fetch does to the list: its first got events, in reverse, are the batch.
LEMMA FetchEffect ==
    ASSUME TypeOK, Fetch
    PROVE  \E nr, got \in Nat :
              /\ nr <= left /\ got <= nr /\ got <= Len(list)
              /\ nr <= Len(list) => got = nr
              /\ batch' = [i \in 1 .. got |-> list[got + 1 - i]]
              /\ list' = SubSeq(list, got + 1, Len(list))
              /\ left' = left - nr
              /\ poll' = Onward(batch', left')
<1> DEFINE nr == Least({left, MaxEvents, QDepth})
           got == Least({nr, Len(list)})
<1>1. left \in Nat /\ MaxEvents \in Nat /\ QDepth \in Nat /\ Len(list) \in Nat
    BY KadiAssumption, SMTT(20) DEF TypeOK
<1>2. nr \in Nat /\ nr <= left
    BY <1>1, LeastOfThree
<1>3. got \in Nat /\ got <= nr /\ got <= Len(list) /\ (nr <= Len(list) => got = nr)
    <2> HIDE DEF nr
    <2> QED BY <1>1, <1>2, LeastOfTwo
<1>4. /\ batch' = [i \in 1 .. got |-> list[got + 1 - i]]
      /\ list' = SubSeq(list, got + 1, Len(list))
      /\ left' = left - nr
      /\ poll' = Onward(batch', left')
    BY DEF Fetch
<1> HIDE DEF nr, got
<1> QED BY <1>2, <1>3, <1>4

(***************************************************************************)
(* Types.                                                                  *)
(***************************************************************************)
\* KADI::open establishes the types.
LEMMA InitTypes == Init => TypeOK
<1> SUFFICES ASSUME Init PROVE TypeOK OBVIOUS
<1>1. free \in Seq(Ctxs)
    BY KadiAssumption, SMTT(20) DEF Init, Ctxs
<1> QED BY <1>1, KadiAssumption, SMTT(20) DEF Init, TypeOK, Events

\* Every step of a call, of the kernel, of KADI's thread and of close keeps them.
LEMMA NextTypes == TypeOK /\ [Next]_vars => TypeOK'
<1> SUFFICES ASSUME TypeOK, [Next]_vars PROVE TypeOK'
    OBVIOUS
<1> USE DEF poolVars, kernelVars, pollVars, callVars
<1>1. ASSUME NEW r \in Reqs, Call(r) PROVE TypeOK'
    BY <1>1 DEF TypeOK, Call, Return
<1>2. ASSUME NEW r \in Reqs, GetCtx(r) PROVE TypeOK'
    <2>1. free[Len(free)] \in Ctxs /\ free' \in Seq(Ctxs)
        BY <1>2, SMTT(20) DEF TypeOK, GetCtx, TakeCtx
    <2> QED BY <1>2, <2>1 DEF TypeOK, GetCtx, TakeCtx
<1>3. ASSUME NEW r \in Reqs, Submit(r) PROVE TypeOK'
    <2>1. dev' \in SUBSET Events
        BY <1>3, SMTT(20) DEF TypeOK, Submit, Events
    <2> QED BY <1>3, <2>1 DEF TypeOK, Submit, Accepted, Return
<1>4. ASSUME NEW r \in Reqs, SubmitFailed(r) PROVE TypeOK'
    <2>1. free' \in Seq(Ctxs) /\ pending' \in [Ctxs -> Reqs \cup {None}]
        BY <1>4, SMTT(20) DEF TypeOK, SubmitFailed, ReleaseCtx
    <2> QED BY <1>4, <2>1 DEF TypeOK, SubmitFailed, Accepted, Return
<1>5. ASSUME NEW r \in Reqs, Wake(r) PROVE TypeOK'
    BY <1>5 DEF TypeOK, Wake, Return
<1>6. ASSUME NEW e \in dev, Complete(e) PROVE TypeOK'
    <2>1. e \in Events /\ dev' \in SUBSET Events
        BY <1>6 DEF TypeOK, Complete
    <2>2. list' \in Seq(Events) /\ unsig' \in Nat
        <3>1. CASE phase = "closed" BY <1>6, <3>1 DEF TypeOK, Complete
        <3>2. CASE phase # "closed"
            <4>1. list' = Append(list, e) /\ unsig' = unsig + 1
                BY <1>6, <3>2 DEF Complete
            <4>2. list \in Seq(Events) /\ unsig \in Nat
                BY DEF TypeOK
            <4> QED BY <2>1, <4>1, <4>2, SMTT(20)
        <3> QED BY <3>1, <3>2
    <2> QED BY <1>6, <2>1, <2>2 DEF TypeOK, Complete
<1>7. CASE Signal
    BY <1>7, SMTT(20) DEF TypeOK, Signal
<1>8. CASE Enter \/ TimeOut \/ ReadCount \/ FetchFailed
    BY <1>8, SMTT(20) DEF TypeOK, Enter, TimeOut, ReadCount, FetchFailed
<1>9. CASE Fetch
    <2>1. PICK nr, got \in Nat :
              /\ nr <= left /\ got <= Len(list)
              /\ batch' = [i \in 1 .. got |-> list[got + 1 - i]]
              /\ list' = SubSeq(list, got + 1, Len(list))
              /\ left' = left - nr
              /\ poll' = Onward(batch', left')
        BY <1>9, FetchEffect
    <2>2. batch' \in Seq(Events) /\ list' \in Seq(Events) /\ left' \in Nat
        BY <2>1, SMTT(20) DEF TypeOK
    <2>3. /\ poll' \in {"loop", "fetch", "handle"}
          /\ poll' = "handle" => batch' # <<>>
        BY <2>1 DEF Onward
    <2> QED BY <1>9, <2>2, <2>3 DEF TypeOK, Fetch
<1>10. CASE HandleSync \/ HandleAsync
    <2>1. CASE HandleSync
        <3>1. Owner \in Reqs
            BY <2>1, KadiAssumption DEF HandleSync
        <3>2. done' \in SUBSET Reqs
            BY <2>1, <3>1 DEF TypeOK, HandleSync
        <3> QED BY <2>1, <3>2 DEF TypeOK, HandleSync
    <2>2. CASE HandleAsync
        <3>1. delivered' \in Seq(Reqs)
            <4>1. Owner \in Reqs /\ delivered' = Append(delivered, Owner)
                BY <2>2 DEF HandleAsync
            <4>2. delivered \in Seq(Reqs)
                BY DEF TypeOK
            <4> QED BY <4>1, <4>2, SMTT(20)
        <3> QED BY <2>2, <3>1 DEF TypeOK, HandleAsync
    <2> QED BY <1>10, <2>1, <2>2
<1>11. CASE CallbackReturn
    BY <1>11 DEF TypeOK, CallbackReturn
<1>12. CASE Release
    <2>1. batch[1] \in Events /\ batch' \in Seq(Events)
        BY <1>12, SMTT(20) DEF TypeOK, Release
    <2>2. free' \in Seq(Ctxs) /\ pending' \in [Ctxs -> Reqs \cup {None}]
        BY <1>12, <2>1, SMTT(20) DEF TypeOK, Release, ReleaseCtx, Events
    <2>3. /\ poll' \in {"loop", "fetch", "handle"}
          /\ poll' = "handle" => batch' # <<>>
        BY <1>12 DEF Release, Onward
    <2> QED BY <1>12, <2>1, <2>2, <2>3 DEF TypeOK, Release
<1>13. CASE Close \/ Join
    <2>1. CASE Close BY <2>1 DEF TypeOK, Close
    <2>2. CASE Join
        <3>1. list' \in Seq(Events) /\ unsig' \in Nat /\ efd' \in Nat
            BY <2>2, SMTT(20) DEF Join
        <3> QED BY <2>2, <3>1 DEF TypeOK, Join
    <2> QED BY <1>13, <2>1, <2>2
<1>14. CASE UNCHANGED vars
    BY <1>14 DEF TypeOK, vars
<1> QED BY <1>1, <1>2, <1>3, <1>4, <1>5, <1>6, <1>7, <1>8, <1>9, <1>10, <1>11,
           <1>12, <1>13, <1>14 DEF Next, CallStep, KernelStep, PollStep

\* KadiAio is well typed; in particular the thread never looks for an event in an
\* empty batch.
THEOREM KadiTypes == Spec => []TypeOK
<1> QED BY InitTypes, NextTypes, PTL DEF Spec

(***************************************************************************)
(* The eventfd's count and the kernel's list.                              *)
(***************************************************************************)
\* Between two rounds of poll_completion nothing is left of an earlier count.
NothingLeft == poll \in {"loop", "select", "gone"} => left = 0

\* The while loop of poll_completion ends only when its count is used up.
LEMMA NextNothingLeft == TypeOK /\ NothingLeft /\ [Next]_vars => NothingLeft'
<1> SUFFICES ASSUME TypeOK, NothingLeft, [Next]_vars PROVE NothingLeft'
    OBVIOUS
<1> USE DEF poolVars, kernelVars, pollVars, callVars, NothingLeft
<1>1. ASSUME NEW r \in Reqs, Call(r) \/ CallStep(r) PROVE UNCHANGED <<poll, left>>
    BY <1>1 DEF CallStep, Call, GetCtx, Submit, SubmitFailed, Wake
<1>2. CASE KernelStep
    BY <1>2 DEF KernelStep, Complete, Signal
<1>3. CASE Enter \/ TimeOut \/ ReadCount \/ FetchFailed \/ HandleSync \/ HandleAsync
           \/ CallbackReturn
    BY <1>3 DEF Enter, TimeOut, ReadCount, FetchFailed, HandleSync, HandleAsync, CallbackReturn
<1>4. CASE Fetch
    <2>1. left' \in Nat
        BY NextTypes DEF TypeOK
    <2> QED BY <1>4, <2>1, SMTT(20) DEF Fetch, Onward
<1>5. CASE Release
    <2>1. left' = left /\ left \in Nat /\ poll' = Onward(batch', left)
        BY <1>5 DEF Release, TypeOK
    <2> QED BY <2>1, SMTT(20) DEF Onward
<1>6. CASE Close \/ Join \/ UNCHANGED vars
    BY <1>6 DEF Close, Join, vars
<1> QED BY <1>1, <1>2, <1>3, <1>4, <1>5, <1>6 DEF Next, PollStep

\* A step of set_aioctx_event, poll_completion or close keeps the two in step.
LEMMA NextCounted == TypeOK /\ NothingLeft /\ Counted /\ [Next]_vars => Counted'
<1> SUFFICES ASSUME TypeOK, NothingLeft, Counted, [Next]_vars, phase' # "closed"
             PROVE  Len(list') = unsig' + efd' + left' + dropped'
    BY DEF Counted
<1> USE DEF poolVars, kernelVars, pollVars, callVars
<1>1. phase # "closed" /\ (phase' = phase \/ Close)
    BY DEF Next, CallStep, KernelStep, PollStep, Call, GetCtx, Submit, SubmitFailed, Wake,
           Complete, Signal, Enter, TimeOut, ReadCount, Fetch, FetchFailed, HandleSync,
           HandleAsync, CallbackReturn, Release, Close, Join, vars
<1>2. /\ Len(list) = unsig + efd + left + dropped
      /\ list \in Seq(Events) /\ unsig \in Nat /\ efd \in Nat
      /\ left \in Nat /\ dropped \in Nat
    BY <1>1 DEF Counted, TypeOK
<1>3. ASSUME NEW r \in Reqs, Call(r) \/ CallStep(r) PROVE UNCHANGED <<list, unsig, efd, left, dropped>>
    BY <1>3 DEF CallStep, Call, GetCtx, Submit, SubmitFailed, Wake
<1>4. ASSUME NEW e \in dev, Complete(e) PROVE Len(list') = unsig' + efd' + left' + dropped'
    <2>1. /\ list' = Append(list, e) /\ unsig' = unsig + 1 /\ efd' = efd /\ left' = left
          /\ dropped' = dropped
        BY <1>1, <1>4 DEF Complete
    <2>2. Len(list') = Len(list) + 1
        BY <1>2, <2>1, SMTT(20)
    <2> QED BY <1>2, <2>1, <2>2, SMTT(20)
<1>5. CASE Signal
    BY <1>2, <1>5, SMTT(20) DEF Signal
<1>6. CASE Enter \/ TimeOut \/ HandleSync \/ HandleAsync \/ CallbackReturn \/ Release \/ Close
    BY <1>2, <1>6 DEF Enter, TimeOut, HandleSync, HandleAsync, CallbackReturn, Release, Close
<1>7. CASE ReadCount
    <2>1. left = 0
        BY <1>7 DEF ReadCount, NothingLeft
    <2> QED BY <1>2, <1>7, <2>1, SMTT(20) DEF ReadCount
<1>8. CASE Fetch
    <2>1. PICK nr, got \in Nat :
              /\ nr <= left /\ got <= Len(list)
              /\ nr <= Len(list) => got = nr
              /\ list' = SubSeq(list, got + 1, Len(list))
              /\ left' = left - nr
        BY <1>8, FetchEffect
    <2>2. got = nr
        BY <1>2, <2>1, SMTT(20)
    <2>3. Len(list') = Len(list) - got
        BY <1>2, <2>1, SMTT(20)
    <2>4. unsig' = unsig /\ efd' = efd /\ dropped' = dropped
        BY <1>8 DEF Fetch
    <2> QED BY <1>2, <2>1, <2>2, <2>3, <2>4, SMTT(20)
<1>9. CASE FetchFailed
    BY <1>2, <1>9, SMTT(20) DEF FetchFailed
<1>10. CASE Join
    BY <1>10 DEF Join
<1>11. CASE UNCHANGED vars
    BY <1>2, <1>11 DEF vars
<1> QED BY <1>2, <1>3, <1>4, <1>5, <1>6, <1>7, <1>8, <1>9, <1>10, <1>11
        DEF Next, KernelStep, PollStep

\* For every queue depth and every MAX_AIO_EVENTS: every event on
\* the kernel's list is matched by a signal to come, by a count not yet used, or by
\* a count that a failed fetch dropped, so that no other completion is stranded.
THEOREM CountedCorrect == Spec => []Counted
<1>1. Init => NothingLeft /\ Counted
    BY SMTT(20) DEF Init, NothingLeft, Counted
<1> QED BY <1>1, KadiTypes, NextNothingLeft, NextCounted, PTL DEF Spec

(***************************************************************************)
(* The command contexts and the events that name them.                     *)
(***************************************************************************)
\* Whatever names a command names a context and a request.
LEMMA EventTypes ==
    ASSUME TypeOK
    PROVE  /\ \A e \in dev : e.reqid \in Ctxs /\ e.req \in Reqs
           /\ \A i \in DOMAIN list : list[i].reqid \in Ctxs /\ list[i].req \in Reqs
           /\ \A i \in DOMAIN batch : batch[i].reqid \in Ctxs /\ batch[i].req \in Reqs
<1>1. /\ \A e \in dev : e \in Events
      /\ \A i \in DOMAIN list : list[i] \in Events
      /\ \A i \in DOMAIN batch : batch[i] \in Events
    BY SMTT(20) DEF TypeOK
<1>2. \A e \in Events : e.reqid \in Ctxs /\ e.req \in Reqs
    BY DEF Events
<1> QED BY <1>1, <1>2

\* get_cmd_ctx: the last free context becomes pending for the caller.
LEMMA TakeKeeps ==
    ASSUME PoolStrong, NEW r \in Reqs, GetCtx(r)
    PROVE  (PoolPartition /\ EventOwner /\ OneEach /\ Fresh)'
<1> USE DEF poolVars, kernelVars, pollVars, callVars
<1> DEFINE c == free[Len(free)]
<1>1. /\ free \in Seq(Ctxs) /\ Len(free) \in Nat /\ Len(free) > 0 /\ c \in Ctxs
      /\ pending \in [Ctxs -> Reqs \cup {None}] /\ r # None /\ pc[r] = "ask"
      /\ pc \in [Reqs -> {"idle", "ask", "have", "wait", "done"}]
    BY KadiAssumption, SMTT(20) DEF GetCtx, PoolStrong, TypeOK
<1>2. /\ free' = SubSeq(free, 1, Len(free) - 1)
      /\ pending' = [pending EXCEPT ![c] = r]
      /\ pc' = [pc EXCEPT ![r] = "have"]
      /\ UNCHANGED <<dev, list, batch>>
    BY DEF GetCtx, TakeCtx
<1>3. pending[c] = None
    BY <1>1, SMTT(20) DEF PoolStrong, PoolPartition
<1>4. \A d \in Ctxs : pending[d] # r
    BY <1>1 DEF PoolStrong, Fresh
<1> HIDE DEF c
<1>5. PoolPartition'
    <2>1. /\ DOMAIN free' = 1 .. Len(free) - 1
          /\ \A i \in 1 .. Len(free) - 1 : free'[i] = free[i]
        BY <1>1, <1>2, SMTT(20)
    <2>2. \A i, j \in DOMAIN free' : free'[i] = free'[j] => i = j
        BY <1>1, <2>1, SMTT(20) DEF PoolStrong, PoolPartition
    <2>3. ASSUME NEW d \in Ctxs
          PROVE  pending'[d] = None <=> \E i \in DOMAIN free' : free'[i] = d
        <3>1. CASE d = c
            <4>1. pending'[d] # None
                BY <1>1, <1>2, <3>1
            <4>2. \A i \in 1 .. Len(free) - 1 : free[i] # c
                BY <1>1, SMTT(20) DEF PoolStrong, PoolPartition, c
            <4> QED BY <2>1, <3>1, <4>1, <4>2
        <3>2. CASE d # c
            <4>1. pending'[d] = pending[d]
                BY <1>1, <1>2, <3>2
            <4>2. \A i \in DOMAIN free : free[i] = d => i \in 1 .. Len(free) - 1
                BY <1>1, <3>2, SMTT(20) DEF c
            <4> QED BY <1>1, <2>1, <4>1, <4>2, SMTT(20) DEF PoolStrong, PoolPartition
        <3> QED BY <3>1, <3>2
    <2>4. \A d, e \in Ctxs : pending'[d] = pending'[e] /\ pending'[d] # None => d = e
        BY <1>1, <1>2, <1>4 DEF PoolStrong, PoolPartition
    <2> QED BY <2>2, <2>3, <2>4 DEF PoolPartition
<1>6. /\ \A e \in dev : e.reqid \in Ctxs /\ e.req \in Reqs
      /\ \A i \in DOMAIN list : list[i].reqid \in Ctxs /\ list[i].req \in Reqs
      /\ \A i \in DOMAIN batch : batch[i].reqid \in Ctxs /\ batch[i].req \in Reqs
    BY EventTypes DEF PoolStrong
<1>7. /\ \A e \in dev : e.reqid # c /\ e.req # r
      /\ \A i \in DOMAIN list : list[i].reqid # c /\ list[i].req # r
      /\ \A i \in DOMAIN batch : batch[i].reqid # c /\ batch[i].req # r
    BY <1>3, <1>4, <1>6, KadiAssumption, SMTT(20) DEF PoolStrong, EventOwner
<1>8. EventOwner'
    BY <1>1, <1>2, <1>6, <1>7 DEF PoolStrong, EventOwner
<1>9. OneEach'
    BY <1>2 DEF PoolStrong, OneEach
<1>10. Fresh'
    BY <1>1, <1>2, <1>7 DEF PoolStrong, Fresh
<1> QED BY <1>5, <1>8, <1>9, <1>10

\* NVME_IOCTL_AIO_CMD: one more command, for a context that had none.
LEMMA SubmitKeeps ==
    ASSUME PoolStrong, NEW r \in Reqs, Submit(r)
    PROVE  (PoolPartition /\ EventOwner /\ OneEach /\ Fresh)'
<1> USE DEF poolVars, kernelVars, pollVars, callVars
<1>1. PICK c \in Ctxs : pending[c] = r /\ dev' = dev \cup {[reqid |-> c, req |-> r]}
    BY DEF Submit
<1>2. /\ UNCHANGED <<free, pending, list, batch>> /\ pc[r] = "have"
      /\ pc' = [pc EXCEPT ![r] = pc'[r]] /\ pc'[r] \in {"wait", "done"}
      /\ pc \in [Reqs -> {"idle", "ask", "have", "wait", "done"}]
    BY DEF Submit, Accepted, Return, PoolStrong, TypeOK
<1>3. PoolPartition'
    BY <1>2 DEF PoolStrong, PoolPartition
<1>4. EventOwner'
    BY <1>1, <1>2, SMTT(20) DEF PoolStrong, EventOwner
<1>5. /\ \A e \in dev : e.reqid # c
      /\ \A i \in DOMAIN list : list[i].reqid # c
      /\ \A i \in DOMAIN batch : batch[i].reqid # c
    BY <1>1, <1>2, SMTT(20) DEF PoolStrong, EventOwner, Fresh
<1>6. OneEach'
    <2> DEFINE new == [reqid |-> c, req |-> r]
    <2>1. dev' = dev \cup {new} /\ new.reqid = c
        BY <1>1
    <2> HIDE DEF new
    <2> QED BY <1>2, <1>5, <2>1, SMTT(20) DEF PoolStrong, OneEach
<1>7. Fresh'
    <2> SUFFICES ASSUME NEW q \in Reqs
                 PROVE  /\ pc'[q] \in {"idle", "ask"} => \A d \in Ctxs : pending'[d] # q
                        /\ pc'[q] = "have" => /\ \A e \in dev' : e.req # q
                                              /\ \A i \in DOMAIN list' : list'[i].req # q
                                              /\ \A i \in DOMAIN batch' : batch'[i].req # q
        BY DEF Fresh
    <2>1. CASE q = r BY <1>2, <2>1
    <2>2. CASE q # r
        <3>1. pc'[q] = pc[q]
            BY <1>2, <2>2
        <3> QED BY <1>1, <1>2, <2>2, <3>1, SMTT(20) DEF PoolStrong, Fresh
    <2> QED BY <2>1, <2>2
<1> QED BY <1>3, <1>4, <1>6, <1>7

\* release_cmd_ctx of a pending context with no command under way.
LEMMA ReleaseKeeps ==
    ASSUME PoolStrong, NEW c \in Ctxs, ReleaseCtx(c), pending[c] # None
    PROVE  PoolPartition'
<1>1. /\ free' = Append(free, c) /\ pending' = [pending EXCEPT ![c] = None]
      /\ free \in Seq(Ctxs) /\ Len(free) \in Nat
      /\ pending \in [Ctxs -> Reqs \cup {None}]
    BY SMTT(20) DEF ReleaseCtx, PoolStrong, TypeOK
<1>2. /\ DOMAIN free' = 1 .. Len(free) + 1 /\ DOMAIN free = 1 .. Len(free)
      /\ free'[Len(free) + 1] = c
      /\ \A i \in 1 .. Len(free) : free'[i] = free[i]
    BY <1>1, SMTT(20)
<1>3. \A i \in 1 .. Len(free) : free[i] # c
    BY <1>2 DEF PoolStrong, PoolPartition
<1>4. \A i, j \in DOMAIN free' : free'[i] = free'[j] => i = j
    BY <1>1, <1>2, <1>3, SMTT(20) DEF PoolStrong, PoolPartition
<1>5. ASSUME NEW d \in Ctxs
      PROVE  pending'[d] = None <=> \E i \in DOMAIN free' : free'[i] = d
    <2>1. CASE d = c BY <1>1, <1>2, <2>1, SMTT(20)
    <2>2. CASE d # c
        <3>1. pending'[d] = pending[d]
            BY <1>1, <2>2
        <3>2. (\E i \in DOMAIN free' : free'[i] = d) <=> (\E i \in DOMAIN free : free[i] = d)
            BY <1>1, <1>2, <2>2, SMTT(20)
        <3> QED BY <3>1, <3>2 DEF PoolStrong, PoolPartition
    <2> QED BY <2>1, <2>2
<1>6. \A d, e \in Ctxs : pending'[d] = pending'[e] /\ pending'[d] # None => d = e
    BY <1>1 DEF PoolStrong, PoolPartition
<1> QED BY <1>4, <1>5, <1>6 DEF PoolPartition

\* A failed ioctl: the caller's context had no command.
LEMMA SubmitFailedKeeps ==
    ASSUME PoolStrong, NEW r \in Reqs, SubmitFailed(r)
    PROVE  (PoolPartition /\ EventOwner /\ OneEach /\ Fresh)'
<1> USE DEF poolVars, kernelVars, pollVars, callVars
<1>1. PICK c \in Ctxs : pending[c] = r /\ ReleaseCtx(c)
    BY DEF SubmitFailed
<1>2. /\ UNCHANGED <<dev, list, batch>> /\ pc[r] = "have" /\ r # None
      /\ pc' = [pc EXCEPT ![r] = pc'[r]] /\ pc'[r] \in {"wait", "done"}
      /\ pc \in [Reqs -> {"idle", "ask", "have", "wait", "done"}]
      /\ pending \in [Ctxs -> Reqs \cup {None}]
      /\ pending' = [pending EXCEPT ![c] = None]
    <2>1. /\ UNCHANGED <<dev, list, batch>> /\ pc[r] = "have" /\ r # None
          /\ pc \in [Reqs -> {"idle", "ask", "have", "wait", "done"}]
          /\ pending \in [Ctxs -> Reqs \cup {None}]
        BY KadiAssumption DEF SubmitFailed, PoolStrong, TypeOK
    <2>2. \E what \in {"wait", "done"} : pc' = [pc EXCEPT ![r] = what]
        BY DEF SubmitFailed, Accepted, Return
    <2>3. pc' = [pc EXCEPT ![r] = pc'[r]] /\ pc'[r] \in {"wait", "done"}
        BY <2>1, <2>2
    <2> QED BY <1>1, <2>1, <2>3 DEF ReleaseCtx
<1>3. PoolPartition'
    BY <1>1, <1>2, ReleaseKeeps
<1>4. /\ \A e \in dev : e.reqid # c
      /\ \A i \in DOMAIN list : list[i].reqid # c
      /\ \A i \in DOMAIN batch : batch[i].reqid # c
    BY <1>1, <1>2, SMTT(20) DEF PoolStrong, EventOwner, Fresh
<1>5. EventOwner'
    BY <1>2, <1>4, EventTypes DEF PoolStrong, EventOwner
<1>6. OneEach'
    BY <1>2, SMTT(20) DEF PoolStrong, OneEach
<1>7. Fresh'
    <2>1. \A q \in Reqs : q # r => pc'[q] = pc[q]
        BY <1>2
    <2>2. \A q \in Reqs, d \in Ctxs : pending'[d] = q => pending[d] = q
        BY <1>2, KadiAssumption
    <2> QED BY <1>2, <2>1, <2>2 DEF PoolStrong, Fresh
<1> QED BY <1>3, <1>5, <1>6, <1>7

\* set_aioctx_event: the command leaves the device as an event at the list's tail.
LEMMA CompleteKeeps ==
    ASSUME PoolStrong, NEW e \in dev, Complete(e)
    PROVE  (PoolPartition /\ EventOwner /\ OneEach /\ Fresh)'
<1> USE DEF poolVars, kernelVars, pollVars, callVars
<1>1. UNCHANGED <<free, pending, pc, batch>> /\ dev' = dev \ {e}
    BY DEF Complete
<1>2. PoolPartition'
    BY <1>1 DEF PoolStrong, PoolPartition
<1>3. CASE phase = "closed"
    <2>1. list' = list
        BY <1>3 DEF Complete
    <2>2. EventOwner' /\ Fresh'
        BY <1>1, <2>1 DEF PoolStrong, EventOwner, Fresh
    <2>3. OneEach'
        BY <1>1, <2>1, SMTT(20) DEF PoolStrong, OneEach
    <2> QED BY <1>2, <2>2, <2>3
<1>4. CASE phase # "closed"
    <2>1. list' = Append(list, e) /\ list \in Seq(Events) /\ e \in Events /\ Len(list) \in Nat
        BY <1>4, SMTT(20) DEF Complete, PoolStrong, TypeOK
    <2>2. /\ DOMAIN list' = 1 .. Len(list) + 1 /\ DOMAIN list = 1 .. Len(list)
          /\ list'[Len(list) + 1] = e
          /\ \A i \in 1 .. Len(list) : list'[i] = list[i]
        BY <2>1, SMTT(20)
    <2>3. \A i \in DOMAIN list' : i \in DOMAIN list \/ i = Len(list) + 1
        BY <2>1, <2>2, SMTT(20)
    <2>4. EventOwner'
        BY <1>1, <2>2, <2>3 DEF PoolStrong, EventOwner
    <2>5. OneEach'
        <3>1. \A i, j \in DOMAIN list' : list'[i].reqid = list'[j].reqid => i = j
            BY <2>2, <2>3, SMTT(20) DEF PoolStrong, OneEach
        <3>2. \A f \in dev' : \A i \in DOMAIN list' : f.reqid # list'[i].reqid
            <4> SUFFICES ASSUME NEW f \in dev', NEW i \in DOMAIN list' PROVE f.reqid # list'[i].reqid
                OBVIOUS
            <4>1. f \in dev /\ f # e
                BY <1>1
            <4>2. CASE i \in DOMAIN list BY <2>2, <4>1, <4>2, SMTT(20) DEF PoolStrong, OneEach
            <4>3. CASE i = Len(list) + 1 BY <2>2, <4>1, <4>3 DEF PoolStrong, OneEach
            <4> QED BY <2>3, <4>2, <4>3
        <3>3. \A i \in DOMAIN list' : \A j \in DOMAIN batch' : list'[i].reqid # batch'[j].reqid
            <4> SUFFICES ASSUME NEW i \in DOMAIN list', NEW j \in DOMAIN batch
                         PROVE  list'[i].reqid # batch[j].reqid
                BY <1>1
            <4>1. CASE i \in DOMAIN list BY <2>2, <4>1 DEF PoolStrong, OneEach
            <4>2. CASE i = Len(list) + 1 BY <2>2, <4>2 DEF PoolStrong, OneEach
            <4> QED BY <2>3, <4>1, <4>2
        <3>4. /\ \A f, g \in dev' : f.reqid = g.reqid => f = g
              /\ \A i, j \in DOMAIN batch' : batch'[i].reqid = batch'[j].reqid => i = j
              /\ \A f \in dev' : \A i \in DOMAIN batch' : f.reqid # batch'[i].reqid
            BY <1>1 DEF PoolStrong, OneEach
        <3> QED BY <3>1, <3>2, <3>3, <3>4 DEF OneEach
    <2>6. Fresh'
        BY <1>1, <2>2, <2>3 DEF PoolStrong, Fresh
    <2> QED BY <1>2, <2>4, <2>5, <2>6
<1> QED BY <1>3, <1>4

\* nvme_get_ioevents: events move from the list to an empty batch.
LEMMA FetchKeeps ==
    ASSUME PoolStrong, Fetch
    PROVE  (PoolPartition /\ EventOwner /\ OneEach /\ Fresh)'
<1> USE DEF poolVars, kernelVars, pollVars, callVars
<1>1. UNCHANGED <<free, pending, pc, dev>>
    BY DEF Fetch
<1>2. PICK got \in Nat :
          /\ got <= Len(list)
          /\ batch' = [i \in 1 .. got |-> list[got + 1 - i]]
          /\ list' = SubSeq(list, got + 1, Len(list))
    BY FetchEffect DEF PoolStrong
<1>3. list \in Seq(Events) /\ Len(list) \in Nat /\ DOMAIN list = 1 .. Len(list)
    BY SMTT(20) DEF PoolStrong, TypeOK
<1>4. /\ DOMAIN batch' = 1 .. got
      /\ \A i \in 1 .. got : batch'[i] = list[got + 1 - i] /\ got + 1 - i \in DOMAIN list
    BY <1>2, <1>3, SMTT(20)
<1>5. /\ DOMAIN list' = 1 .. Len(list) - got
      /\ \A i \in 1 .. Len(list) - got : list'[i] = list[got + i] /\ got + i \in DOMAIN list
    BY <1>2, <1>3, SMTT(20)
<1>6. PoolPartition'
    BY <1>1 DEF PoolStrong, PoolPartition
<1>7. EventOwner'
    <2>1. \A e \in dev' : pending'[e.reqid] = e.req
        BY <1>1 DEF PoolStrong, EventOwner
    <2>2. \A i \in DOMAIN list' : pending'[list'[i].reqid] = list'[i].req
        BY <1>1, <1>5, SMTT(20) DEF PoolStrong, EventOwner
    <2>3. \A i \in DOMAIN batch' : pending'[batch'[i].reqid] = batch'[i].req
        BY <1>1, <1>4, SMTT(20) DEF PoolStrong, EventOwner
    <2> QED BY <2>1, <2>2, <2>3 DEF EventOwner
<1>8. OneEach'
    <2>0. DOMAIN list' \subseteq Nat \ {0} /\ DOMAIN batch' \subseteq Nat \ {0}
        BY <1>3, <1>4, <1>5, SMTT(20)
    <2>1. \A i, j \in DOMAIN list' : list'[i].reqid = list'[j].reqid => i = j
        <3>1. \A i, j \in DOMAIN list' : list'[i].reqid = list'[j].reqid => got + i = got + j
            BY <1>5, SMTT(20) DEF PoolStrong, OneEach
        <3> QED BY <2>0, <3>1, SMTT(20)
    <2>2. \A i, j \in DOMAIN batch' : batch'[i].reqid = batch'[j].reqid => i = j
        <3>1. \A i, j \in DOMAIN batch' :
                 batch'[i].reqid = batch'[j].reqid => got + 1 - i = got + 1 - j
            BY <1>4, SMTT(20) DEF PoolStrong, OneEach
        <3> QED BY <1>2, <1>4, <3>1, SMTT(20)
    <2>3. \A i \in DOMAIN list' : \A j \in DOMAIN batch' : list'[i].reqid # batch'[j].reqid
        <3>1. \A i \in DOMAIN list' : \A j \in DOMAIN batch' :
                 list'[i].reqid = batch'[j].reqid => got + i = got + 1 - j
            BY <1>4, <1>5, SMTT(20) DEF PoolStrong, OneEach
        <3> QED BY <2>0, <3>1, SMTT(20)
    <2>4. /\ \A f \in dev' : \A i \in DOMAIN list' : f.reqid # list'[i].reqid
          /\ \A f \in dev' : \A i \in DOMAIN batch' : f.reqid # batch'[i].reqid
          /\ \A f, g \in dev' : f.reqid = g.reqid => f = g
        BY <1>1, <1>4, <1>5, SMTT(20) DEF PoolStrong, OneEach
    <2> QED BY <2>1, <2>2, <2>3, <2>4 DEF OneEach
<1>9. Fresh'
    <2>1. \A i \in DOMAIN list' : \E j \in DOMAIN list : list'[i] = list[j]
        BY <1>5
    <2>2. \A i \in DOMAIN batch' : \E j \in DOMAIN list : batch'[i] = list[j]
        BY <1>4
    <2>3. ASSUME NEW r \in Reqs, pc'[r] \in {"idle", "ask"}, NEW c \in Ctxs
          PROVE  pending'[c] # r
        BY <1>1, <2>3 DEF PoolStrong, Fresh
    <2>4. ASSUME NEW r \in Reqs, pc'[r] = "have"
          PROVE  /\ \A e \in dev' : e.req # r
                 /\ \A i \in DOMAIN list' : list'[i].req # r
                 /\ \A i \in DOMAIN batch' : batch'[i].req # r
        <3>1. pc[r] = "have" /\ dev' = dev
            BY <1>1, <2>4
        <3>2. (\A e \in dev : e.req # r) /\ \A i \in DOMAIN list : list[i].req # r
            BY <3>1 DEF PoolStrong, Fresh
        <3> QED BY <2>1, <2>2, <3>1, <3>2
    <2> QED BY <2>3, <2>4 DEF Fresh
<1> QED BY <1>6, <1>7, <1>8, <1>9

\* poll_completion, after the callback: the context goes with its only event.
LEMMA EventReleaseKeeps ==
    ASSUME PoolStrong, Release
    PROVE  (PoolPartition /\ EventOwner /\ OneEach /\ Fresh)'
<1> USE DEF poolVars, kernelVars, pollVars, callVars
<1> DEFINE c == batch[1].reqid
<1>1. batch \in Seq(Events) /\ batch # <<>> /\ Len(batch) \in Nat /\ 1 \in DOMAIN batch
    BY SMTT(20) DEF Release, PoolStrong, TypeOK
<1>2. c \in Ctxs /\ pending[c] = batch[1].req /\ batch[1].req \in Reqs
    BY <1>1, EventTypes DEF PoolStrong, EventOwner
<1>3. /\ ReleaseCtx(c) /\ UNCHANGED <<dev, list, pc>> /\ batch' = Tail(batch)
      /\ pending' = [pending EXCEPT ![c] = None]
      /\ pending \in [Ctxs -> Reqs \cup {None}]
    BY DEF Release, ReleaseCtx, PoolStrong, TypeOK
<1> HIDE DEF c
<1>4. PoolPartition'
    BY <1>2, <1>3, ReleaseKeeps, KadiAssumption
<1>5. /\ DOMAIN batch' = 1 .. Len(batch) - 1
      /\ \A i \in 1 .. Len(batch) - 1 : /\ batch'[i] = batch[i + 1]
                                        /\ i + 1 \in DOMAIN batch /\ i + 1 # 1
    BY <1>1, <1>3, SMTT(20)
<1>6. /\ \A e \in dev : e.reqid # c
      /\ \A i \in DOMAIN list : list[i].reqid # c
      /\ \A i \in DOMAIN batch' : batch'[i].reqid # c
    BY <1>1, <1>5, SMTT(20) DEF PoolStrong, OneEach, c
<1>7. EventOwner'
    <2>1. \A d \in Ctxs : d # c => pending'[d] = pending[d]
        BY <1>3
    <2> QED BY <1>3, <1>5, <1>6, <2>1, EventTypes, SMTT(20) DEF PoolStrong, EventOwner
<1>8. OneEach'
    <2>1. \A i, j \in DOMAIN batch' : batch'[i].reqid = batch'[j].reqid => i = j
        <3>1. \A i, j \in DOMAIN batch' : batch'[i].reqid = batch'[j].reqid => i + 1 = j + 1
            BY <1>5, SMTT(20) DEF PoolStrong, OneEach
        <3> QED BY <1>1, <1>5, <3>1, SMTT(20)
    <2>2. /\ \A f \in dev' : \A i \in DOMAIN batch' : f.reqid # batch'[i].reqid
          /\ \A i \in DOMAIN list' : \A j \in DOMAIN batch' : list'[i].reqid # batch'[j].reqid
        BY <1>3, <1>5, SMTT(20) DEF PoolStrong, OneEach
    <2>3. /\ \A f, g \in dev' : f.reqid = g.reqid => f = g
          /\ \A i, j \in DOMAIN list' : list'[i].reqid = list'[j].reqid => i = j
          /\ \A f \in dev' : \A i \in DOMAIN list' : f.reqid # list'[i].reqid
        BY <1>3 DEF PoolStrong, OneEach
    <2> QED BY <2>1, <2>2, <2>3 DEF OneEach
<1>9. Fresh'
    <2>1. \A q \in Reqs, d \in Ctxs : pending'[d] = q => pending[d] = q
        BY <1>3, KadiAssumption
    <2> QED BY <1>3, <1>5, <2>1, SMTT(20) DEF PoolStrong, Fresh
<1> QED BY <1>4, <1>7, <1>8, <1>9

\* KADI::open establishes the inductive invariant: all contexts are free.
LEMMA InitPool == Init => PoolStrong
<1> SUFFICES ASSUME Init PROVE PoolStrong OBVIOUS
<1>1. TypeOK
    BY InitTypes
<1>2. PoolPartition
    <2>1. DOMAIN free = 1 .. QDepth /\ \A i \in 1 .. QDepth : free[i] = i - 1
        BY DEF Init
    <2>2. \A c \in Ctxs : c + 1 \in 1 .. QDepth /\ free[c + 1] = c
        BY <2>1, KadiAssumption, SMTT(20) DEF Ctxs
    <2>3. \A c \in Ctxs : pending[c] = None
        BY DEF Init
    <2>4. \A i, j \in DOMAIN free : free[i] = free[j] => i = j
        BY <2>1, SMTT(20)
    <2> QED BY <2>1, <2>2, <2>3, <2>4 DEF PoolPartition
<1>3. EventOwner /\ OneEach
    BY SMTT(20) DEF Init, EventOwner, OneEach
<1>4. Fresh
    BY KadiAssumption DEF Init, Fresh
<1> QED BY <1>1, <1>2, <1>3, <1>4 DEF PoolStrong

\* Every step keeps it.
LEMMA NextPool == PoolStrong /\ [Next]_vars => PoolStrong'
<1> SUFFICES ASSUME PoolStrong, [Next]_vars
             PROVE  (PoolPartition /\ EventOwner /\ OneEach /\ Fresh)'
    BY NextTypes DEF PoolStrong
<1> USE DEF poolVars, kernelVars, pollVars, callVars
<1> DEFINE Goal == (PoolPartition /\ EventOwner /\ OneEach /\ Fresh)'
<1>1. ASSUME NEW r \in Reqs, Call(r) \/ Wake(r) PROVE Goal
    <2>1. /\ UNCHANGED <<free, pending, dev, list, batch>>
          /\ pc[r] \in {"idle", "wait"}
          /\ pc' = [pc EXCEPT ![r] = pc'[r]] /\ pc'[r] \in {"ask", "done"}
          /\ pc[r] = "wait" => pc'[r] = "done"
          /\ pc \in [Reqs -> {"idle", "ask", "have", "wait", "done"}]
        BY <1>1 DEF Call, Wake, Return, PoolStrong, TypeOK
    <2>2. PoolPartition' /\ EventOwner' /\ OneEach'
        BY <2>1, SMTT(20) DEF PoolStrong, PoolPartition, EventOwner, OneEach
    <2>3. \A q \in Reqs : q # r => pc'[q] = pc[q]
        BY <2>1
    <2>4. Fresh'
        BY <2>1, <2>3 DEF PoolStrong, Fresh
    <2> QED BY <2>2, <2>4
<1>2. ASSUME NEW r \in Reqs, GetCtx(r) \/ Submit(r) \/ SubmitFailed(r) PROVE Goal
    BY <1>2, TakeKeeps, SubmitKeeps, SubmitFailedKeeps
<1>3. ASSUME NEW e \in dev, Complete(e) PROVE Goal
    BY <1>3, CompleteKeeps
<1>4. CASE Fetch
    BY <1>4, FetchKeeps
<1>5. CASE Release
    BY <1>5, EventReleaseKeeps
<1>6. CASE Signal \/ Enter \/ TimeOut \/ ReadCount \/ FetchFailed \/ HandleSync \/ HandleAsync
           \/ CallbackReturn \/ Close \/ UNCHANGED vars
    <2>1. UNCHANGED <<free, pending, pc, dev, list, batch>>
        BY <1>6 DEF Signal, Enter, TimeOut, ReadCount, FetchFailed, HandleSync, HandleAsync,
                    CallbackReturn, Close, vars
    <2>2. PoolPartition'
        BY <2>1 DEF PoolStrong, PoolPartition
    <2>3. EventOwner' /\ OneEach'
        BY <2>1 DEF PoolStrong, EventOwner, OneEach
    <2>4. Fresh'
        BY <2>1 DEF PoolStrong, Fresh
    <2> QED BY <2>2, <2>3, <2>4
<1>7. CASE Join
    <2>1. UNCHANGED <<free, pending, pc, dev, batch>> /\ DOMAIN list' = {}
        BY <1>7, SMTT(20) DEF Join
    <2>2. PoolPartition'
        BY <2>1 DEF PoolStrong, PoolPartition
    <2>3. EventOwner'
        BY <2>1 DEF PoolStrong, EventOwner
    <2>4. OneEach'
        BY <2>1 DEF PoolStrong, OneEach
    <2>5. Fresh'
        BY <2>1 DEF PoolStrong, Fresh
    <2> QED BY <2>2, <2>3, <2>4, <2>5
<1> QED BY <1>1, <1>2, <1>3, <1>4, <1>5, <1>6, <1>7
        DEF Next, CallStep, KernelStep, PollStep

\* For every number of requests, contexts and threads and whatever ioctl fails:
\* get_cmd_ctx and release_cmd_ctx never share or lose a context, and
\* poll_completion finds under an event's reqid the request the command was for.
THEOREM PoolCorrect == Spec => [](PoolPartition /\ EventOwner)
<1>1. PoolStrong => PoolPartition /\ EventOwner
    BY DEF PoolStrong
<1> QED BY <1>1, InitPool, NextPool, PTL DEF Spec

(***************************************************************************)
(* Post-process functions.                                                 *)
(***************************************************************************)
\* The command of request r is on its way.
Under(r) == \/ \E e \in dev : e.req = r
            \/ \E i \in DOMAIN list : list[i].req = r
            \/ \E i \in DOMAIN batch : batch[i].req = r

\* The asynchronous call of a request whose command is on its way has returned.
Queued == \A r \in Reqs \ Sync : Under(r) => pc[r] = "done" /\ returned[r] = "queued"

\* A request that was handed to its post-process function has no command left, but
\* for the event in the thread's hands until its context is released.
Handed == \A i \in DOMAIN delivered :
    /\ pc[delivered[i]] = "done"
    /\ \A e \in dev : e.req # delivered[i]
    /\ \A j \in DOMAIN list : list[j].req # delivered[i]
    /\ \A j \in DOMAIN batch : batch[j].req = delivered[i] => j = 1 /\ poll \in {"callback", "release"}

HandedStrong == Queued /\ Handed /\ DeliveredOnce

\* A step of a call does not touch what was handed over.
LEMMA CallHanded ==
    ASSUME PoolStrong, HandedStrong, NEW r \in Reqs, Call(r) \/ CallStep(r)
    PROVE  HandedStrong'
<1> USE DEF poolVars, kernelVars, pollVars, callVars
<1>1. /\ pc[r] \in {"idle", "ask", "have", "wait"}
      /\ UNCHANGED <<list, batch, poll, delivered>>
    BY DEF Call, CallStep, GetCtx, Submit, SubmitFailed, Wake
<1>2. /\ pc \in [Reqs -> {"idle", "ask", "have", "wait", "done"}]
      /\ delivered \in Seq(Reqs) /\ \A i \in DOMAIN delivered : delivered[i] \in Reqs
      /\ returned \in [Reqs -> {"none", "ok", "queued", "refused", "failed"}]
    BY SMTT(20) DEF PoolStrong, TypeOK
<1>3. \A q \in Reqs : q # r => pc'[q] = pc[q] /\ returned'[q] = returned[q]
    BY <1>2 DEF Call, CallStep, GetCtx, Submit, SubmitFailed, Wake, Accepted, Return
<1>4. \A i \in DOMAIN delivered : delivered[i] # r
    BY <1>1 DEF HandedStrong, Handed
<1>5. DeliveredOnce'
    BY <1>1, <1>2, <1>3, <1>4 DEF HandedStrong, DeliveredOnce
<1>6. CASE Submit(r)
    <2>1. PICK c \in Ctxs : dev' = dev \cup {[reqid |-> c, req |-> r]}
        BY <1>6 DEF Submit
    <2>2. r \notin Sync => pc'[r] = "done" /\ returned'[r] = "queued"
        BY <1>2, <1>6 DEF Submit, Accepted, Return
    <2>3. Queued'
        <3> SUFFICES ASSUME NEW q \in Reqs \ Sync, Under(q)' PROVE pc'[q] = "done" /\ returned'[q] = "queued"
            BY DEF Queued
        <3>1. CASE q = r BY <2>2, <3>1
        <3>2. CASE q # r
            <4>1. Under(q)
                BY <1>1, <2>1, <3>2, SMTT(20) DEF Under
            <4> QED BY <1>3, <3>2, <4>1 DEF HandedStrong, Queued
        <3> QED BY <3>1, <3>2
    <2>4. Handed'
        <3>1. \A i \in DOMAIN delivered : \A e \in dev' : e.req # delivered[i]
            BY <1>4, <2>1, SMTT(20) DEF HandedStrong, Handed
        <3> QED BY <1>1, <1>2, <1>3, <1>4, <3>1 DEF HandedStrong, Handed
    <2> QED BY <1>5, <2>3, <2>4 DEF HandedStrong
<1>7. CASE ~Submit(r)
    <2>1. dev' = dev
        BY <1>7 DEF Call, CallStep, GetCtx, SubmitFailed, Wake
    <2>2. Handed'
        BY <1>1, <1>2, <1>3, <1>4, <2>1 DEF HandedStrong, Handed
    <2>3. r \notin Sync => ~Under(r)
        BY <1>1 DEF HandedStrong, Queued
    <2>4. Queued'
        BY <1>1, <1>3, <2>1, <2>3 DEF HandedStrong, Queued, Under
    <2> QED BY <1>5, <2>2, <2>4 DEF HandedStrong
<1> QED BY <1>6, <1>7

\* A step that brings no command back to life and leaves the calls alone.
LEMMA EventHanded ==
    ASSUME HandedStrong, UNCHANGED <<pc, returned, delivered>>,
           \A e \in dev' : e \in dev,
           \A i \in DOMAIN list' : (\E e \in dev : list'[i] = e) \/ \E j \in DOMAIN list : list'[i] = list[j],
           \A i \in DOMAIN batch' : \/ \E j \in DOMAIN list : batch'[i] = list[j]
                                    \/ /\ i \in DOMAIN batch /\ batch'[i] = batch[i]
                                       /\ poll \in {"callback", "release"} => poll' \in {"callback", "release"}
                                    \/ \E j \in DOMAIN batch : j # 1 /\ batch'[i] = batch[j]
    PROVE  HandedStrong'
<1>1. DeliveredOnce'
    BY DEF HandedStrong, DeliveredOnce
<1>2. \A r : Under(r)' => Under(r)
    BY SMTT(20) DEF Under
<1>3. Queued'
    BY <1>2 DEF HandedStrong, Queued
<1>4. ASSUME NEW i \in DOMAIN delivered'
      PROVE  /\ pc'[delivered'[i]] = "done"
             /\ \A e \in dev' : e.req # delivered'[i]
             /\ \A j \in DOMAIN list' : list'[j].req # delivered'[i]
             /\ \A j \in DOMAIN batch' : batch'[j].req = delivered'[i] => j = 1 /\ poll' \in {"callback", "release"}
    <2>1. /\ pc[delivered[i]] = "done" /\ delivered'[i] = delivered[i]
          /\ \A e \in dev : e.req # delivered[i]
          /\ \A j \in DOMAIN list : list[j].req # delivered[i]
          /\ \A j \in DOMAIN batch : batch[j].req = delivered[i] => j = 1 /\ poll \in {"callback", "release"}
        BY <1>4 DEF HandedStrong, Handed
    <2>2. \A j \in DOMAIN batch' : batch'[j].req = delivered'[i] => j = 1 /\ poll' \in {"callback", "release"}
        BY <2>1
    <2> QED BY <2>1, <2>2
<1>5. Handed'
    BY <1>4 DEF Handed
<1> QED BY <1>1, <1>3, <1>5 DEF HandedStrong

\* kdd_on_io_complete hands over a request that was not handed over before and has
\* no other command.
LEMMA HandleHanded ==
    ASSUME PoolStrong, HandedStrong, HandleAsync
    PROVE  HandedStrong'
<1> USE DEF poolVars, kernelVars, pollVars, callVars
<1> DEFINE r == batch[1].req
           n == Len(delivered)
<1>1. 1 \in DOMAIN batch /\ r \in Reqs /\ batch[1].reqid \in Ctxs /\ Owner = r /\ r # None
    <2>1. batch # <<>> /\ batch \in Seq(Events)
        BY DEF HandleAsync, PoolStrong, TypeOK
    <2>2. 1 \in DOMAIN batch
        BY <2>1, SMTT(20)
    <2> QED BY <2>2, EventTypes, KadiAssumption DEF PoolStrong, EventOwner, Owner
<1>2. /\ poll = "handle" /\ r \notin Sync /\ poll' = "callback"
      /\ delivered' = Append(delivered, r)
      /\ UNCHANGED <<pc, returned, dev, list, batch>>
    BY <1>1 DEF HandleAsync
<1>3. pc[r] = "done" /\ returned[r] = "queued"
    BY <1>1, <1>2 DEF HandedStrong, Queued, Under
<1>4. /\ \A e \in dev : e.req # r
      /\ \A j \in DOMAIN list : list[j].req # r
      /\ \A j \in DOMAIN batch : batch[j].req = r => j = 1
    <2>1. pending[batch[1].reqid] = r
        BY <1>1 DEF PoolStrong, EventOwner
    <2>2. \A d \in Ctxs : pending[d] = r => d = batch[1].reqid
        BY <1>1, <2>1, SMTT(20) DEF PoolStrong, PoolPartition
    <2>3. \A e \in dev : e.req # r
        BY <1>1, <2>2, EventTypes, SMTT(20) DEF PoolStrong, EventOwner, OneEach
    <2>4. \A j \in DOMAIN list : list[j].req # r
        BY <1>1, <2>2, EventTypes, SMTT(20) DEF PoolStrong, EventOwner, OneEach
    <2>5. \A j \in DOMAIN batch : batch[j].req = r => j = 1
        BY <1>1, <2>2, EventTypes, SMTT(20) DEF PoolStrong, EventOwner, OneEach
    <2> QED BY <2>3, <2>4, <2>5
<1>5. \A i \in DOMAIN delivered : delivered[i] # r
    BY <1>1, <1>2 DEF HandedStrong, Handed
<1>6. /\ n \in Nat /\ DOMAIN delivered = 1 .. n /\ DOMAIN delivered' = 1 .. n + 1
      /\ delivered'[n + 1] = r /\ \A i \in 1 .. n : delivered'[i] = delivered[i]
    BY <1>1, <1>2, SMTT(20) DEF PoolStrong, TypeOK
<1> HIDE DEF r, n
<1>7. \A i \in DOMAIN delivered' : i \in DOMAIN delivered \/ i = n + 1
    BY <1>6, SMTT(20)
<1>8. DeliveredOnce'
    <2>1. \A i, j \in DOMAIN delivered' : delivered'[i] = delivered'[j] => i = j
        BY <1>5, <1>6, <1>7 DEF HandedStrong, DeliveredOnce
    <2>2. \A i \in DOMAIN delivered' : returned'[delivered'[i]] = "queued"
        BY <1>2, <1>3, <1>6, <1>7 DEF HandedStrong, DeliveredOnce
    <2> QED BY <2>1, <2>2 DEF DeliveredOnce
<1>9. Queued'
    BY <1>2 DEF HandedStrong, Queued, Under
<1>10. ASSUME NEW i \in DOMAIN delivered'
       PROVE  /\ pc'[delivered'[i]] = "done"
              /\ \A e \in dev' : e.req # delivered'[i]
              /\ \A j \in DOMAIN list' : list'[j].req # delivered'[i]
              /\ \A j \in DOMAIN batch' : batch'[j].req = delivered'[i] => j = 1 /\ poll' \in {"callback", "release"}
    <2>1. CASE i = n + 1
        BY <1>2, <1>3, <1>4, <1>6, <2>1
    <2>2. CASE i \in DOMAIN delivered
        BY <1>2, <1>6, <2>2 DEF HandedStrong, Handed
    <2> QED BY <1>7, <2>1, <2>2
<1>11. Handed'
    BY <1>10 DEF Handed
<1> QED BY <1>8, <1>9, <1>11 DEF HandedStrong

\* Every step keeps it.
LEMMA NextHanded == PoolStrong /\ HandedStrong /\ [Next]_vars => HandedStrong'
<1> SUFFICES ASSUME PoolStrong, HandedStrong, [Next]_vars PROVE HandedStrong'
    OBVIOUS
<1> USE DEF poolVars, kernelVars, pollVars, callVars
<1>1. ASSUME NEW r \in Reqs, Call(r) \/ CallStep(r) PROVE HandedStrong'
    BY <1>1, CallHanded
<1>2. ASSUME NEW e \in dev, Complete(e) PROVE HandedStrong'
    <2>1. UNCHANGED <<pc, returned, delivered, batch, poll>> /\ dev' = dev \ {e}
        BY <1>2 DEF Complete
    <2>2. \A i \in DOMAIN list' : list'[i] = e \/ \E j \in DOMAIN list : list'[i] = list[j]
        <3>1. CASE list' = list
            BY <3>1
        <3>2. CASE list' = Append(list, e)
            <4>1. list \in Seq(Events) /\ e \in Events
                BY DEF PoolStrong, TypeOK
            <4> QED BY <3>2, <4>1, SMTT(20)
        <3> QED BY <1>2, <3>1, <3>2 DEF Complete
    <2> QED BY <2>1, <2>2, EventHanded
<1>3. CASE Fetch
    <2>1. PICK got \in Nat :
              /\ got <= Len(list)
              /\ batch' = [i \in 1 .. got |-> list[got + 1 - i]]
              /\ list' = SubSeq(list, got + 1, Len(list))
        BY <1>3, FetchEffect DEF PoolStrong
    <2>2. list \in Seq(Events)
        BY DEF PoolStrong, TypeOK
    <2>3. \A i \in DOMAIN batch' : \E j \in DOMAIN list : batch'[i] = list[j]
        <3>1. \A i \in 1 .. got : batch'[i] = list[got + 1 - i] /\ got + 1 - i \in DOMAIN list
            BY <2>1, <2>2, SMTT(20)
        <3> QED BY <2>1, <3>1
    <2>4. \A i \in DOMAIN list' : \E j \in DOMAIN list : list'[i] = list[j]
        <3>1. /\ DOMAIN list' = 1 .. Len(list) - got
              /\ \A i \in 1 .. Len(list) - got : list'[i] = list[got + i] /\ got + i \in DOMAIN list
            BY <2>1, <2>2, SMTT(20)
        <3> QED BY <3>1
    <2>5. UNCHANGED <<pc, returned, delivered, dev>>
        BY <1>3 DEF Fetch
    <2> QED BY <2>3, <2>4, <2>5, EventHanded
<1>4. CASE HandleAsync
    BY <1>4, HandleHanded
<1>5. CASE HandleSync \/ CallbackReturn
    <2>1. UNCHANGED <<pc, returned, delivered, dev, list, batch>> /\ poll' = "release"
        BY <1>5 DEF HandleSync, CallbackReturn
    <2> QED BY <2>1, EventHanded
<1>6. CASE Release
    <2>1. UNCHANGED <<pc, returned, delivered, dev, list>> /\ batch' = Tail(batch)
        BY <1>6 DEF Release
    <2>2. batch \in Seq(Events) /\ batch # <<>>
        BY <1>6 DEF Release, PoolStrong, TypeOK
    <2>3. \A i \in DOMAIN batch' : \E j \in DOMAIN batch : j # 1 /\ batch'[i] = batch[j]
        <3>1. /\ DOMAIN batch' = 1 .. Len(batch) - 1
              /\ \A i \in 1 .. Len(batch) - 1 : /\ batch'[i] = batch[i + 1]
                                                /\ i + 1 \in DOMAIN batch /\ i + 1 # 1
            BY <2>1, <2>2, SMTT(20)
        <3> QED BY <3>1
    <2> QED BY <2>1, <2>3, EventHanded
<1>7. CASE Signal \/ Enter \/ TimeOut \/ ReadCount \/ FetchFailed \/ Close \/ UNCHANGED vars
    <2>1. /\ UNCHANGED <<pc, returned, delivered, dev, list, batch>>
          /\ poll \in {"callback", "release"} => poll' = poll
        BY <1>7 DEF Signal, Enter, TimeOut, ReadCount, FetchFailed, Close, vars
    <2> QED BY <2>1, EventHanded
<1>8. CASE Join
    <2>1. /\ UNCHANGED <<pc, returned, delivered, dev, batch>> /\ DOMAIN list' = {}
          /\ poll = "loop"
        BY <1>8, SMTT(20) DEF Join
    <2> QED BY <2>1, EventHanded
<1> QED BY <1>1, <1>2, <1>3, <1>4, <1>5, <1>6, <1>7, <1>8 DEF Next, KernelStep, PollStep

\* kdd_on_io_complete calls a post-process function at most once for a request, and
\* only if its call returned success.
THEOREM DeliveredCorrect == Spec => []DeliveredOnce
<1>1. Init => HandedStrong
    BY SMTT(20) DEF Init, HandedStrong, Queued, Under, Handed, DeliveredOnce
<1>2. HandedStrong => DeliveredOnce
    BY DEF HandedStrong
<1> QED BY <1>1, <1>2, InitPool, NextPool, NextHanded, PTL DEF Spec

(***************************************************************************)
(* KvCommand.                                                              *)
(***************************************************************************)
\* What a command of kind k holds: from its start, for its value, for its key.
Base(k) == {"request"} \cup IF k.aio THEN {"aiocb"} ELSE {}
Bounce(k) == IF k.data = "unaligned" THEN {"bounce"} ELSE {}
Pages(k) == CASE k.data = "none" -> {} [] k.data = "aligned" -> {"user"} [] OTHER -> {"user", "kernel"}
KeyMem(k) == CASE k.key = "inline" -> {} [] k.key = "page" -> {"keypage"} [] OTHER -> {"keypage", "key"}

\* What its control block then says.
DataTold(k) == IF ~k.aio THEN {} ELSE
    CASE k.data = "none" -> {} [] k.data = "aligned" -> {"user_ctx"} [] OTHER -> {"user_ctx", "need_to_copy"}
KeyTold(k) == IF ~k.aio THEN {} ELSE
    CASE k.key = "inline" -> {} [] k.key = "page" -> {"use_meta"} [] OTHER -> {"use_meta", "meta"}

\* What is right for a command of kind k at p: it holds h, its control block says b,
\* and s says whether its accounting has begun.
Right(p, k, h, b, s) ==
    /\ p = "idle" => h = {} /\ b = {} /\ k = NoKind
    /\ p = "aiocb" => h = {} /\ b = {} /\ k.aio
    /\ p = "request" => h = Base(k) \ {"request"} /\ b = {}
    /\ p = "bounce" => h = Base(k) /\ b = {} /\ k.data = "unaligned"
    /\ p = "buffer" => h = Base(k) \cup Bounce(k) /\ b = {} /\ k.data # "none"
    /\ p = "key" => h = Base(k) \cup Bounce(k) \cup Pages(k) /\ b = DataTold(k)
    /\ p \in {"device", "back", "worker"} =>
          h = Base(k) \cup Bounce(k) \cup Pages(k) \cup KeyMem(k) /\ b = DataTold(k) \cup KeyTold(k)
    /\ p = "worker" => k.aio
    /\ p = "back" => ~k.aio
    /\ s <=> p \in {"key", "device", "back", "worker"} /\ k.data # "none"

Tracked == \A c \in Cmds : Right(place[c], kind[c], held[c], cb[c], started[c])

\* The inductive invariant.
Strong == CommandTypeOK /\ Tracked /\ ~twice

(***************************************************************************)
(* Types.                                                                  *)
(***************************************************************************)
\* A direction is accounted in whole numbers.
LEMMA LeaveTypes ==
    ASSUME CommandTypeOK, NEW c \in Cmds, NEW label, NEW have \in SUBSET Resources,
           Leave(c, label, have)
    PROVE  CommandTypeOK'
<1>1. acct' \in [Dirs -> Int] /\ started' \in [Cmds -> BOOLEAN] /\ clean' \in BOOLEAN
    BY SMTT(20) DEF Leave, EndAlways, CommandTypeOK, Dirs, Kinds
<1>2. held' \in [Cmds -> SUBSET Resources]
    BY DEF Leave, CommandTypeOK
<1>3. /\ place' = [place EXCEPT ![c] = "idle"] /\ kind' = [kind EXCEPT ![c] = NoKind]
      /\ cb' = [cb EXCEPT ![c] = {}] /\ twice' = twice
    BY DEF Leave, Over, Go
<1>4. NoKind \in Kinds
    BY DEF NoKind, Kinds, Dirs
<1>5. kind' \in [Cmds -> Kinds] /\ cb' \in [Cmds -> SUBSET Fields] /\ twice' \in BOOLEAN
    BY <1>3, <1>4 DEF CommandTypeOK
<1>6. place' \in [Cmds -> {"idle", "aiocb", "request", "bounce", "buffer", "key", "device",
                        "back", "worker", "oops"}]
    BY <1>3 DEF CommandTypeOK
<1> QED BY <1>1, <1>2, <1>5, <1>6 DEF CommandTypeOK

\* Every step of a command keeps the types.
LEMMA StepTypes ==
    ASSUME CommandTypeOK, NEW c \in Cmds, Step(c)
    PROVE  CommandTypeOK'
<1>0. NoKind \in Kinds
    BY DEF NoKind, Kinds, Dirs
<1>1. ASSUME NEW k \in Kinds, Begin(c, k) PROVE CommandTypeOK'
    BY <1>1 DEF CommandTypeOK, Begin, Go
<1>2. CASE GetAiocb(c)
    BY <1>0, <1>2, SMTT(20) DEF CommandTypeOK, GetAiocb, Hold, Go, Over, Resources
<1>3. CASE AllocRequest(c)
    BY <1>0, <1>3, SMTT(20) DEF CommandTypeOK, AllocRequest, Hold, Go, Over, Resources
<1>4. CASE AllocBounce(c)
    <2>1. held[c] \in SUBSET Resources
        BY DEF CommandTypeOK
    <2>2. CASE Leave(c, "out_req_end", held[c])
        BY <2>1, <2>2, LeaveTypes
    <2>3. CASE ~Leave(c, "out_req_end", held[c])
        BY <1>4, <2>3, SMTT(20) DEF CommandTypeOK, AllocBounce, Hold, Go, Resources
    <2> QED BY <2>2, <2>3
<1>5. CASE MapBuffer(c)
    <2>1. held' \in [Cmds -> SUBSET Resources]
        BY <1>5 DEF CommandTypeOK, MapBuffer, Hold, AllMapped, Resources
    <2>2. cb' \in [Cmds -> SUBSET Fields]
        BY <1>5 DEF CommandTypeOK, MapBuffer, Fields
    <2>3. acct' \in [Dirs -> Int]
        BY <1>5, SMTT(20) DEF CommandTypeOK, MapBuffer, Kinds
    <2> QED BY <1>5, <2>1, <2>2, <2>3 DEF CommandTypeOK, MapBuffer, Go
<1>6. CASE BufferFails(c)
    <2>1. PICK S \in Mapped(c) : Leave(c, "out_unmap", held[c] \cup S)
        BY <1>6 DEF BufferFails
    <2>2. held[c] \cup S \in SUBSET Resources
        BY DEF CommandTypeOK, Mapped, Resources
    <2> QED BY <2>1, <2>2, LeaveTypes
<1>7. CASE Oops(c)
    <2>1. held' \in [Cmds -> SUBSET Resources]
        <3>1. PICK S \in Mapped(c) : Hold(c, S)
            BY <1>7 DEF Oops
        <3>2. S \subseteq Resources
            BY DEF Mapped, Resources
        <3> QED BY <3>1, <3>2 DEF CommandTypeOK, Hold
    <2> QED BY <1>7, <2>1 DEF CommandTypeOK, Oops, Go
<1>8. CASE MapKey(c)
    <2>1. held' \in [Cmds -> SUBSET Resources]
        BY <1>8 DEF CommandTypeOK, MapKey, Hold, Resources
    <2>2. cb' \in [Cmds -> SUBSET Fields]
        BY <1>8 DEF CommandTypeOK, MapKey, Fields
    <2> QED BY <1>8, <2>1, <2>2 DEF CommandTypeOK, MapKey, Go
<1>9. CASE KeyFails(c)
    <2>1. held[c] \in SUBSET Resources /\ held[c] \cup {"key"} \in SUBSET Resources
        BY DEF CommandTypeOK, Resources
    <2> QED BY <1>9, <2>1, LeaveTypes DEF KeyFails
<1>10. CASE DeviceDone(c)
    BY <1>10 DEF CommandTypeOK, DeviceDone, Go
<1>11. CASE SyncEnd(c)
    <2>1. held[c] \in SUBSET Resources
        BY DEF CommandTypeOK
    <2> QED BY <1>11, <2>1, LeaveTypes DEF SyncEnd
<1>12. CASE WorkerEnd(c)
    <2>1. acct' \in [Dirs -> Int] /\ started' \in [Cmds -> BOOLEAN]
        <3>1. CASE "user_ctx" \in cb[c]
            <4>1. kind[c].dir \in Dirs /\ acct[kind[c].dir] \in Int
                BY DEF CommandTypeOK, Kinds
            <4>2. /\ acct' = [acct EXCEPT ![kind[c].dir] = @ - 1]
                  /\ started' = [started EXCEPT ![c] = FALSE]
                BY <1>12, <3>1 DEF WorkerEnd, EndAsync
            <4> QED BY <4>1, <4>2, SMTT(20) DEF CommandTypeOK
        <3>2. CASE "user_ctx" \notin cb[c]
            BY <1>12, <3>2 DEF CommandTypeOK, WorkerEnd, EndAsync
        <3> QED BY <3>1, <3>2
    <2>2. held' \in [Cmds -> SUBSET Resources] /\ twice' \in BOOLEAN /\ clean' = clean
        BY <1>12 DEF CommandTypeOK, WorkerEnd
    <2> QED BY <1>0, <1>12, <2>1, <2>2 DEF CommandTypeOK, WorkerEnd, Over, Go
<1> QED
    BY <1>1, <1>2, <1>3, <1>4, <1>5, <1>6, <1>7, <1>8, <1>9, <1>10, <1>11, <1>12 DEF Step

(***************************************************************************)
(* What a step does to its own command, and that it leaves the others.     *)
(***************************************************************************)
\* Only the command that makes the step changes.
LEMMA StepLocal ==
    ASSUME CommandTypeOK, NEW c \in Cmds, Step(c), NEW d \in Cmds, d # c
    PROVE  /\ place'[d] = place[d] /\ kind'[d] = kind[d] /\ held'[d] = held[d]
           /\ cb'[d] = cb[d] /\ started'[d] = started[d]
<1>1. ASSUME NEW label, NEW have, Leave(c, label, have)
      PROVE  /\ place'[d] = place[d] /\ kind'[d] = kind[d] /\ held'[d] = held[d]
             /\ cb'[d] = cb[d] /\ started'[d] = started[d]
    BY <1>1 DEF CommandTypeOK, Leave, EndAlways, Over, Go
<1>2. ASSUME NEW k \in Kinds, Begin(c, k)
      PROVE  /\ place'[d] = place[d] /\ kind'[d] = kind[d] /\ held'[d] = held[d]
             /\ cb'[d] = cb[d] /\ started'[d] = started[d]
    BY <1>2 DEF CommandTypeOK, Begin, Go
<1>3. CASE GetAiocb(c) \/ AllocRequest(c)
    BY <1>3 DEF CommandTypeOK, GetAiocb, AllocRequest, Hold, Over, Go
<1>4. CASE AllocBounce(c)
    BY <1>1, <1>4 DEF CommandTypeOK, AllocBounce, Hold, Go
<1>5. CASE MapBuffer(c)
    BY <1>5 DEF CommandTypeOK, MapBuffer, Hold, Go
<1>6. CASE BufferFails(c) \/ KeyFails(c) \/ SyncEnd(c)
    BY <1>1, <1>6 DEF BufferFails, KeyFails, SyncEnd
<1>7. CASE Oops(c) \/ DeviceDone(c)
    BY <1>7 DEF CommandTypeOK, Oops, DeviceDone, Hold, Go
<1>8. CASE MapKey(c)
    BY <1>8 DEF CommandTypeOK, MapKey, Hold, Go
<1>9. CASE WorkerEnd(c)
    BY <1>9 DEF CommandTypeOK, WorkerEnd, EndAsync, Over, Go
<1> QED BY <1>2, <1>3, <1>4, <1>5, <1>6, <1>7, <1>8, <1>9 DEF Step

\* Leaving through a label that covers what is held leaves nothing.
LEMMA LeaveRight ==
    ASSUME CommandTypeOK, NEW c \in Cmds, NEW label, NEW have,
           Leave(c, label, have), have \subseteq Labels(c, label)
    PROVE  /\ Right(place'[c], kind'[c], held'[c], cb'[c], started'[c])
           /\ twice' = twice
<1>1. /\ place'[c] = "idle" /\ kind'[c] = NoKind /\ held'[c] = {} /\ cb'[c] = {}
      /\ started'[c] = FALSE /\ twice' = twice
    BY DEF CommandTypeOK, Leave, EndAlways, Over, Go
<1> QED BY <1>1 DEF Right

\* The worker finds in the control block exactly what the submit path holds.
LEMMA NamedExact ==
    ASSUME Strong, NEW c \in Cmds, place[c] = "worker"
    PROVE  Named(c) = held[c]
<1> DEFINE k == kind[c]
<1>1. /\ held[c] = Base(k) \cup Bounce(k) \cup Pages(k) \cup KeyMem(k)
      /\ cb[c] = DataTold(k) \cup KeyTold(k)
      /\ k.aio
    BY DEF Strong, Tracked, Right
<1>2. k.data \in {"none", "aligned", "unaligned"} /\ k.key \in {"inline", "page", "copy"}
    BY DEF Strong, CommandTypeOK, Kinds
<1>3. /\ ("need_to_copy" \in cb[c]) <=> k.data = "unaligned"
      /\ ("user_ctx" \in cb[c]) <=> k.data # "none"
      /\ ("use_meta" \in cb[c]) <=> k.key # "inline"
      /\ ("meta" \in cb[c]) <=> k.key = "copy"
    BY <1>1, <1>2 DEF DataTold, KeyTold
<1> HIDE DEF k
<1>4. Base(k) = {"request", "aiocb"}
    BY <1>1 DEF Base
<1>5. Bounce(k) \cup Pages(k) = (IF "need_to_copy" \in cb[c] THEN {"kernel", "bounce"} ELSE {})
                                \cup (IF "user_ctx" \in cb[c] THEN {"user"} ELSE {})
    BY <1>2, <1>3 DEF Bounce, Pages
<1>6. KeyMem(k) = (IF "use_meta" \in cb[c] THEN {"keypage"} ELSE {})
                  \cup (IF "meta" \in cb[c] THEN {"key"} ELSE {})
    BY <1>2, <1>3 DEF KeyMem
<1> QED BY <1>1, <1>4, <1>5, <1>6 DEF Named

\* The step of a command keeps what is right for it.
LEMMA StepRight ==
    ASSUME Strong, NEW c \in Cmds, Step(c)
    PROVE  /\ Right(place'[c], kind'[c], held'[c], cb'[c], started'[c])
           /\ ~twice'
<1> DEFINE k == kind[c]
<1>0. /\ CommandTypeOK /\ ~twice
      /\ Right(place[c], k, held[c], cb[c], started[c])
      /\ k.data \in {"none", "aligned", "unaligned"} /\ k.key \in {"inline", "page", "copy"}
      /\ k.aio \in BOOLEAN
    BY DEF Strong, Tracked, CommandTypeOK, Kinds
<1>1. ASSUME NEW j \in Kinds, Begin(c, j)
      PROVE  Right(place'[c], kind'[c], held'[c], cb'[c], started'[c]) /\ ~twice'
    <2>1. /\ place'[c] = IF j.aio THEN "aiocb" ELSE "request"
          /\ kind'[c] = j /\ held'[c] = {} /\ cb'[c] = {} /\ ~started'[c] /\ ~twice'
        BY <1>0, <1>1 DEF CommandTypeOK, Begin, Go, Right
    <2> QED BY <2>1 DEF Right, Base
<1>2. CASE GetAiocb(c)
    <2>1. kind[c].aio /\ held[c] = {} /\ cb[c] = {} /\ ~started[c]
        BY <1>0, <1>2 DEF GetAiocb, Right
    <2>2. CASE Over(c)
        <3>1. /\ place'[c] = "idle" /\ kind'[c] = NoKind /\ cb'[c] = {}
            BY <1>0, <2>2 DEF CommandTypeOK, Over, Go
        <3>2. held' = held \/ place'[c] = "request"
            BY <1>0, <1>2 DEF CommandTypeOK, GetAiocb, Go
        <3>3. held'[c] = {} /\ ~started'[c] /\ ~twice'
            BY <1>0, <1>2, <2>1, <3>1, <3>2 DEF GetAiocb
        <3> QED BY <3>1, <3>3 DEF Right
    <2>3. CASE ~Over(c)
        <3>1. /\ place'[c] = "request" /\ kind'[c] = k /\ cb'[c] = {} /\ held'[c] = {"aiocb"}
              /\ ~started'[c] /\ ~twice'
            BY <1>0, <1>2, <2>1, <2>3, SMTT(20) DEF CommandTypeOK, GetAiocb, Hold, Go
        <3> QED BY <2>1, <3>1 DEF Right, Base
    <2> QED BY <2>2, <2>3
<1>3. CASE AllocRequest(c)
    <2>1. held[c] = Base(k) \ {"request"} /\ cb[c] = {} /\ ~started[c]
        BY <1>0, <1>3 DEF AllocRequest, Right
    <2>2. held[c] \cup {"request"} = Base(k) /\ held[c] \ {"aiocb"} = {}
        BY <2>1 DEF Base
    <2>3. started'[c] = started[c] /\ ~twice'
        BY <1>0, <1>3 DEF AllocRequest
    <2>4. CASE Over(c)
        <3>1. place'[c] = "idle" /\ kind'[c] = NoKind /\ cb'[c] = {}
            BY <1>0, <2>4 DEF CommandTypeOK, Over, Go
        <3>2. held'[c] = {}
            BY <1>0, <1>3, <2>2, <3>1 DEF CommandTypeOK, AllocRequest, Go
        <3> QED BY <2>1, <2>3, <3>1, <3>2 DEF Right
    <2>5. CASE ~Over(c)
        <3>1. /\ place'[c] = CASE k.data = "none" -> "key" [] k.data = "aligned" -> "buffer" [] OTHER -> "bounce"
              /\ kind'[c] = k /\ cb'[c] = {} /\ held'[c] = Base(k)
            BY <1>0, <1>3, <2>1, <2>2, <2>5 DEF CommandTypeOK, AllocRequest, Hold, Go
        <3> HIDE DEF k
        <3>2. CASE k.data = "none"
            BY <2>1, <2>3, <3>1, <3>2 DEF Right, Bounce, Pages, DataTold
        <3>3. CASE k.data = "aligned"
            BY <2>1, <2>3, <3>1, <3>3 DEF Right, Bounce
        <3>4. CASE k.data = "unaligned"
            BY <2>1, <2>3, <3>1, <3>4 DEF Right
        <3> QED BY <1>0, <3>2, <3>3, <3>4
    <2> QED BY <2>4, <2>5
<1>4. CASE AllocBounce(c)
    <2>1. held[c] = Base(k) /\ cb[c] = {} /\ ~started[c] /\ k.data = "unaligned"
        BY <1>0, <1>4 DEF AllocBounce, Right
    <2>2. CASE Leave(c, "out_req_end", held[c])
        <3>1. held[c] \subseteq Labels(c, "out_req_end")
            BY <2>1 DEF Base, Labels, Aio
        <3> QED BY <1>0, <2>2, <3>1, LeaveRight
    <2>3. CASE ~Leave(c, "out_req_end", held[c])
        <3>1. /\ place'[c] = "buffer" /\ kind'[c] = k /\ cb'[c] = {} /\ held'[c] = Base(k) \cup {"bounce"}
              /\ ~started'[c] /\ ~twice'
            BY <1>0, <1>4, <2>1, <2>3, SMTT(20) DEF CommandTypeOK, AllocBounce, Hold, Go
        <3> QED BY <2>1, <3>1 DEF Right, Bounce
    <2> QED BY <2>2, <2>3
<1>5. CASE MapBuffer(c)
    <2>1. held[c] = Base(k) \cup Bounce(k) /\ cb[c] = {} /\ k.data # "none"
        BY <1>0, <1>5 DEF MapBuffer, Right
    <2>2. /\ place'[c] = "key" /\ kind'[c] = k /\ held'[c] = held[c] \cup AllMapped(c)
          /\ started'[c] /\ ~twice'
        BY <1>0, <1>5 DEF CommandTypeOK, MapBuffer, Hold, Go
    <2>3. AllMapped(c) = Pages(k)
        BY <1>0, <2>1 DEF AllMapped, Copied, Pages
    <2>4. cb'[c] = DataTold(k)
        <3>1. CASE k.aio
            <4>1. cb'[c] = {"user_ctx"} \cup IF Copied(c) THEN {"need_to_copy"} ELSE {}
                BY <1>0, <1>5, <2>1, <3>1 DEF CommandTypeOK, MapBuffer, Aio
            <4> QED BY <1>0, <2>1, <3>1, <4>1 DEF DataTold, Copied
        <3>2. CASE ~k.aio
            BY <1>0, <1>5, <2>1, <3>2 DEF CommandTypeOK, MapBuffer, Aio, DataTold
        <3> QED BY <3>1, <3>2
    <2> HIDE DEF k
    <2> QED BY <2>1, <2>2, <2>3, <2>4 DEF Right
<1>6. CASE BufferFails(c)
    <2>1. PICK S \in Mapped(c) : Leave(c, "out_unmap", held[c] \cup S)
        BY <1>6 DEF BufferFails
    <2>2. held[c] = Base(k) \cup Bounce(k)
        BY <1>0, <1>6 DEF BufferFails, Right
    <2>3. held[c] \cup S \subseteq Labels(c, "out_unmap")
        BY <2>2 DEF Base, Bounce, Mapped, Labels, Aio, Copied
    <2> QED BY <1>0, <2>1, <2>3, LeaveRight
<1>7. CASE Oops(c)
    <2>1. place'[c] = "oops" /\ started'[c] = started[c] /\ ~twice' /\ ~started[c]
        BY <1>0, <1>7 DEF CommandTypeOK, Oops, Go, Right
    <2> QED BY <2>1 DEF Right
<1>8. CASE MapKey(c)
    <2>1. /\ held[c] = Base(k) \cup Bounce(k) \cup Pages(k) /\ cb[c] = DataTold(k)
          /\ started[c] <=> k.data # "none"
        BY <1>0, <1>8 DEF MapKey, Right
    <2>2. /\ place'[c] = "device" /\ kind'[c] = k /\ started'[c] = started[c] /\ ~twice'
        BY <1>0, <1>8 DEF CommandTypeOK, MapKey, Go
    <2>3. held'[c] = held[c] \cup KeyMem(k)
        BY <1>0, <1>8 DEF CommandTypeOK, MapKey, Hold, KeyMem
    <2>4. cb'[c] = DataTold(k) \cup KeyTold(k)
        BY <1>0, <1>8, <2>1 DEF CommandTypeOK, MapKey, KeyTold, Aio
    <2> HIDE DEF k
    <2> QED BY <2>1, <2>2, <2>3, <2>4 DEF Right
<1>9. CASE KeyFails(c)
    <2>1. held[c] = Base(k) \cup Bounce(k) \cup Pages(k)
        BY <1>0, <1>9 DEF KeyFails, Right
    <2>2. /\ held[c] \subseteq Labels(c, "out_unmap")
          /\ held[c] \cup {"key"} \subseteq Labels(c, "out_free_meta")
        BY <1>0, <2>1 DEF Base, Bounce, Pages, Labels, Aio, Copied
    <2> QED BY <1>0, <1>9, <2>2, LeaveRight DEF KeyFails
<1>10. CASE DeviceDone(c)
    <2>1. /\ place'[c] = IF k.aio THEN "worker" ELSE "back"
          /\ kind'[c] = k /\ held'[c] = held[c] /\ cb'[c] = cb[c] /\ started'[c] = started[c] /\ ~twice'
        BY <1>0, <1>10 DEF CommandTypeOK, DeviceDone, Go, Aio
    <2>2. place[c] = "device"
        BY <1>10 DEF DeviceDone
    <2> HIDE DEF k
    <2> QED BY <1>0, <2>1, <2>2 DEF Right
<1>11. CASE SyncEnd(c)
    <2>1. /\ held[c] = Base(k) \cup Bounce(k) \cup Pages(k) \cup KeyMem(k)
        BY <1>0, <1>11 DEF SyncEnd, Right
    <2>2. held[c] \subseteq Labels(c, "out_free_meta")
        BY <1>0, <2>1 DEF Base, Bounce, Pages, KeyMem, Labels, Aio, Copied
    <2> QED BY <1>0, <1>11, <2>2, LeaveRight DEF SyncEnd
<1>12. CASE WorkerEnd(c)
    <2>1. Named(c) = held[c]
        BY <1>12, NamedExact DEF WorkerEnd
    <2>2. /\ place'[c] = "idle" /\ kind'[c] = NoKind /\ cb'[c] = {} /\ held'[c] = {} /\ ~twice'
        BY <1>0, <1>12, <2>1 DEF CommandTypeOK, WorkerEnd, Over, Go
    <2>3. ~started'[c]
        <3>1. cb[c] = DataTold(k) \cup KeyTold(k) /\ k.aio /\ (started[c] <=> k.data # "none")
            BY <1>0, <1>12 DEF WorkerEnd, Right
        <3>2. "user_ctx" \in cb[c] <=> k.data # "none"
            BY <1>0, <3>1 DEF DataTold, KeyTold
        <3> QED BY <1>0, <1>12, <3>1, <3>2 DEF CommandTypeOK, WorkerEnd, EndAsync
    <2> QED BY <2>2, <2>3 DEF Right
<1> QED
    BY <1>1, <1>2, <1>3, <1>4, <1>5, <1>6, <1>7, <1>8, <1>9, <1>10, <1>11, <1>12 DEF Step

(***************************************************************************)
(* The accounting of the disk.                                             *)
(***************************************************************************)
InFlight(d) == {c \in Cmds : started[c] /\ kind[c].dir = d}

\* A set of commands is finite.
LEMMA InFlightFinite ==
    ASSUME NEW d
    PROVE  IsFiniteSet(InFlight(d))
BY CommandAssumption, FS_Subset DEF InFlight

\* A command whose accounting has not begun counts nowhere.
LEMMA NotCounted ==
    ASSUME Strong, NEW c \in Cmds, Step(c), ~started[c], ~started'[c], NEW d
    PROVE  InFlight(d)' = InFlight(d)
<1>1. \A e \in Cmds : e # c => started'[e] = started[e] /\ kind'[e] = kind[e]
    BY StepLocal DEF Strong
<1>2. \A e \in Cmds : (started'[e] /\ kind'[e].dir = d) <=> (started[e] /\ kind[e].dir = d)
    BY <1>1
<1> QED BY <1>2 DEF InFlight

\* A command whose accounting ends is taken from its direction.
LEMMA Uncounted ==
    ASSUME Strong, NEW c \in Cmds, Step(c), started[c], ~started'[c], NEW d
    PROVE  /\ d = kind[c].dir => InFlight(d)' = InFlight(d) \ {c} /\ c \in InFlight(d)
           /\ d # kind[c].dir => InFlight(d)' = InFlight(d)
<1>1. \A e \in Cmds : e # c => started'[e] = started[e] /\ kind'[e] = kind[e]
    BY StepLocal DEF Strong
<1>2. \A e \in Cmds : (started'[e] /\ kind'[e].dir = d) <=> (started[e] /\ kind[e].dir = d /\ e # c)
    BY <1>1
<1> QED BY <1>2 DEF InFlight

\* An end that is accounted once keeps the counts.
LEMMA EndCounts ==
    ASSUME Strong, AcctExact, NEW c \in Cmds, Step(c), started[c], ~started'[c], clean,
           acct' = [acct EXCEPT ![kind[c].dir] = @ - 1]
    PROVE  AcctExact'
<1> SUFFICES ASSUME NEW d \in Dirs PROVE acct'[d] = Cardinality(InFlight(d)')
    BY DEF AcctExact, InFlight
<1>1. acct[d] = Cardinality(InFlight(d)) /\ acct \in [Dirs -> Int]
    BY DEF AcctExact, InFlight, Strong, CommandTypeOK
<1>2. CASE d = kind[c].dir
    <2>1. InFlight(d)' = InFlight(d) \ {c} /\ c \in InFlight(d)
        BY <1>2, Uncounted
    <2>2. Cardinality(InFlight(d) \ {c}) = Cardinality(InFlight(d)) - 1
        BY <2>1, InFlightFinite, FS_RemoveElement
    <2>3. acct'[d] = acct[d] - 1
        BY <1>1, <1>2
    <2> QED BY <1>1, <2>1, <2>2, <2>3
<1>3. CASE d # kind[c].dir
    <2>1. InFlight(d)' = InFlight(d)
        BY <1>3, Uncounted
    <2>2. acct'[d] = acct[d]
        BY <1>1, <1>3
    <2> QED BY <1>1, <2>1, <2>2
<1> QED BY <1>2, <1>3

\* Leaving through out_req_end keeps the counts as long as clean says so.
LEMMA LeaveCounts ==
    ASSUME Strong, AcctExact, NEW c \in Cmds, Step(c), NEW label, NEW have,
           Leave(c, label, have)
    PROVE  AcctExact'
<1>1. ~started'[c]
    BY DEF Strong, CommandTypeOK, Leave, EndAlways
<1>2. CASE clean'
    <2>1. clean /\ started[c] /\ ~Aio(c)
        BY <1>2 DEF Leave, EndAlways, Strong, CommandTypeOK
    <2>2. acct' = [acct EXCEPT ![kind[c].dir] = @ - 1]
        BY <2>1 DEF Leave, EndAlways
    <2> QED BY <1>1, <2>1, <2>2, EndCounts
<1>3. CASE ~clean'
    BY <1>3 DEF AcctExact
<1> QED BY <1>2, <1>3

\* Every step keeps the counts.
LEMMA StepCounts ==
    ASSUME Strong, AcctExact, NEW c \in Cmds, Step(c)
    PROVE  AcctExact'
<1>0. CommandTypeOK /\ Right(place[c], kind[c], held[c], cb[c], started[c])
    BY DEF Strong, Tracked
<1>1. ASSUME UNCHANGED <<started, acct, clean>>, ~started[c] \/ kind' = kind PROVE AcctExact'
    <2>1. ASSUME NEW d PROVE InFlight(d)' = InFlight(d)
        <3>1. CASE ~started[c]
            BY <1>1, <3>1, NotCounted
        <3>2. CASE kind' = kind
            BY <1>1, <3>2 DEF InFlight
        <3> QED BY <1>1, <3>1, <3>2
    <2> QED BY <1>1, <2>1 DEF AcctExact, InFlight
<1>2. ASSUME NEW k \in Kinds, Begin(c, k) PROVE AcctExact'
    <2>1. ~started[c] /\ UNCHANGED <<started, acct, clean>>
        BY <1>0, <1>2 DEF Begin, Right
    <2> QED BY <1>1, <2>1
<1>3. CASE GetAiocb(c) \/ AllocRequest(c)
    <2>1. ~started[c] /\ UNCHANGED <<started, acct, clean>>
        BY <1>0, <1>3 DEF GetAiocb, AllocRequest, Right
    <2> QED BY <1>1, <2>1
<1>4. CASE AllocBounce(c)
    <2>1. CASE Leave(c, "out_req_end", held[c])
        BY <2>1, LeaveCounts
    <2>2. CASE ~Leave(c, "out_req_end", held[c])
        BY <1>1, <1>4, <2>2 DEF AllocBounce
    <2> QED BY <2>1, <2>2
<1>5. CASE MapBuffer(c)
    <2>1. ~started[c] /\ place[c] = "buffer"
        BY <1>0, <1>5 DEF MapBuffer, Right
    <2>2. kind' = kind /\ started' = [started EXCEPT ![c] = TRUE] /\ clean' = clean
          /\ acct' = [acct EXCEPT ![kind[c].dir] = @ + 1]
        BY <1>5 DEF MapBuffer
    <2> SUFFICES ASSUME clean, NEW d \in Dirs PROVE acct'[d] = Cardinality(InFlight(d)')
        BY <2>2 DEF AcctExact, InFlight
    <2>3. acct[d] = Cardinality(InFlight(d)) /\ acct \in [Dirs -> Int]
        BY <1>0 DEF AcctExact, InFlight, CommandTypeOK
    <2>4. CASE d = kind[c].dir
        <3>1. InFlight(d)' = InFlight(d) \cup {c} /\ c \notin InFlight(d)
            BY <1>0, <2>1, <2>2, <2>4 DEF InFlight, CommandTypeOK
        <3>2. Cardinality(InFlight(d) \cup {c}) = Cardinality(InFlight(d)) + 1
            BY <3>1, InFlightFinite, FS_AddElement
        <3>3. acct'[d] = acct[d] + 1
            BY <2>2, <2>3, <2>4
        <3> QED BY <2>3, <3>1, <3>2, <3>3
    <2>5. CASE d # kind[c].dir
        <3>1. InFlight(d)' = InFlight(d)
            BY <1>0, <2>1, <2>2, <2>5 DEF InFlight, CommandTypeOK
        <3>2. acct'[d] = acct[d]
            BY <2>2, <2>3, <2>5
        <3> QED BY <2>3, <3>1, <3>2
    <2> QED BY <2>4, <2>5
<1>6. CASE BufferFails(c) \/ KeyFails(c) \/ SyncEnd(c)
    BY <1>6, LeaveCounts DEF BufferFails, KeyFails, SyncEnd
<1>7. CASE Oops(c) \/ DeviceDone(c) \/ MapKey(c)
    BY <1>1, <1>7 DEF Oops, DeviceDone, MapKey
<1>8. CASE WorkerEnd(c)
    <2>1. cb[c] = DataTold(kind[c]) \cup KeyTold(kind[c]) /\ kind[c].aio
          /\ (started[c] <=> kind[c].data # "none")
        BY <1>0, <1>8 DEF WorkerEnd, Right
    <2>2. kind[c].data \in {"none", "aligned", "unaligned"}
        BY <1>0 DEF CommandTypeOK, Kinds
    <2>3. "user_ctx" \in cb[c] <=> started[c]
        BY <2>1, <2>2 DEF DataTold, KeyTold
    <2>4. CASE started[c]
        <3>1. /\ acct' = [acct EXCEPT ![kind[c].dir] = @ - 1] /\ ~started'[c] /\ clean' = clean
            BY <1>0, <1>8, <2>3, <2>4 DEF WorkerEnd, EndAsync, CommandTypeOK
        <3>2. CASE clean BY <2>4, <3>1, <3>2, EndCounts
        <3>3. CASE ~clean BY <3>1, <3>3 DEF AcctExact
        <3> QED BY <3>2, <3>3
    <2>5. CASE ~started[c]
        <3>1. UNCHANGED <<started, acct, clean>>
            BY <1>8, <2>3, <2>5 DEF WorkerEnd, EndAsync
        <3> QED BY <1>1, <2>5, <3>1
    <2> QED BY <2>4, <2>5
<1> QED BY <1>2, <1>3, <1>4, <1>5, <1>6, <1>7, <1>8 DEF Step

(***************************************************************************)
(* The theorems.                                                           *)
(***************************************************************************)
\* Nothing is held before the first ioctl.
LEMMA InitStrong == CommandInit => Strong
<1> SUFFICES ASSUME CommandInit PROVE Strong OBVIOUS
<1>1. NoKind \in Kinds /\ 0 \in Int
    BY SMTT(20) DEF NoKind, Kinds, Dirs
<1>2. CommandTypeOK
    BY <1>1 DEF CommandInit, CommandTypeOK
<1>3. Tracked
    BY DEF CommandInit, Tracked, Right
<1> QED BY <1>2, <1>3 DEF CommandInit, Strong

\* Every step keeps the inductive invariant.
LEMMA NextStrong == Strong /\ [CommandNext]_commandVars => Strong'
<1> SUFFICES ASSUME Strong, [CommandNext]_commandVars PROVE Strong' OBVIOUS
<1>1. ASSUME NEW c \in Cmds, Step(c) PROVE Strong'
    <2>1. CommandTypeOK'
        BY <1>1, StepTypes DEF Strong
    <2>2. Right(place'[c], kind'[c], held'[c], cb'[c], started'[c]) /\ ~twice'
        BY <1>1, StepRight
    <2>3. ASSUME NEW d \in Cmds, d # c
          PROVE  Right(place'[d], kind'[d], held'[d], cb'[d], started'[d])
        <3>1. /\ place'[d] = place[d] /\ kind'[d] = kind[d] /\ held'[d] = held[d]
              /\ cb'[d] = cb[d] /\ started'[d] = started[d]
            BY <1>1, <2>3, StepLocal DEF Strong
        <3>2. Right(place[d], kind[d], held[d], cb[d], started[d])
            BY DEF Strong, Tracked
        <3> QED BY <3>1, <3>2
    <2>4. Tracked'
        BY <2>2, <2>3 DEF Tracked
    <2> QED BY <2>1, <2>2, <2>4 DEF Strong
<1>2. CASE UNCHANGED commandVars
    BY <1>2 DEF commandVars, Strong, CommandTypeOK, Tracked
<1> QED BY <1>1, <1>2 DEF CommandNext

\* __nvme_submit_kv_user_cmd and kv_complete_aio_fn keep the types.
THEOREM CommandTypes == CommandSpec => []CommandTypeOK
<1>1. Strong => CommandTypeOK BY DEF Strong
<1> QED BY <1>1, InitStrong, NextStrong, PTL DEF CommandSpec

\* Whatever fails, a key-value command that is over has given back the control block,
\* the request, the pages and the copies, and nothing was given back twice.
THEOREM ReturnsCorrect == CommandSpec => []AllReturned
<1>1. Strong => AllReturned BY DEF Strong, Tracked, Right, AllReturned
<1> QED BY <1>1, InitStrong, NextStrong, PTL DEF CommandSpec

\* The memory that the device reads and writes is held until the end of the command
\* is handled, by the submitting thread or by the worker.
THEOREM DeviceMemoryCorrect == CommandSpec => []DeviceMemory
<1>1. ASSUME Strong PROVE DeviceMemory
    <2> SUFFICES ASSUME NEW c \in Cmds, place[c] \in {"device", "back", "worker"}
        PROVE  /\ "request" \in held[c]
               /\ kind[c].data # "none" => AllMapped(c) \subseteq held[c]
               /\ Copied(c) => "bounce" \in held[c]
               /\ kind[c].key # "inline" => "keypage" \in held[c]
               /\ kind[c].key = "copy" => "key" \in held[c]
               /\ Aio(c) => "aiocb" \in held[c]
        BY DEF DeviceMemory
    <2>1. held[c] = Base(kind[c]) \cup Bounce(kind[c]) \cup Pages(kind[c]) \cup KeyMem(kind[c])
        BY <1>1 DEF Strong, Tracked, Right
    <2>2. /\ kind[c].data \in {"none", "aligned", "unaligned"}
          /\ kind[c].key \in {"inline", "page", "copy"}
        BY <1>1 DEF Strong, CommandTypeOK, Kinds
    <2>3. kind[c].data # "none" => AllMapped(c) \subseteq held[c]
        BY <2>1, <2>2 DEF AllMapped, Copied, Pages
    <2>4. /\ kind[c].key # "inline" => "keypage" \in held[c]
          /\ kind[c].key = "copy" => "key" \in held[c]
        BY <2>1, <2>2 DEF KeyMem
    <2> QED BY <2>1, <2>3, <2>4 DEF Base, Bounce, Copied, Aio
<1> QED BY <1>1, InitStrong, NextStrong, PTL DEF CommandSpec

\* The disk's counts of I/O in flight are exact until a command leaves through
\* out_req_end with an accounting it did not begin, or after its control block is
\* freed.
THEOREM AccountingCorrect == CommandSpec => []AcctExact
<1>1. CommandInit => AcctExact
    <2> SUFFICES ASSUME CommandInit, NEW d \in Dirs PROVE acct[d] = Cardinality(InFlight(d))
        BY DEF AcctExact, InFlight
    <2>1. InFlight(d) = {} /\ acct[d] = 0
        BY DEF CommandInit, InFlight
    <2> QED BY <2>1, FS_EmptySet
<1>2. ASSUME Strong, AcctExact, [CommandNext]_commandVars PROVE AcctExact'
    <2>1. ASSUME NEW c \in Cmds, Step(c) PROVE AcctExact'
        BY <1>2, <2>1, StepCounts
    <2>2. CASE UNCHANGED commandVars
        BY <1>2, <2>2 DEF commandVars, AcctExact
    <2> QED BY <1>2, <2>1, <2>2 DEF CommandNext
<1> QED BY <1>1, <1>2, InitStrong, NextStrong, PTL DEF CommandSpec

=============================================================================
