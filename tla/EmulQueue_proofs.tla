-------------------------- MODULE EmulQueue_proofs --------------------------
(***************************************************************************)
(* Proofs about the queue pair, for every set of commands, every pair of   *)
(* depths and every mode: order, no repetition, the refinement of          *)
(* FifoService, and the removal of the queues in the driver's order.       *)
(***************************************************************************)
EXTENDS MCEmulQueue, SequenceTheorems, TLAPS

\* Most steps are first-order, so Zenon is tried first; a step that needs more cites SMT.
USE ZenonT(10), SMTT(20)

(***************************************************************************)
(* Moving the boundary between two neighbouring stages of a pipeline.      *)
(***************************************************************************)

\* dequeue takes the front of a stage into the hand of the next one.
LEMMA TakeFront ==
  ASSUME NEW s \in Seq(Cmds), NEW q \in Seq(Cmds), q # <<>>
  PROVE  /\ Head(q) \in Cmds /\ Tail(q) \in Seq(Cmds) /\ Len(Tail(q)) = Len(q) - 1
         /\ (s \o <<Head(q)>>) \o Tail(q) = s \o q
<1>1. /\ Head(q) \in Cmds /\ Tail(q) \in Seq(Cmds) /\ Len(Tail(q)) = Len(q) - 1
      /\ \A i \in 1..Len(Tail(q)) : Tail(q)[i] = q[i + 1]
  BY HeadTailProperties
<1>2. <<Head(q)>> \in Seq(Cmds) /\ Len(<<Head(q)>>) = 1 /\ <<Head(q)>>[1] = q[1]
  BY <1>1, SMTT(20)
<1>3. Len(q) \in Nat \ {0} /\ Len(s) \in Nat
  BY EmptySeq, LenProperties
<1>4. <<Head(q)>> \o Tail(q) = q
  <2>1. <<Head(q)>> \o Tail(q) \in Seq(Cmds) /\ Len(<<Head(q)>> \o Tail(q)) = Len(q)
    BY <1>1, <1>2, <1>3, ConcatProperties, SMTT(20)
  <2>2. \A i \in 1..Len(q) : (<<Head(q)>> \o Tail(q))[i] = q[i]
    BY <1>1, <1>2, <1>3, ConcatProperties, SMTT(20)
  <2>. QED  BY <2>1, <2>2, SeqEqual
<1>. QED  BY <1>1, <1>2, <1>4, ConcatAssociative, SMTT(20)

\* enqueue adds the command a thread holds at the back of the next stage.
LEMMA PutBack ==
  ASSUME NEW s \in Seq(Cmds), NEW q \in Seq(Cmds), NEW c \in Cmds
  PROVE  /\ Append(q, c) \in Seq(Cmds) /\ Len(Append(q, c)) = Len(q) + 1
         /\ s \o Append(q, c) = (s \o q) \o <<c>>
         /\ Append(s, c) = s \o <<c>>
<1>1. Append(q, c) = q \o <<c>> /\ Append(s, c) = s \o <<c>>
  BY AppendIsConcat
<1>2. <<c>> \in Seq(Cmds)
  BY SMTT(20)
<1>. QED  BY <1>1, <1>2, ConcatAssociative, AppendProperties, SMTT(20)

(***************************************************************************)
(* Type correctness.                                                       *)
(***************************************************************************)

\* push_back never makes a buffer longer than its capacity.
LEMMA PushBackType ==
  ASSUME NEW q \in Seq(Cmds), NEW c \in Cmds, NEW depth \in Nat \ {0}, Len(q) <= depth
  PROVE  PushBack(q, c, depth) \in Seq(Cmds) /\ Len(PushBack(q, c, depth)) <= depth
<1>1. CASE Len(q) = depth
  <2>1. q # <<>>
    BY <1>1, EmptySeq
  <2>2. Tail(q) \in Seq(Cmds) /\ Len(Tail(q)) = depth - 1
    BY <1>1, <2>1, HeadTailProperties
  <2>. QED  BY <1>1, <2>2, AppendProperties, SMTT(20) DEF PushBack
<1>2. CASE Len(q) # depth
  BY <1>2, AppendProperties, LenProperties, SMTT(20) DEF PushBack
<1>. QED  BY <1>1, <1>2

\* A call on a deleted queue keeps the types.
LEMMA WildCallType ==
  ASSUME TypeOK, NEW c \in Cmds, WildCall(c)
  PROVE  /\ call' \in [Cmds -> {"idle", "waiting", "ok", "refused"}]
         /\ accepted' \in Seq(Cmds)
         /\ wild' \in SUBSET {"submitter", "callback", "worker"}
         /\ sq' = sq
<1>1. CASE call' = [call EXCEPT ![c] = "refused"] /\ UNCHANGED accepted
  BY <1>1 DEF WildCall, TypeOK
<1>2. CASE call' = [call EXCEPT ![c] = "ok"] /\ accepted' = Append(accepted, c)
  BY <1>2, AppendProperties DEF WildCall, TypeOK
<1>. QED  BY <1>1, <1>2 DEF WildCall

\* Every step keeps the types.
LEMMA TypeStep == TypeOK /\ [Next]_vars => TypeOK'
<1> SUFFICES ASSUME TypeOK, [Next]_vars PROVE TypeOK'
  OBVIOUS
<1> USE DepthAssumption, CmdAssumption DEF TypeOK, Thread, Idle, Exited
<1>1. ASSUME NEW c \in Cmds, Submit(c) PROVE TypeOK'
  <2>1. CASE sqState = "gone" /\ WildCall(c)
    BY <1>1, <2>1, WildCallType DEF Submit
  <2>2. CASE sqState = "open" /\ Len(sq) < SqDepth /\ Accept(c) /\ UNCHANGED wild
    BY <1>1, <2>2, PushBackType, AppendProperties DEF Submit, Accept
  <2>3. CASE /\ call' \in {[call EXCEPT ![c] = "refused"], [call EXCEPT ![c] = "waiting"]}
             /\ UNCHANGED <<sq, accepted, wild>>
    BY <1>1, <2>3 DEF Submit
  <2>. QED  BY <1>1, <2>1, <2>2, <2>3 DEF Submit
<1>2. ASSUME NEW c \in Cmds, SubmitWake(c) PROVE TypeOK'
  <2>1. CASE WildCall(c)
    BY <1>2, <2>1, WildCallType DEF SubmitWake
  <2>2. CASE Accept(c) /\ UNCHANGED wild
    BY <1>2, <2>2, PushBackType, AppendProperties DEF SubmitWake, Accept
  <2>. QED  BY <1>2, <2>1, <2>2 DEF SubmitWake
<1>3. CASE WorkerTake
  <2>1. Head(sq) \in Cmds /\ Tail(sq) \in Seq(Cmds) /\ Len(Tail(sq)) = Len(sq) - 1
    BY <1>3, HeadTailProperties DEF WorkerTake, MayPop
  <2>. QED  BY <1>3, <2>1, LenProperties, SMTT(20) DEF WorkerTake
<1>4. CASE WorkerPut
  BY <1>4, PushBackType, SMTT(20) DEF WorkerPut
<1>5. CASE WorkerWake
  <2>1. CASE wild' = wild \cup {"worker"} /\ UNCHANGED cq
    BY <1>5, <2>1 DEF WorkerWake
  <2>2. CASE cq' = PushBack(cq, worker.cmd, CqDepth) /\ UNCHANGED wild
    BY <1>5, <2>2, PushBackType DEF WorkerWake
  <2>. QED  BY <1>5, <2>1, <2>2 DEF WorkerWake
<1>6. CASE WorkerExit
  BY <1>6 DEF WorkerExit
<1>7. CASE ReaperTake
  <2>1. Head(cq) \in Cmds /\ Tail(cq) \in Seq(Cmds) /\ Len(Tail(cq)) = Len(cq) - 1
    BY <1>7, HeadTailProperties DEF ReaperTake, MayPop
  <2>. QED  BY <1>7, <2>1, LenProperties, SMTT(20) DEF ReaperTake
<1>8. CASE ReaperPost
  BY <1>8, AppendProperties DEF ReaperPost
<1>9. CASE ReaperReturn
  BY <1>9 DEF ReaperReturn
<1>10. CASE ReaperExit
  BY <1>10 DEF ReaperExit
<1>11. CASE TerminateSq
  BY <1>11 DEF TerminateSq
<1>12. CASE RemoveSq
  BY <1>12, EmptySeq, SMTT(20) DEF RemoveSq
<1>13. CASE TerminateCq
  BY <1>13 DEF TerminateCq
<1>14. CASE RemoveCq
  BY <1>14, EmptySeq, SMTT(20) DEF RemoveCq
<1>15. CASE UNCHANGED vars
  BY <1>15 DEF vars
<1>. QED
  BY <1>1, <1>2, <1>3, <1>4, <1>5, <1>6, <1>7, <1>8, <1>9, <1>10,
     <1>11, <1>12, <1>13, <1>14, <1>15 DEF Next

\* Every reachable state is well typed: in particular neither circular buffer
\* ever holds more than queue_size commands, whichever thread pushes last.
THEOREM TypeCorrect == Spec => []TypeOK
<1>1. Init => TypeOK
  BY DepthAssumption, CmdAssumption, EmptySeq, SMTT(20) DEF Init, TypeOK, Thread, Idle
<1>. QED  BY <1>1, TypeStep, PTL DEF Spec

(***************************************************************************)
(* Order.  The pipeline equality holds only while both queues are open, so *)
(* it is strengthened by what survives the termination of either queue:    *)
(* what left the submission queue is a prefix of what was accepted until   *)
(* the completion queue goes down, and what reached the reaper is one for  *)
(* ever.                                                                   *)
(***************************************************************************)
Front == posted \o Hand(reaper)
Flight == (Front \o cq) \o Hand(worker)

Begins(s, t) == \E u \in Seq(Cmds) : t = s \o u

OrderInv == /\ DeviceOpen => accepted = Flight \o sq
            /\ cqState = "open" => Begins(Flight, accepted)
            /\ Begins(Front, accepted)

SeqTypes == /\ Hand(reaper) \in Seq(Cmds) /\ Hand(worker) \in Seq(Cmds)
            /\ posted \in Seq(Cmds) /\ cq \in Seq(Cmds) /\ sq \in Seq(Cmds)
            /\ accepted \in Seq(Cmds)
            /\ Front \in Seq(Cmds) /\ Front \o cq \in Seq(Cmds)
            /\ Flight \in Seq(Cmds)

\* The sequences of the order invariant are sequences of commands.
LEMMA OrderTypes == TypeOK => SeqTypes
<1> SUFFICES ASSUME TypeOK PROVE SeqTypes
  OBVIOUS
<1>1. reaper.cmd \in Cmds \cup {NoCmd} /\ worker.cmd \in Cmds \cup {NoCmd}
  BY DEF TypeOK, Thread
<1>2. Hand(reaper) \in Seq(Cmds) /\ Hand(worker) \in Seq(Cmds)
  BY <1>1, SMTT(20) DEF Hand
<1>3. posted \in Seq(Cmds) /\ cq \in Seq(Cmds) /\ sq \in Seq(Cmds) /\ accepted \in Seq(Cmds)
  BY DEF TypeOK
<1>4. Front \in Seq(Cmds)
  BY <1>2, <1>3, ConcatProperties DEF Front
<1>5. Front \o cq \in Seq(Cmds)
  BY <1>3, <1>4, ConcatProperties
<1>. QED  BY <1>2, <1>3, <1>4, <1>5, ConcatProperties DEF Flight, SeqTypes

\* A sequence that begins with s \o t begins with s.
LEMMA BeginsConcat ==
  ASSUME NEW s \in Seq(Cmds), NEW t \in Seq(Cmds), NEW a, Begins(s \o t, a)
  PROVE  Begins(s, a)
<1>1. PICK u \in Seq(Cmds) : a = (s \o t) \o u
  BY DEF Begins
<1>2. a = s \o (t \o u) /\ t \o u \in Seq(Cmds)
  BY <1>1, ConcatAssociative, ConcatProperties, SMTT(20)
<1>. QED  BY <1>2 DEF Begins

\* A sequence keeps its beginnings when it grows.
LEMMA BeginsAppend ==
  ASSUME NEW s \in Seq(Cmds), NEW a, Begins(s, a), NEW c \in Cmds
  PROVE  Begins(s, Append(a, c))
<1>1. PICK u \in Seq(Cmds) : a = s \o u
  BY DEF Begins
<1>2. s \o u \in Seq(Cmds) /\ Append(u, c) \in Seq(Cmds)
  BY ConcatProperties, AppendProperties
<1>3. Append(s \o u, c) = (s \o u) \o <<c>> /\ s \o Append(u, c) = (s \o u) \o <<c>>
  <2>1. \A q \in Seq(Cmds) : Append(q, c) = q \o <<c>>
    BY PutBack
  <2>. QED  BY <1>2, <2>1, PutBack
<1>. QED  BY <1>1, <1>2, <1>3 DEF Begins

\* The strongest conjunct that the states of the queues leave standing.
Standing == \/ DeviceOpen /\ accepted = Flight \o sq
            \/ ~DeviceOpen /\ cqState = "open" /\ Begins(Flight, accepted)
            \/ cqState # "open" /\ Begins(Front, accepted)

\* The conjunct that stands implies the others.
LEMMA OrderWeaken == TypeOK /\ Standing => OrderInv
<1> SUFFICES ASSUME TypeOK, Standing PROVE OrderInv
  OBVIOUS
<1>0. SeqTypes
  BY OrderTypes
<1>1. CASE DeviceOpen /\ accepted = Flight \o sq
  <2>1. Begins(Flight, accepted)
    BY <1>0, <1>1 DEF Begins, SeqTypes
  <2>2. Begins(Front \o cq, accepted)
    BY <2>1, <1>0, BeginsConcat DEF Flight, SeqTypes
  <2>3. Begins(Front, accepted)
    BY <2>2, <1>0, BeginsConcat DEF SeqTypes
  <2>. QED  BY <1>1, <2>1, <2>3 DEF OrderInv
<1>2. CASE ~DeviceOpen /\ cqState = "open" /\ Begins(Flight, accepted)
  <2>1. Begins(Front \o cq, accepted)
    BY <1>2, <1>0, BeginsConcat DEF Flight, SeqTypes
  <2>2. Begins(Front, accepted)
    BY <2>1, <1>0, BeginsConcat DEF SeqTypes
  <2>. QED  BY <1>2, <2>2 DEF OrderInv
<1>3. CASE cqState # "open" /\ Begins(Front, accepted)
  BY <1>3 DEF OrderInv, DeviceOpen
<1>. QED  BY <1>1, <1>2, <1>3 DEF Standing

\* A call that reaches a pair being terminated moves nothing but the history.
LEMMA LateCall ==
  ASSUME TypeOK, OrderInv, NEW c \in Cmds, ~DeviceOpen,
         accepted' = accepted \/ accepted' = Append(accepted, c),
         UNCHANGED <<cq, sqState, cqState, worker, reaper, posted>>
  PROVE  Standing'
<1>0. SeqTypes
  BY OrderTypes
<1>1. Front' = Front /\ Flight' = Flight /\ ~DeviceOpen'
  BY DEF Front, Flight, Hand, DeviceOpen
<1>2. CASE cqState = "open"
  <2>1. Begins(Flight, accepted')
    BY <1>0, <1>2, BeginsAppend DEF OrderInv, SeqTypes
  <2>. QED  BY <1>1, <1>2, <2>1 DEF Standing
<1>3. CASE cqState # "open"
  <2>1. Begins(Front, accepted')
    BY <1>0, <1>3, BeginsAppend DEF OrderInv, SeqTypes
  <2>. QED  BY <1>1, <1>3, <2>1 DEF Standing
<1>. QED  BY <1>2, <1>3

\* A call accepted by an open pair joins the end of the line.
LEMMA OpenCall ==
  ASSUME TypeOK, OrderInv, NEW c \in Cmds, DeviceOpen, Len(sq) < SqDepth, Accept(c),
         UNCHANGED <<cq, sqState, cqState, worker, reaper, posted>>
  PROVE  Standing'
<1>0. SeqTypes
  BY OrderTypes
<1>1. Flight' = Flight /\ DeviceOpen'
  BY DEF Front, Flight, Hand, DeviceOpen
<1>2. sq' = Append(sq, c)
  BY DepthAssumption, SMTT(20) DEF Accept, PushBack, TypeOK
<1>3. accepted = Flight \o sq /\ accepted' = Append(accepted, c)
  BY DEF Accept, OrderInv
<1>4. Flight \o Append(sq, c) = (Flight \o sq) \o <<c>>
  BY <1>0, PutBack DEF SeqTypes
<1>5. Append(accepted, c) = accepted \o <<c>>
  BY <1>0, PutBack DEF SeqTypes
<1>6. accepted' = Flight \o Append(sq, c)
  BY <1>3, <1>4, <1>5
<1>. QED  BY <1>1, <1>2, <1>6 DEF Standing

\* A hand-over inside the pipeline leaves the line as it was.
LEMMA SameLine ==
  ASSUME OrderInv, Flight' = Flight, cqState # "open" => Front' = Front,
         UNCHANGED <<accepted, sq, sqState, cqState>>
  PROVE  Standing'
BY DEF OrderInv, Standing, DeviceOpen

\* Every step keeps what is accepted, under way and posted in one order.
LEMMA StandingStep == TypeOK /\ OrderInv /\ [Next]_vars => Standing'
<1> SUFFICES ASSUME TypeOK, OrderInv, [Next]_vars PROVE Standing'
  OBVIOUS
<1>0. SeqTypes
  BY OrderTypes
<1>w. /\ worker.pc = "loop" => Hand(worker) = <<>>
      /\ worker.pc \in {"put", "wait"} => worker.cmd \in Cmds /\ Hand(worker) = <<worker.cmd>>
  BY DEF TypeOK, Thread, Hand
<1>r. /\ reaper.pc = "loop" => Hand(reaper) = <<>>
      /\ reaper.pc = "taken" => reaper.cmd \in Cmds /\ Hand(reaper) = <<reaper.cmd>>
  BY DEF TypeOK, Thread, Hand
<1>i. Hand(Idle) = <<>> /\ Hand(Exited) = <<>>
  BY DEF Hand, Idle, Exited
<1>1. ASSUME NEW c \in Cmds, Submit(c) PROVE Standing'
  <2>1. CASE UNCHANGED <<sq, accepted>>
    <3>1. Flight' = Flight /\ Front' = Front
      BY <1>1 DEF Submit, Flight, Front, Hand
    <3>. QED  BY <1>1, <2>1, <3>1, SameLine DEF Submit
  <2>2. CASE sqState = "gone" /\ WildCall(c)
    BY <1>1, <2>2, LateCall DEF Submit, WildCall, DeviceOpen
  <2>3. CASE sqState = "open" /\ Len(sq) < SqDepth /\ Accept(c)
    <3>1. CASE DeviceOpen
      BY <1>1, <2>3, <3>1, OpenCall DEF Submit
    <3>2. CASE ~DeviceOpen
      BY <1>1, <2>3, <3>2, LateCall DEF Submit, Accept
    <3>. QED  BY <3>1, <3>2
  <2>. QED  BY <1>1, <2>1, <2>2, <2>3 DEF Submit
<1>2. ASSUME NEW c \in Cmds, SubmitWake(c) PROVE Standing'
  <2>1. CASE sqState = "gone" /\ WildCall(c)
    BY <1>2, <2>1, LateCall DEF SubmitWake, WildCall, DeviceOpen
  <2>2. CASE ~DeviceOpen /\ Accept(c)
    BY <1>2, <2>2, LateCall DEF SubmitWake, Accept
  <2>3. CASE DeviceOpen /\ Accept(c)
    BY <1>2, <2>3, OpenCall DEF SubmitWake, MayPush, DeviceOpen
  <2>. QED  BY <1>2, <2>1, <2>2, <2>3 DEF SubmitWake
<1>3. CASE WorkerTake
  <2>0. Front' = Front
    BY <1>3 DEF WorkerTake, Front, Hand
  <2>1. CASE DeviceOpen
    <3>1. sq # <<>> /\ Head(sq) \in Cmds
      BY <1>0, <1>3, HeadTailProperties DEF WorkerTake, MayPop, SeqTypes
    <3>2. Hand(worker)' = <<Head(sq)>>
      BY <1>3, <3>1, CmdAssumption DEF WorkerTake, Hand
    <3>3. Flight' = (Front \o cq) \o <<Head(sq)>>
      BY <1>3, <2>0, <3>2 DEF Flight, WorkerTake
    <3>4. Flight = Front \o cq
      BY <1>0, <1>3, <1>w, ConcatEmptySeq DEF Flight, SeqTypes, WorkerTake
    <3>5. Flight' \o Tail(sq) = Flight \o sq
      BY <1>0, <3>1, <3>3, <3>4, TakeFront DEF SeqTypes
    <3>6. accepted' = Flight' \o sq' /\ DeviceOpen'
      BY <1>3, <2>1, <3>5 DEF WorkerTake, OrderInv, DeviceOpen
    <3>. QED  BY <3>6 DEF Standing
  <2>2. CASE ~DeviceOpen
    BY <1>3, <2>0, <2>2 DEF WorkerTake, MayPop, DeviceOpen, OrderInv, Standing
  <2>. QED  BY <2>1, <2>2
<1>p. ASSUME worker.pc \in {"put", "wait"}, worker' = Idle,
             Len(cq) < CqDepth, cq' = PushBack(cq, worker.cmd, CqDepth),
             UNCHANGED <<posted, reaper>>
      PROVE  Flight' = Flight /\ Front' = Front
  <2>1. Front' = Front
    BY <1>p DEF Front, Hand
  <2>2. cq' = Append(cq, worker.cmd)
    BY <1>p, DepthAssumption, SMTT(20) DEF PushBack, TypeOK
  <2>3. Flight' = Front \o Append(cq, worker.cmd)
    <3>1. Flight' = (Front \o Append(cq, worker.cmd)) \o <<>>
      BY <1>i, <1>p, <2>1, <2>2 DEF Flight
    <3>2. Front \o Append(cq, worker.cmd) \in Seq(Cmds)
      BY <1>0, <1>p, <1>w, AppendProperties, ConcatProperties DEF SeqTypes
    <3>. QED  BY <3>1, <3>2, ConcatEmptySeq
  <2>4. Flight = Front \o Append(cq, worker.cmd)
    <3>1. worker.cmd \in Cmds /\ Flight = (Front \o cq) \o <<worker.cmd>>
      BY <1>p, <1>w DEF Flight
    <3>. QED  BY <1>0, <3>1, PutBack DEF SeqTypes
  <2>. QED  BY <2>1, <2>3, <2>4
<1>4. CASE WorkerPut
  <2>1. CASE cqState # "open"
    <3>1. Front' = Front
      BY <1>4 DEF WorkerPut, Front, Hand
    <3>. QED  BY <1>4, <2>1, <3>1 DEF WorkerPut, OrderInv, Standing
  <2>2. CASE cqState = "open" /\ Len(cq) < CqDepth
    <3>1. worker' = Idle /\ cq' = PushBack(cq, worker.cmd, CqDepth)
      BY <1>4, <2>2, DepthAssumption, SMTT(20) DEF WorkerPut, TypeOK
    <3>2. Flight' = Flight /\ Front' = Front
      BY <1>4, <1>p, <2>2, <3>1 DEF WorkerPut
    <3>. QED  BY <1>4, <3>2, SameLine DEF WorkerPut
  <2>3. CASE cqState = "open" /\ Len(cq) >= CqDepth
    <3>0. worker' = [worker EXCEPT !.pc = "wait"] /\ UNCHANGED cq
      BY <1>4, <2>3, DepthAssumption, SMTT(20) DEF WorkerPut, TypeOK
    <3>1. worker'.cmd = worker.cmd
      BY <3>0 DEF TypeOK, Thread
    <3>2. Hand(worker)' = Hand(worker)
      BY <3>1 DEF Hand
    <3>3. Front' = Front
      BY <1>4 DEF WorkerPut, Front, Hand
    <3>4. Flight' = Flight
      BY <3>0, <3>2, <3>3 DEF Flight
    <3>. QED  BY <1>4, <3>3, <3>4, SameLine DEF WorkerPut
  <2>. QED  BY <1>0, <1>4, <2>1, <2>2, <2>3 DEF WorkerPut
<1>5. CASE WorkerWake
  <2>1. CASE cqState # "open"
    <3>1. Front' = Front
      BY <1>5 DEF WorkerWake, Front, Hand
    <3>. QED  BY <1>5, <2>1, <3>1 DEF WorkerWake, OrderInv, Standing
  <2>2. CASE cqState = "open"
    BY <1>5, <1>p, <2>2, SameLine DEF WorkerWake, MayPush
  <2>. QED  BY <2>1, <2>2
<1>6. CASE WorkerExit
  <2>1. Flight' = Flight /\ Front' = Front
    BY <1>6, <1>w, <1>i DEF WorkerExit, Flight, Front
  <2>. QED  BY <1>6, <2>1, SameLine DEF WorkerExit
<1>7. CASE ReaperTake
  <2>1. cq # <<>> /\ Head(cq) \in Cmds
    BY <1>0, <1>7, HeadTailProperties DEF ReaperTake, MayPop, SeqTypes
  <2>2. Hand(reaper)' = <<Head(cq)>>
    BY <1>7, <2>1, CmdAssumption DEF ReaperTake, Hand
  <2>3. Front' = Front \o <<Head(cq)>>
    <3>1. Front = posted
      BY <1>0, <1>7, <1>r, ConcatEmptySeq DEF Front, ReaperTake, SeqTypes
    <3>. QED  BY <1>7, <2>2, <3>1 DEF Front, ReaperTake
  <2>4. Front' \o Tail(cq) = Front \o cq
    BY <1>0, <2>1, <2>3, TakeFront DEF SeqTypes
  <2>5. Flight' = Flight
    BY <1>7, <2>4 DEF Flight, ReaperTake, Hand
  <2>. QED  BY <1>7, <2>5, SameLine DEF ReaperTake, MayPop
<1>8. CASE ReaperPost
  <2>1. Front = Append(posted, reaper.cmd)
    <3>1. reaper.cmd \in Cmds /\ Front = posted \o <<reaper.cmd>>
      BY <1>8, <1>r DEF Front, ReaperPost
    <3>. QED  BY <1>0, <3>1, AppendIsConcat DEF SeqTypes
  <2>2. Hand(reaper)' = <<>>
    BY <1>8 DEF ReaperPost, Hand
  <2>3. Front' = Append(posted, reaper.cmd)
    BY <1>0, <1>8, <2>1, <2>2, ConcatEmptySeq DEF Front, ReaperPost, SeqTypes
  <2>4. Flight' = Flight
    BY <1>8, <2>1, <2>3 DEF Flight, ReaperPost, Hand
  <2>. QED  BY <1>8, <2>1, <2>3, <2>4, SameLine DEF ReaperPost
<1>9. CASE ReaperReturn
  <2>1. Hand(reaper) = <<>> /\ Hand(reaper)' = <<>>
    BY <1>9, <1>i DEF ReaperReturn, Hand, TypeOK
  <2>2. Flight' = Flight /\ Front' = Front
    BY <1>9, <2>1 DEF ReaperReturn, Flight, Front, Hand
  <2>. QED  BY <1>9, <2>2, SameLine DEF ReaperReturn
<1>10. CASE ReaperExit
  <2>1. Flight' = Flight /\ Front' = Front
    BY <1>10, <1>r, <1>i DEF ReaperExit, Flight, Front, Hand
  <2>. QED  BY <1>10, <2>1, SameLine DEF ReaperExit
<1>11. CASE TerminateSq
  <2>1. Flight' = Flight /\ Front' = Front
    BY <1>11 DEF TerminateSq, Flight, Front, Hand
  <2>. QED  BY <1>11, <2>1 DEF TerminateSq, OrderInv, Standing, DeviceOpen
<1>12. CASE RemoveSq
  <2>1. Flight' = Flight /\ Front' = Front
    BY <1>12 DEF RemoveSq, Flight, Front, Hand
  <2>. QED  BY <1>12, <2>1 DEF RemoveSq, OrderInv, Standing, DeviceOpen
<1>13. CASE TerminateCq
  <2>1. Front' = Front
    BY <1>13 DEF TerminateCq, Front, Hand
  <2>. QED  BY <1>13, <2>1 DEF TerminateCq, OrderInv, Standing
<1>14. CASE RemoveCq
  <2>1. Front' = Front
    BY <1>14 DEF RemoveCq, Front, Hand
  <2>. QED  BY <1>14, <2>1 DEF RemoveCq, OrderInv, Standing
<1>15. CASE UNCHANGED vars
  <2>1. Flight' = Flight /\ Front' = Front
    BY <1>15 DEF vars, Flight, Front, Hand
  <2>. QED  BY <1>15, <2>1, SameLine DEF vars
<1>. QED
  BY <1>1, <1>2, <1>3, <1>4, <1>5, <1>6, <1>7, <1>8, <1>9, <1>10,
     <1>11, <1>12, <1>13, <1>14, <1>15 DEF Next

\* The order invariant is inductive.
LEMMA OrderStep == TypeOK /\ OrderInv /\ [Next]_vars => OrderInv'
BY TypeStep, StandingStep, OrderWeaken, PTL

\* The order invariant holds of empty queues.
LEMMA OrderInit == Init => OrderInv
<1> SUFFICES ASSUME Init PROVE OrderInv
  OBVIOUS
<1>1. <<>> \in Seq(Cmds) /\ <<>> \o <<>> = <<>>
  BY EmptySeq, ConcatEmptySeq
<1>2. Front = <<>> /\ Flight = <<>>
  BY <1>1 DEF Init, Front, Flight, Hand, Idle
<1>. QED  BY <1>1, <1>2 DEF Init, OrderInv, Begins

\* While both queues are open the pipeline neither loses, repeats nor reorders a
\* command, for every depth of the two queues and every number of commands.
THEOREM PipelineCorrect == Spec => []PipelineInOrder
<1>1. OrderInv => PipelineInOrder
  BY DEF OrderInv, PipelineInOrder, Flight, Front
<1>. QED  BY <1>1, TypeCorrect, OrderInit, OrderStep, PTL DEF Spec

\* What the reaper has called and holds begins what was accepted.
LEMMA FrontOfLine ==
  ASSUME TypeOK, OrderInv
  PROVE  /\ Len(Front) <= Len(accepted)
         /\ \A i \in 1..Len(Front) : Front[i] = accepted[i]
<1>0. SeqTypes
  BY OrderTypes
<1>1. PICK u \in Seq(Cmds) : accepted = Front \o u
  BY DEF OrderInv, Begins
<1>2. Len(u) \in Nat /\ Len(Front) \in Nat
  BY <1>0, LenProperties DEF SeqTypes
<1>. QED  BY <1>0, <1>1, <1>2, ConcatProperties, SMTT(20) DEF SeqTypes

\* Completions follow the order of submission without a gap, also for what is
\* still reaped while either queue is being terminated.
THEOREM PrefixCorrect == Spec => []PostedIsPrefix
<1>1. TypeOK /\ OrderInv => PostedIsPrefix
  <2> SUFFICES ASSUME TypeOK, OrderInv PROVE PostedIsPrefix
    OBVIOUS
  <2>0. SeqTypes
    BY OrderTypes
  <2>1. /\ Len(Front) = Len(posted) + Len(Hand(reaper))
        /\ \A i \in 1..Len(posted) : Front[i] = posted[i]
    BY <2>0, ConcatProperties, LenProperties, SMTT(20) DEF Front, SeqTypes
  <2>2. Len(posted) \in Nat /\ Len(Hand(reaper)) \in Nat /\ DOMAIN posted = 1..Len(posted)
        /\ Len(accepted) \in Nat
    BY <2>0, LenProperties DEF SeqTypes
  <2>. QED  BY <2>1, <2>2, FrontOfLine, SMTT(20) DEF PostedIsPrefix
<1>. QED  BY <1>1, TypeCorrect, OrderInit, OrderStep, PTL DEF Spec

(***************************************************************************)
(* No repetition.  A command is accepted by the call that was made for it, *)
(* which is then over.                                                     *)
(***************************************************************************)
CallInv == /\ \A i \in DOMAIN accepted : call[accepted[i]] = "ok"
           /\ \A i, j \in DOMAIN accepted : accepted[i] = accepted[j] => i = j

\* What a step does to the history and the state of the calls.
Calls == \/ UNCHANGED <<accepted, call>>
         \/ \E c \in Cmds :
              /\ call[c] # "ok"
              /\ \/ UNCHANGED accepted /\ \E v : call' = [call EXCEPT ![c] = v]
                 \/ accepted' = Append(accepted, c) /\ call' = [call EXCEPT ![c] = "ok"]

\* What any step may do to the calls of the application.
LEMMA CallStep == [Next]_vars => Calls
<1> SUFFICES ASSUME [Next]_vars PROVE Calls
  OBVIOUS
<1>1. ASSUME NEW c \in Cmds, Submit(c) PROVE Calls
  BY <1>1 DEF Submit, WildCall, Accept, Calls
<1>2. ASSUME NEW c \in Cmds, SubmitWake(c) PROVE Calls
  BY <1>2 DEF SubmitWake, WildCall, Accept, Calls
<1>3. CASE WorkerTake \/ WorkerPut \/ WorkerWake \/ WorkerExit
  BY <1>3 DEF WorkerTake, WorkerPut, WorkerWake, WorkerExit, Calls
<1>4. CASE ReaperTake \/ ReaperPost \/ ReaperReturn \/ ReaperExit
  BY <1>4 DEF ReaperTake, ReaperPost, ReaperReturn, ReaperExit, Calls
<1>5. CASE TerminateSq \/ RemoveSq \/ TerminateCq \/ RemoveCq
  BY <1>5 DEF TerminateSq, RemoveSq, TerminateCq, RemoveCq, Calls
<1>6. CASE UNCHANGED vars
  BY <1>6 DEF vars, Calls
<1>. QED  BY <1>1, <1>2, <1>3, <1>4, <1>5, <1>6 DEF Next

\* A command is accepted at most once.
LEMMA OnceStep == TypeOK /\ CallInv /\ [Next]_vars => CallInv'
<1> SUFFICES ASSUME TypeOK, CallInv, [Next]_vars PROVE CallInv'
  OBVIOUS
<1>0. Calls
  BY CallStep
<1>t. /\ accepted \in Seq(Cmds) /\ Len(accepted) \in Nat /\ DOMAIN accepted = 1..Len(accepted)
      /\ \A i \in DOMAIN accepted : accepted[i] \in Cmds
      /\ DOMAIN call = Cmds
  BY LenProperties, ElementOfSeq, SMTT(20) DEF TypeOK
<1>1. CASE UNCHANGED <<accepted, call>>
  BY <1>1 DEF CallInv
<1>2. ASSUME NEW c \in Cmds, call[c] # "ok", UNCHANGED accepted,
             NEW v, call' = [call EXCEPT ![c] = v]
      PROVE  CallInv'
  BY <1>2, <1>t DEF CallInv
<1>3. ASSUME NEW c \in Cmds, call[c] # "ok", accepted' = Append(accepted, c),
             call' = [call EXCEPT ![c] = "ok"]
      PROVE  CallInv'
  <2>1. /\ DOMAIN accepted' = 1..(Len(accepted) + 1)
        /\ \A i \in 1..Len(accepted) : accepted'[i] = accepted[i]
        /\ accepted'[Len(accepted) + 1] = c
    BY <1>3, <1>t, AppendProperties, LenProperties, SMTT(20)
  <2>2. \A i \in 1..Len(accepted) : accepted[i] # c /\ call'[accepted[i]] = "ok"
    BY <1>3, <1>t DEF CallInv
  <2>3. call'[c] = "ok"
    BY <1>3, <1>t
  <2>. QED  BY <1>t, <2>1, <2>2, <2>3, SMTT(20) DEF CallInv
<1>. QED  BY <1>0, <1>1, <1>2, <1>3 DEF Calls

\* At first no command is accepted.
LEMMA OnceInit == Init => CallInv
BY EmptySeq, LenProperties, SMTT(20) DEF Init, CallInv

\* A post-process function is called at most once for a command, so that the
\* context its first call gives back is never handed to a second call.
THEOREM OnceCorrect == Spec => []PostedOnce
<1>1. TypeOK /\ CallInv /\ PostedIsPrefix => PostedOnce
  <2> SUFFICES ASSUME TypeOK, CallInv, PostedIsPrefix PROVE PostedOnce
    OBVIOUS
  <2>1. DOMAIN posted = 1..Len(posted) /\ DOMAIN accepted = 1..Len(accepted)
        /\ Len(posted) \in Nat /\ Len(accepted) \in Nat
    BY LenProperties DEF TypeOK
  <2>. QED  BY <2>1, SMTT(20) DEF CallInv, PostedIsPrefix, PostedOnce
<1>. QED  BY <1>1, TypeCorrect, PrefixCorrect, OnceInit, OnceStep, PTL DEF Spec

(***************************************************************************)
(* The pair implements the safety part of FifoService.                     *)
(***************************************************************************)

\* The command in the reaper's hand is the oldest one not yet posted.
LEMMA HandIsNext ==
  ASSUME TypeOK, OrderInv, reaper.pc = "taken"
  PROVE  Len(posted) < Len(accepted) /\ reaper.cmd = accepted[Len(posted) + 1]
<1>0. SeqTypes
  BY OrderTypes
<1>1. reaper.cmd \in Cmds /\ Hand(reaper) = <<reaper.cmd>>
  BY DEF TypeOK, Thread, Hand
<1>2. Len(posted) \in Nat /\ Len(accepted) \in Nat
  BY <1>0, LenProperties DEF SeqTypes
<1>3. Front = Append(posted, reaper.cmd)
  BY <1>0, <1>1, PutBack, SMTT(20) DEF Front, SeqTypes
<1>4. Len(Front) = Len(posted) + 1 /\ Front[Len(posted) + 1] = reaper.cmd
  BY <1>0, <1>1, <1>3, AppendProperties DEF SeqTypes
<1>. QED  BY <1>2, <1>4, FrontOfLine, SMTT(20)

\* Every step of the pair is a step of the abstract service or leaves it alone.
LEMMA FifoStep ==
  TypeOK /\ OrderInv /\ CallInv /\ [Next]_vars => [Fifo!FifoNext]_(Fifo!fifoVars)
<1> SUFFICES ASSUME TypeOK, OrderInv, CallInv, [Next]_vars
             PROVE  [Fifo!FifoNext]_(Fifo!fifoVars)
  OBVIOUS
<1> USE DEF Fifo!fifoVars, Fifo!FifoNext
<1>1. ASSUME NEW c \in Cmds, Submit(c) \/ SubmitWake(c)
      PROVE  [Fifo!FifoNext]_(Fifo!fifoVars)
  <2>1. UNCHANGED <<posted, sqState, cqState>> /\ call[c] # "ok"
    BY <1>1 DEF Submit, SubmitWake
  <2>2. accepted' = accepted \/ accepted' = Append(accepted, c)
    BY <1>1 DEF Submit, SubmitWake, WildCall, Accept
  <2>3. \A i \in DOMAIN accepted : accepted[i] # c
    BY <2>1 DEF CallInv
  <2>4. DeviceOpen' = DeviceOpen
    BY <2>1 DEF DeviceOpen
  <2>5. CASE accepted' = accepted
    BY <2>1, <2>4, <2>5
  <2>6. CASE accepted' = Append(accepted, c)
    <3>1. Fifo!FifoAccept(c)
      BY <2>1, <2>3, <2>4, <2>6 DEF Fifo!FifoAccept
    <3>. QED  BY <3>1
  <2>. QED  BY <2>2, <2>5, <2>6
<1>2. CASE ReaperPost
  <2>1. DeviceOpen' = DeviceOpen
    BY <1>2 DEF ReaperPost, DeviceOpen
  <2>2. Fifo!FifoPost
    BY <1>2, <2>1, HandIsNext DEF ReaperPost, Fifo!FifoPost
  <2>. QED  BY <2>2
<1>3. CASE TerminateSq \/ TerminateCq
  <2>1. UNCHANGED <<accepted, posted>> /\ ~DeviceOpen'
    BY <1>3 DEF TerminateSq, TerminateCq, DeviceOpen
  <2>2. CASE DeviceOpen
    <3>1. Fifo!FifoShutdown
      BY <2>1, <2>2, SMTT(20) DEF Fifo!FifoShutdown
    <3>. QED  BY <3>1
  <2>3. CASE ~DeviceOpen
    <3>1. DeviceOpen' = DeviceOpen
      BY <2>1, <2>3 DEF DeviceOpen
    <3>. QED  BY <2>1, <3>1
  <2>. QED  BY <2>2, <2>3
<1>4. CASE RemoveSq \/ RemoveCq
  <2>1. UNCHANGED <<accepted, posted>> /\ DeviceOpen' = DeviceOpen
    BY <1>4 DEF RemoveSq, RemoveCq, DeviceOpen
  <2>. QED  BY <2>1
<1>5. CASE WorkerTake \/ WorkerPut \/ WorkerWake \/ WorkerExit
  <2>1. UNCHANGED <<accepted, posted>> /\ DeviceOpen' = DeviceOpen
    BY <1>5 DEF WorkerTake, WorkerPut, WorkerWake, WorkerExit, DeviceOpen
  <2>. QED  BY <2>1
<1>6. CASE ReaperTake \/ ReaperReturn \/ ReaperExit
  <2>1. UNCHANGED <<accepted, posted>> /\ DeviceOpen' = DeviceOpen
    BY <1>6 DEF ReaperTake, ReaperReturn, ReaperExit, DeviceOpen
  <2>. QED  BY <2>1
<1>7. CASE UNCHANGED vars
  <2>1. UNCHANGED <<accepted, posted>> /\ DeviceOpen' = DeviceOpen
    BY <1>7 DEF vars, DeviceOpen
  <2>. QED  BY <2>1
<1>. QED  BY <1>1, <1>2, <1>3, <1>4, <1>5, <1>6, <1>7 DEF Next

\* Two circular buffers, a worker and a reaper behave like one service that posts
\* every accepted command once and in order, whichever way the queues are closed.
THEOREM FifoSafety == Spec => ImplementsFifo
<1>1. Init => Fifo!FifoInit
  BY DEF Init, Fifo!FifoInit, DeviceOpen
<1>. QED
  BY <1>1, TypeCorrect, OrderInit, OrderStep, OnceInit, OnceStep, FifoStep, PTL
     DEF Spec, ImplementsFifo, Fifo!FifoSafe

(***************************************************************************)
(* Deletion.  With the submission queue closed first the worker and the    *)
(* application's calls are gone before the queue they use.  That depends   *)
(* on few of the variables, and not on who reaps: the steps of every mode  *)
(* are among those below.                                                  *)
(***************************************************************************)
CloseInv == /\ call \in [Cmds -> {"idle", "waiting", "ok", "refused"}]
            /\ cqState # "open" => sqState = "gone"
            /\ sqState = "gone" => worker.pc = "exit"
            /\ \A c \in Cmds \ Chained : call[c] = "waiting" => DeviceOpen
            /\ wild \subseteq {"callback"}

\* The reaper's steps, and those that close, as far as deletion depends on them.
ReapAny == UNCHANGED <<sqState, cqState, call, worker, wild>>
CloseSq == /\ DeviceOpen /\ \A c \in Cmds \ Chained : call[c] # "waiting"
           /\ sqState' = "down" /\ UNCHANGED <<cqState, call, worker, wild>>
CloseCq == /\ \/ cqState = "open" /\ sqState = "gone" /\ cqState' = "down"
              \/ cqState = "down" /\ cqState' = "gone"
           /\ UNCHANGED <<sqState, call, worker, wild>>

StepAny == \/ \E c \in Cmds : Submit(c) \/ SubmitWake(c)
           \/ WorkerTake \/ WorkerPut \/ WorkerWake \/ WorkerExit
           \/ ReapAny \/ CloseSq \/ RemoveSq \/ CloseCq

\* No step uses a deleted queue, or lets a later one.
LEMMA CloseStep == CloseInv /\ StepAny => CloseInv'
<1> SUFFICES ASSUME CloseInv, StepAny PROVE CloseInv'
  OBVIOUS
<1> USE DEF CloseInv, DeviceOpen
<1>1. ASSUME NEW c \in Cmds, Submit(c) PROVE CloseInv'
  <2>1. CASE c \in Chained
    <3>1. wild' \subseteq wild \cup {"callback"}
      BY <1>1, <2>1 DEF Submit, WildCall
    <3>2. /\ \A d \in Cmds \ Chained : call'[d] = call[d]
          /\ call' \in [Cmds -> {"idle", "waiting", "ok", "refused"}]
          /\ UNCHANGED <<sqState, cqState, worker>>
      BY <1>1, <2>1 DEF Submit, WildCall, Accept
    <3>. QED  BY <3>1, <3>2
  <2>2. CASE c \notin Chained
    BY <1>1, <2>2 DEF Submit, MayCall, Accept
  <2>. QED  BY <2>1, <2>2
<1>2. ASSUME NEW c \in Cmds, SubmitWake(c) PROVE CloseInv'
  <2>1. CASE c \in Chained
    <3>1. wild' \subseteq wild \cup {"callback"}
      BY <1>2, <2>1 DEF SubmitWake, WildCall
    <3>2. /\ \A d \in Cmds \ Chained : call'[d] = call[d]
          /\ call' \in [Cmds -> {"idle", "waiting", "ok", "refused"}]
          /\ UNCHANGED <<sqState, cqState, worker>>
      BY <1>2, <2>1 DEF SubmitWake, WildCall, Accept
    <3>. QED  BY <3>1, <3>2
  <2>2. CASE c \notin Chained
    <3>1. sqState = "open" /\ cqState = "open"
      BY <1>2, <2>2 DEF SubmitWake
    <3>2. call' = [call EXCEPT ![c] = "ok"] /\ UNCHANGED <<wild, sqState, cqState, worker>>
      BY <1>2, <3>1 DEF SubmitWake, Accept
    <3>. QED  BY <2>2, <3>1, <3>2
  <2>. QED  BY <2>1, <2>2
<1>3. CASE WorkerTake
  BY <1>3 DEF WorkerTake, MayPop
<1>4. CASE WorkerPut
  BY <1>4 DEF WorkerPut
<1>5. CASE WorkerWake
  BY <1>5 DEF WorkerWake
<1>6. CASE WorkerExit
  BY <1>6 DEF WorkerExit, Exited
<1>7. CASE ReapAny
  BY <1>7 DEF ReapAny
<1>8. CASE CloseSq
  BY <1>8 DEF CloseSq
<1>9. CASE RemoveSq
  BY <1>9 DEF RemoveSq
<1>10. CASE CloseCq
  BY <1>10 DEF CloseCq
<1>. QED
  BY <1>1, <1>2, <1>3, <1>4, <1>5, <1>6, <1>7, <1>8, <1>9, <1>10 DEF StepAny

\* At first nothing is being closed.
LEMMA CloseInit == Init => CloseInv
BY DEF Init, CloseInv, DeviceOpen

\* The interrupt thread reaps, or whatever the constants say.
LEMMA NextAny ==
  ASSUME ~CqFirst
  PROVE  [Next]_vars => StepAny
<1>1. CASE ReaperTake \/ ReaperPost \/ ReaperReturn \/ ReaperExit
  BY <1>1 DEF ReaperTake, ReaperPost, ReaperReturn, ReaperExit, ReapAny, StepAny
<1>2. CASE TerminateSq
  BY <1>2 DEF TerminateSq, MayClose, CloseSq, StepAny
<1>3. CASE TerminateCq \/ RemoveCq
  BY <1>3 DEF TerminateCq, RemoveCq, CloseCq, StepAny
<1>4. CASE UNCHANGED vars
  BY <1>4 DEF vars, ReapAny, StepAny
<1>. QED  BY <1>1, <1>2, <1>3, <1>4 DEF Next, StepAny

\* The application polls.
LEMMA PollAny ==
  ASSUME ~CqFirst
  PROVE  Poll!Next => StepAny
<1>1. ASSUME NEW c \in Cmds, Poll!Submit(c) PROVE Submit(c)
  BY <1>1 DEF Poll!Submit, Poll!MayCall, Poll!DeviceOpen, Poll!WildCall, Poll!Accept, Poll!PushBack,
              Submit, MayCall, DeviceOpen, WildCall, Accept, PushBack
<1>2. ASSUME NEW c \in Cmds, Poll!SubmitWake(c) PROVE SubmitWake(c)
  BY <1>2 DEF Poll!SubmitWake, Poll!MayPush, Poll!WildCall, Poll!Accept, Poll!PushBack,
              SubmitWake, MayPush, WildCall, Accept, PushBack
<1>3. Poll!WorkerTake => WorkerTake
  BY DEF Poll!WorkerTake, Poll!MayPop, WorkerTake, MayPop
<1>4. Poll!WorkerPut => WorkerPut
  BY DEF Poll!WorkerPut, Poll!PushBack, Poll!Idle, WorkerPut, PushBack, Idle
<1>5. Poll!WorkerWake => WorkerWake
  BY DEF Poll!WorkerWake, Poll!MayPush, Poll!PushBack, Poll!Idle, WorkerWake, MayPush, PushBack, Idle
<1>6. Poll!WorkerExit => WorkerExit
  BY DEF Poll!WorkerExit, Poll!Exited, WorkerExit, Exited
<1>7. Poll!ReaperTake \/ Poll!ReaperPost \/ Poll!ReaperReturn \/ Poll!ReaperExit => ReapAny
  BY DEF Poll!ReaperTake, Poll!ReaperPost, Poll!ReaperReturn, Poll!ReaperExit, ReapAny
<1>8. Poll!TerminateSq => CloseSq
  BY DEF Poll!TerminateSq, Poll!MayClose, Poll!DeviceOpen, CloseSq, DeviceOpen
<1>9. Poll!RemoveSq => RemoveSq
  BY DEF Poll!RemoveSq, RemoveSq
<1>10. Poll!TerminateCq \/ Poll!RemoveCq => CloseCq
  BY DEF Poll!TerminateCq, Poll!RemoveCq, CloseCq
<1>11. Poll!Closed /\ UNCHANGED Poll!vars => ReapAny
  BY DEF Poll!vars, ReapAny
<1>. QED
  BY <1>1, <1>2, <1>3, <1>4, <1>5, <1>6, <1>7, <1>8, <1>9, <1>10, <1>11 DEF Poll!Next, StepAny

\* The order of ~KvEmulator (submission queue, then completion queue) never lets
\* the worker or a call of the application touch a deleted queue.
THEOREM DeleteSafety ==
  ASSUME ~CqFirst
  PROVE  Spec => []NoUseAfterDelete
<1>1. CloseInv => NoUseAfterDelete
  BY DEF CloseInv, NoUseAfterDelete
<1>. QED  BY <1>1, CloseInit, CloseStep, NextAny, PTL DEF Spec

\* The same of the three uses of a pair together: with an interrupt thread and with
\* polling alike, the order is enough.
THEOREM OrderSafety ==
  ASSUME ~CqFirst
  PROVE  MCSpec => []NoUseInOrder
<1> DEFINE Inv == mode # "cleanup" => CloseInv
<1>1. MCInit => Inv
  BY CloseInit DEF MCInit
<1>2. Inv /\ [MCNext]_mcVars => Inv'
  <2> SUFFICES ASSUME Inv, [MCNext]_mcVars, mode' # "cleanup" PROVE CloseInv'
    OBVIOUS
  <2>1. CASE MCNext
    <3>1. mode # "cleanup" /\ CloseInv
      BY <2>1 DEF MCNext
    <3>2. StepAny
      BY <2>1, <3>1, NextAny, PollAny DEF MCNext
    <3>. QED  BY <3>1, <3>2, CloseStep
  <2>2. CASE UNCHANGED mcVars
    <3>1. CloseInv /\ UNCHANGED vars
      BY <2>2 DEF mcVars
    <3>. QED  BY <3>1, NextAny, CloseStep
  <2>. QED  BY <2>1, <2>2
<1>3. Inv => NoUseInOrder
  BY DEF CloseInv, NoUseAfterDelete, NoUseInOrder
<1>. QED  BY <1>1, <1>2, <1>3, PTL DEF MCSpec

=============================================================================
