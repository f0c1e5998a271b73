---------------------------- MODULE FifoService ----------------------------
(***************************************************************************)
(* What a queue pair promises to the layer above (the contract kvs_adi.h   *)
(* states for every asynchronous call): a command that was accepted gets   *)
(* its post-process function called once, in the order of acceptance,      *)
(* unless the queues are shut down first.                                  *)
(***************************************************************************)
EXTENDS Naturals, Sequences

CONSTANT Cmds

VARIABLES accepted, posted, open

fifoVars == <<accepted, posted, open>>

FifoInit == accepted = <<>> /\ posted = <<>> /\ open = TRUE

FifoAccept(c) == /\ \A i \in DOMAIN accepted : accepted[i] # c
                 /\ accepted' = Append(accepted, c)
                 /\ UNCHANGED <<posted, open>>

FifoPost == /\ Len(posted) < Len(accepted)
            /\ posted' = Append(posted, accepted[Len(posted) + 1])
            /\ UNCHANGED <<accepted, open>>

FifoShutdown == /\ open
                /\ open' = FALSE
                /\ UNCHANGED <<accepted, posted>>

FifoNext == (\E c \in Cmds : FifoAccept(c)) \/ FifoPost \/ FifoShutdown

FifoSafe == FifoInit /\ [][FifoNext]_fifoVars

============================================================================
