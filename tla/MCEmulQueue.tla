---------------------------- MODULE MCEmulQueue ----------------------------
(***************************************************************************)
(* EmulQueue for TLC.  One run covers the three ways a queue pair is used: *)
(* an interrupt thread reaps and the pair is closed submission queue       *)
(* first, with commands still in flight (the constants of the .cfg); the   *)
(* application polls, and closes when all is completed; the emulator's     *)
(* cleanup removes the completion queue first.                             *)
(***************************************************************************)
EXTENDS EmulQueue

VARIABLE mode

Poll == INSTANCE EmulQueue WITH Polling <- TRUE, DrainFirst <- TRUE
Cleanup == INSTANCE EmulQueue WITH CqFirst <- TRUE

mcVars == <<vars, mode>>

MCInit == Init /\ mode \in {"interrupt", "polling", "cleanup"}

\* Commands are numbers, and are called for in that order: the application's ones
\* are interchangeable, and so are those of post-process functions.
Numbered == \A S \in {Chained, Cmds \ Chained} : \A c, d \in S :
    d < c /\ call[c] # "idle" => call[d] # "idle"

MCNext == /\ \/ mode = "interrupt" /\ Next
             \/ mode = "polling" /\ Poll!Next
             \/ mode = "cleanup" /\ Cleanup!Next
          /\ Numbered' /\ UNCHANGED mode

MCReaper == \/ mode = "polling" /\ Poll!ReaperStep
            \/ mode # "polling" /\ ReaperStep

MCClose == \/ mode = "cleanup" /\ Cleanup!Closing
           \/ mode = "polling" /\ Poll!Closing
           \/ mode = "interrupt" /\ Closing

MCSpec == /\ MCInit /\ [][MCNext]_mcVars
          /\ \A c \in Cmds : WF_mcVars(SubmitWake(c) /\ UNCHANGED mode)
          /\ WF_mcVars(WorkerStep /\ UNCHANGED mode)
          /\ WF_mcVars(MCReaper /\ UNCHANGED mode)
          /\ WF_mcVars(MCClose /\ UNCHANGED mode)

\* Neither the worker nor the application uses a deleted queue, when the submission
\* queue is removed before the completion queue (~KvEmulator).
NoUseInOrder == mode # "cleanup" => NoUseAfterDelete

============================================================================
