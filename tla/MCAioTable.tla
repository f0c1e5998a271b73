---------------------------- MODULE MCAioTable -----------------------------
(***************************************************************************)
(* AioTable for TLC.  One run covers a table of two slots with calls that  *)
(* fail ("faults"), a table of three, where ids are handed out twice       *)
(* before they wrap ("ids"), and one process with two commands on two      *)
(* workers ("load").                                                       *)
(***************************************************************************)
EXTENDS AioTable

CONSTANTS
    Second,  \* the process that mode "load" does without
    Spare,   \* the worker that only mode "load" has
    Extra,   \* the command that only mode "load" has
    MaxLeaks \* bound: contexts leaked since the module was loaded

VARIABLE mode

mcVars == <<vars, mode>>

MCInit == /\ Init
          /\ \/ mode \in {"faults", "load"} /\ Cardinality(Ids) = 2
             \/ mode = "ids" /\ Cardinality(Ids) = 3

Leaked == {c \in Ctxs : mem[c] = "leaked"}

\* Who moves in a mode, and what may fail.
InMode ==
    /\ mode = "load" => pc'[Second] = "idle" /\ Cardinality(Vacant') > 0
    /\ mode = "ids" => ~wrapped'
    /\ mode # "load" => pc'[Spare] = "idle" /\ cmd'[Extra] = Idle
    /\ IF mode = "faults" THEN Cardinality(Leaked') <= MaxLeaks
       ELSE uncopied' = FALSE /\ (lock' = "lost" \/ Leaked' = {})

MCNext == Next /\ InMode /\ UNCHANGED mode

MCSpec == MCInit /\ [][MCNext]_mcVars /\ Fairness

============================================================================
