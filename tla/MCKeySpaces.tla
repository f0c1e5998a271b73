---------------------------- MODULE MCKeySpaces ----------------------------
(***************************************************************************)
(* KeySpaces for TLC.  One run covers a device used by one process, with   *)
(* names that differ in more than their last character ("alone") or with   *)
(* any names ("alike"), and a device that two processes share ("shared").  *)
(* A crash of a shared device's process is left to the first two.          *)
(***************************************************************************)
EXTENDS KeySpaces, TLC

CONSTANTS
    Lone,   \* the process that has the device to itself
    Ending  \* the last character of all names, but in mode "alike"

ASSUME LoneAssumption == Lone \in Clients

VARIABLE mode

mcVars == <<vars, mode>>

MCInit == Init /\ mode \in {"alone", "alike", "shared"}

\* Client p makes a step and uses only names with the common last character.
PlainStep(p) == /\ Step(p)
                /\ call'[p].name # NoName => call'[p].name[2] = Ending
                /\ last'[p].name # NoName => last'[p].name[2] = Ending

MCNext == /\ \/ mode = "alone" /\ PlainStep(Lone)
             \/ mode = "alike" /\ Step(Lone)
             \/ mode = "shared" /\ (\E p \in Clients : PlainStep(p)) /\ crashes' = crashes
          /\ UNCHANGED mode

MCSpec == MCInit /\ [][MCNext]_mcVars

\* The parts of names before the last character are interchangeable.
Symm == Permutations(Stems)

\* In a shared device only properties of the present state are checked: the
\* history variables, which no action reads, are left out of the view.
View == <<list, entry, pairs, call, hd, crashes, mode,
          IF mode = "shared" THEN <<>> ELSE <<last, before, left>> >>

Undisturbed == mode # "shared" /\ crashes = 0

\* One process, no crash, at most MaxFaults failing I/Os in a call: a create, delete,
\* open or close that returns an error has put back what it changed.
ErrorUndoneAlone == Undisturbed => ErrorChangesNothing

\* One process, no two names alike: between calls the persisted opened flag is set
\* exactly while a handle is open or was dropped without a close, through failing
\* I/Os, closes of the device and crashes.
FlagTracksAlone == mode = "alone" => FlagTracksHandle

\* One process: crashes in the middle of creates and deletes leave at most one
\* key space half made each, whatever calls follow.
DamageBoundedAlone == mode # "shared" => DamageBounded

=============================================================================
