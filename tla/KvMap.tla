------------------------------- MODULE KvMap -------------------------------
(***************************************************************************)
(* What the tuple calls of the API promise: one map, and answers that tell *)
(* the truth about it.  A call that answers success has had the effect it  *)
(* asked for under the condition its option sets, a call that answers      *)
(* anything else has had none, and a refusal that speaks of the pair (it   *)
(* exists, it does not) is right about it.                                 *)
(***************************************************************************)
CONSTANTS
    Places,   \* pairs of a key space and a key
    Codes,    \* the API's return codes
    Absent    \* no pair

VARIABLES
    content,  \* content[p]: what is stored at p, or Absent
    call,     \* the last call answered
    code      \* the answer to it

mapVars == <<content, call, code>>

MapInit == /\ content = [p \in Places |-> Absent]
           /\ code = "success"

\* A store that succeeds, under KVS_STORE_NOOVERWRITE or KVS_STORE_UPDATE_ONLY.
MapStore ==
    /\ call'.op = "store"
    /\ call'.opt = "nooverwrite" => content[call'.at] = Absent
    /\ call'.opt = "update" => content[call'.at] # Absent
    /\ content' = [content EXCEPT ![call'.at] = [fill |-> call'.fill, len |-> call'.len]]

\* A deletion that succeeds; "error" is kvs_delete_error.
MapDelete ==
    /\ call'.op = "delete"
    /\ call'.opt = "error" => content[call'.at] # Absent
    /\ content' = [content EXCEPT ![call'.at] = Absent]

\* A retrieve with kvs_retrieve_delete that succeeds.
MapTake ==
    /\ call'.op = "retrieve" /\ call'.opt = "delete"
    /\ content[call'.at] # Absent
    /\ content' = [content EXCEPT ![call'.at] = Absent]

\* A read, or a call refused for a reason that may be about its pair.
MapAnswer ==
    /\ code' \in Codes
    /\ code' = "success" => \/ call'.op = "exist"
                            \/ call'.op = "retrieve" /\ call'.opt # "delete"
    /\ code' = "notexist" => content[call'.at] = Absent
    /\ code' \in {"exists", "badoffset"} => content[call'.at] # Absent
    /\ UNCHANGED content

MapNext == \/ code' = "success" /\ (MapStore \/ MapDelete \/ MapTake)
           \/ MapAnswer

MapSpec == MapInit /\ [][MapNext]_mapVars

=============================================================================
