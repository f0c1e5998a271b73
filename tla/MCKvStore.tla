----------------------------- MODULE MCKvStore -----------------------------
(***************************************************************************)
(* KvStore for TLC, with two leading bytes.  One run covers three uses of  *)
(* the store: one scan of every kind, with all operations between its      *)
(* calls ("scan"); two iterators over two key spaces ("table"); and, for   *)
(* the count of bytes, insertions and deletions in one key space           *)
(* ("space").  Overwrites, purges beside a second key space and            *)
(* KV_ITERATOR_OPT_KV_WITH_DELETE make the count inexact.                  *)
(***************************************************************************)
EXTENDS KvStore

VARIABLE mode

mcVars == <<vars, mode>>

K(b1, b2, ext, tail) == [lead |-> <<b1, b2>>, ext |-> ext, tail |-> tail]
C(m, b1, b2) == [m |-> m, pat |-> <<b1, b2>>]

\* A group with three keys of two lengths, one key before it and one after it.
ScanKeys == {K(0, 0, 0, 0), K(1, 0, 0, 0), K(1, 0, 1, 0), K(1, 0, 1, 1), K(0, 1, 0, 0)}

\* One key inside and one outside the group; and keys for group deletion.
TableKeys == {K(0, 0, 0, 0), K(1, 0, 1, 0)}
SpaceKeys == {K(0, 0, 0, 0), K(1, 0, 0, 0), K(0, 1, 1, 0), K(1, 1, 1, 1)}

\* The whole key space, and the group of one prefix; then groups to delete.
ScanConds == {C(0, 0, 0), C(2, 1, 0)}
SpaceConds == {C(1, 1, 0), C(2, 1, 1)}

AllKeys == ScanKeys \cup TableKeys \cup SpaceKeys
AllConds == ScanConds \cup SpaceConds \cup {C(1, 0, 0)}

First == CHOOSE s \in Spaces : TRUE

\* A value that does not fit into the buffer beside its key, kept at the first key of
\* the group.
Oversized == Store(First, K(1, 0, 0, 0), 6, "default")

MCInit == Init /\ mode \in {"scan", "table", "space"}

ScanStep == /\ \/ Write({First}, ScanKeys, {1}, {"default"})
               \/ Oversized
               \/ Bulk({First}, ScanConds)
               \/ Iterate({First}, Kinds, ScanConds)
            /\ \A i \in Ids \ {1} : iters'[i] = None

TableStep == \/ Write(Spaces, TableKeys, {1}, {"default"})
             \/ Bulk(Spaces, ScanConds)
             \/ Iterate(Spaces, {"key", "kv"}, ScanConds)

SpaceStep == Counted(First, SpaceKeys, {0, 2}, SpaceConds)

MCNext == /\ \/ mode = "scan" /\ ScanStep
             \/ mode = "table" /\ TableStep
             \/ mode = "space" /\ SpaceStep
          /\ UNCHANGED mode

MCSpec == MCInit /\ [][MCNext]_mcVars

\* Groups named by the first byte only: two keys of one, and the key that the
\* order of the map puts between them.
SplitKeys == {K(0, 0, 0, 0), K(1, 0, 0, 0), K(0, 1, 0, 0)}
FirstByte == {C(1, 0, 0)}

GroupStep == /\ \/ Write({First}, SplitKeys, {1}, {"default"})
                \/ Iterate({First}, {"key"}, FirstByte)
             /\ UNCHANGED mode

GroupSpec == Init /\ mode = "group" /\ [][GroupStep]_mcVars

\* The last answer is read by nothing, and the count of bytes only by a device of
\* capacity 0 and by the property of mode "space".
View == <<map, iters, info, scan, mode, IF mode = "space" THEN avail ELSE 0>>

\* Insertions, deletions, group deletions and purges of one key space account for
\* every byte, past the capacity and through the wrap of the counter.
AvailableExactAlone == mode = "space" => AvailableExact

=============================================================================
