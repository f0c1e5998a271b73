----------------------------- MODULE MCKvpCalls -----------------------------
(***************************************************************************)
(* The tuple calls over the three drivers for TLC.  One run covers three   *)
(* families of calls: good and bad ones with two in flight ("map"),        *)
(* lengths and offsets around their units ("bytes"), and arrays of keys    *)
(* around the size of a byte ("exist").                                    *)
(***************************************************************************)
EXTENDS SsdCalls, TLC

CONSTANTS k, l, short, long

VARIABLE mode

mcVars == <<vars, mode>>

\* The shortest and the longest key, and one beyond each limit.
Lengths == k :> 4 @@ l :> 255 @@ short :> 3 @@ long :> 256

\* One key, a full byte of keys, one more than a byte, and a bad key.
Lists == {<<k>>, <<k, l, l, l, l, l, l, k>>, <<k, l, l, l, l, l, l, l, k>>,
          <<k, short>>, <<>>, <<k, long>>}

\* Calls on the keys ks, with value lengths from lens and offsets from offs.
CallsOn(spaces, ks, fills, lens, offs) ==
    [op : {"store"}, at : spaces \X ks, fill : fills, len : lens, off : offs,
     opt : StoreOpts \cup {"null"}] \cup
    [op : {"retrieve"}, at : spaces \X ks, len : lens, off : offs,
     opt : {"keep", "delete", "null"}] \cup
    [op : {"delete"}, at : spaces \X ks, opt : {"quiet", "error", "null"}]

ExistCalls(spaces, sizes) == [op : {"exist"}, space : spaces, keys : Lists, size : sizes]

MapCalls == CallsOn(Spaces, {k, long}, Bytes, {4, 2097153}, {0, 100}) \cup ExistCalls(Spaces, {0, 1})
ByteCalls == CallsOn({1}, {k}, Bytes, Lens \ {2097153}, Offsets)
BitCalls == CallsOn({1}, {k, l, short}, {CHOOSE b \in Bytes : TRUE}, {4}, {0, 512})
                \cup ExistCalls({1}, Sizes)

MCInit == Init /\ mode \in {"map", "bytes", "exist"}

Call(c) == Step(c) \/ SsdStep(c)

MCNext == /\ \/ mode = "map" /\ \E c \in MapCalls : Call(c)
             \/ mode = "bytes" /\ flight = <<>> /\ \E c \in ByteCalls : Call(c)
             \/ mode = "exist" /\ flight = <<>> /\ \E c \in BitCalls : Call(c)
             \/ Execute
             \/ SsdExecute
          /\ UNCHANGED mode

MCSpec == MCInit /\ [][MCNext]_mcVars

\* No action reads the last answer, and the properties of steps look only at the
\* answer the step gives.
View == <<kv, flight, driver, stale, mode>>

=============================================================================
