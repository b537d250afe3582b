--------------------------- MODULE MCHostChannels ---------------------------
(* A hub, whose endpoints open their channels as needed, and a device behind
   it, whose endpoints keep theirs; two endpoint objects that either may own,
   competing with the control pipes for three channels, so that an open can
   fail. *)
EXTENDS HostChannels

CONSTANTS hub, dev, e1, e2

MCSubtree   == [d \in {hub, dev} |-> IF d = hub THEN {hub, dev} ELSE {dev}]
MCDynamicHc == [d \in {hub, dev} |-> {d = hub}]

(* States that differ only in the toggle of a channel that no driver's endpoint
   has, in the transfers of channels 0 and 1, or in an object that is neither a
   driver's nor on the list, go on alike and satisfy the same properties. *)
MCView ==
  <<attached, live, list, harm, pool.used, pool.idx,
    [c \in 2 .. HC_MAX - 1 |-> pool.armed[c]],
    [c \in HC |-> IF \E e \in live : pool.idx[e] = c THEN pool.tgl[c] ELSE 0],
    [e \in Eps |-> IF e \in live THEN pool.saved[e] ELSE 0],
    [e \in Eps |-> IF e \in live \cup list
                     THEN <<after[e], owner[e], e \in asNeeded, hasError[e]>>
                     ELSE <<>>]>>
=============================================================================
