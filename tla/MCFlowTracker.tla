---------------------------- MODULE MCFlowTracker ----------------------------
(***************************************************************************)
(* An instance of FlowTracker for TLC: a TCP conversation seen in both     *)
(* directions, and events of another one between them.                     *)
(***************************************************************************)
EXTENDS FlowTracker

Moments == {0, 4, 9, 20}

Packet(src, dst, flags, ts) ==
    [src |-> src, dst |-> dst, proto |-> "TCP", flags |-> flags, ts |-> ts]

Conversations ==
    {Packet(1, 2, flags, ts) : flags \in {{"S"}, {"A"}, {"F", "A"}}, ts \in Moments}
        \union {Packet(2, 1, flags, ts) : flags \in {{"S", "A"}, {"R"}}, ts \in Moments}
        \union {Packet(2, 2, {}, ts) : ts \in Moments}

=============================================================================
