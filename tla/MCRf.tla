-------------------------------- MODULE MCRf --------------------------------
(***************************************************************************)
(* The stacks the repository composes: the LoRa stack on both chips, the   *)
(* host example, the loopback stacks of the tests and the BLE stub.        *)
(***************************************************************************)
EXTENDS RfStack, TLC

Stack(phy, transport, net, mac) ==
    [phy |-> phy, transport |-> transport, net |-> net, mac |-> mac]

MCStacks ==
    {Stack("sx1262", "reliable", "addressed", "lorawan"),
     Stack("sx1276", "reliable", "addressed", "lorawan"),
     Stack("null", "unreliable", "noop", "lorawan"),
     Stack("null", "reliable", "noop", "lorawan"),
     Stack("null", "reliable", "noop", "ble"),
     Stack("loopback", "reliable", "noop", "noop")}

Peer(id, dst, addr, ack, intact, len) ==
    [id |-> id, fcnt |-> 0, seq |-> 0, ack |-> ack, dst |-> dst, addr |-> addr,
     dir |-> "down", intact |-> intact, len |-> len]

MCMaxRequests == [p \in Chips \cup {"null", "loopback"} |-> IF p = "null" THEN 3 ELSE 2]

(* data for this node, an acknowledgement of its first frame, data for       *)
(* another node, noise                                                       *)
MCPeerFrames ==
    {Peer(11, Own, Own, FALSE, TRUE, 30), Peer(12, Own, Own, TRUE, TRUE, 23),
     Peer(13, 9, Own, FALSE, TRUE, 30), Peer(14, Own, Own, FALSE, FALSE, 3)}
=============================================================================
