------------------------------ MODULE RfLayers ------------------------------
(***************************************************************************)
(* The layers of the RF stack (crates/comms): the cursors of a frame       *)
(* buffer, the two transports, the network layers and the MAC layers.      *)
(* A layer is a pair of operators on the node's record s: down encodes the *)
(* frame of a request, up decides whether a received frame goes on.        *)
(* Only the fields the layers decide on are kept of a frame; encryption    *)
(* and MIC are the pair (direction, intact) they depend on.                *)
(***************************************************************************)
EXTENDS Integers, FiniteSets, Sequences

CONSTANTS
    Stacks,       \* the compositions of layers and radio that are built
    MaxRetries,   \* ReliableTransport::max_retries
    Own,          \* the address of this node
    Bcast         \* BROADCAST_ADDR

ASSUME MaxRetriesAssumption == MaxRetries \in 0 .. 255

ASSUME StackAssumption ==
    /\ Stacks \subseteq [phy : {"sx1262", "sx1276", "null", "loopback"},
                        transport : {"reliable", "unreliable"},
                        net : {"addressed", "noop"}, mac : {"lorawan", "ble", "noop"}]
    /\ Own \in Nat /\ Bcast \in Nat

VARIABLE stack    \* the composition, [phy, transport, net, mac]

U8 == 256
MAX_FRAME == 256
FRAME_HEADROOM == 32

-----------------------------------------------------------------------------
(* Frame: the valid bytes are start .. end - 1, both cursors are u8 *)
CanWrite(n) == n <= MAX_FRAME - FRAME_HEADROOM
write_payload(n) == [start |-> FRAME_HEADROOM, end |-> (FRAME_HEADROOM + n) % U8]
CanPrepend(f, k) == f.start >= k
prepend_header(f, k) == [f EXCEPT !.start = @ - k]
CanAppend(f, k) == f.end + k <= MAX_FRAME
append_trailer(f, k) == [f EXCEPT !.end = (@ + k) % U8]
frame_len(f) == (f.end - f.start) % U8

-----------------------------------------------------------------------------
(* Transport *)
HDR == 5

NewTransport == [seq |-> 0, acked |-> 0, retries |-> 0, state |-> "Idle"]

transport_down(t) ==
    IF stack.transport = "reliable"
    THEN [t EXCEPT !.seq = (@ + 1) % U8, !.retries = MaxRetries, !.state = "WaitingAck"]
    ELSE [t EXCEPT !.seq = (@ + 1) % U8]

on_ack_received(t, seq) ==
    IF seq = (t.seq - 1) % U8 THEN [t EXCEPT !.state = "Idle"] ELSE t

(* ReliableTransport drops acknowledgements, and a repetition while it waits *)
transport_accepts(t, f) ==
    /\ f.len >= HDR
    /\ stack.transport = "reliable" =>
         /\ ~f.ack
         /\ ~(f.seq = t.acked /\ t.state # "Idle")

transport_up(t, f) ==
    IF stack.transport # "reliable" \/ f.len < HDR THEN t
    ELSE IF f.ack THEN on_ack_received(t, f.seq)
    ELSE IF transport_accepts(t, f) THEN [t EXCEPT !.acked = f.seq]
    ELSE t

(* The answer of the layer to an expired timer, and its state after it *)
on_timeout_action(t) ==
    IF stack.transport # "reliable" \/ t.state = "Idle" THEN "Nothing"
    ELSE IF t.retries > 0 THEN "ShouldRetransmit" ELSE "GiveUp"

(* mutant: a retransmission does not use up an attempt *)
on_timeout_forever(t) ==
    IF on_timeout_action(t) = "GiveUp" THEN [t EXCEPT !.state = "Idle"] ELSE t

on_timeout(t) ==
    CASE on_timeout_action(t) = "ShouldRetransmit" -> [t EXCEPT !.retries = @ - 1]
      [] on_timeout_action(t) = "GiveUp" -> [t EXCEPT !.state = "Idle"]
      [] OTHER -> t

-----------------------------------------------------------------------------
(* Network *)
NET_HDR == 5

network_header == IF stack.net = "addressed" THEN NET_HDR ELSE 0

network_accepts_any(f) == stack.net = "addressed" => f.len >= NET_HDR   \* mutant

network_accepts(f) ==
    stack.net = "addressed" => /\ f.len >= NET_HDR
                               /\ f.dst \in {Own, Bcast}

-----------------------------------------------------------------------------
(* MAC: LoRaWAN adds nine bytes before and the MIC behind; the BLE stub fails *)
MAC_HDR == 9
MIC == 4

mac_down_fits(f) ==
    CASE stack.mac = "lorawan" -> CanPrepend(f, MAC_HDR) /\ CanAppend(f, MIC)
      [] stack.mac = "ble" -> FALSE
      [] OTHER -> TRUE

mac_down(f) ==
    IF stack.mac = "lorawan" THEN append_trailer(prepend_header(f, MAC_HDR), MIC) ELSE f

fcnt_kept(fcnt) == fcnt                                                 \* mutant

(* The uplink counter advances with every frame that was encoded to the end *)
fcnt_after(fcnt) == IF stack.mac = "lorawan" THEN fcnt + 1 ELSE fcnt

(* compute_mic is keyed by the address and the direction; up expects downlinks *)
mac_accepts(f) ==
    CASE stack.mac = "lorawan" -> /\ f.len >= MAC_HDR + MIC
                                  /\ f.addr = Own
                                  /\ f.dir = "down"
                                  /\ f.intact
      [] stack.mac = "ble" -> FALSE
      [] OTHER -> TRUE

mac_stripped(f) ==
    IF stack.mac = "lorawan" THEN [f EXCEPT !.len = @ - MAC_HDR - MIC] ELSE f

net_stripped(f) == [f EXCEPT !.len = @ - network_header]

-----------------------------------------------------------------------------
(* RfStack::build_frame, for a payload of n bytes *)
encoded(n) ==
    prepend_header(prepend_header(write_payload(n), HDR), network_header)

build_fits(n) == CanWrite(n) /\ mac_down_fits(encoded(n))

(* What build_frame has changed when it returns, with or without an error *)
build_frame(s, r) ==
    IF ~CanWrite(r.len) THEN [s EXCEPT !.dst = r.dst]
    ELSE [s EXCEPT
             !.tp = transport_down(@),
             !.dst = IF stack.net = "addressed" THEN Bcast ELSE @,
             !.fcnt = IF build_fits(r.len) THEN fcnt_after(@) ELSE @,
             !.started = @ + 1]

(* The bytes the radio is handed *)
frame_of(s, r) ==
    [id |-> r.id, fcnt |-> s.fcnt, seq |-> s.tp.seq, ack |-> FALSE,
     dst |-> r.dst, addr |-> Own, dir |-> "up", intact |-> TRUE,
     len |-> frame_len(mac_down(encoded(r.len)))]

(* RfStack::receive_raw: which frames reach the application, and the layers *)
(* after it                                                                 *)
received(s, f) ==
    /\ mac_accepts(f)
    /\ network_accepts(mac_stripped(f))
    /\ transport_accepts(s.tp, net_stripped(mac_stripped(f)))
    /\ CanWrite(net_stripped(mac_stripped(f)).len - HDR)

receive_raw(s, f) ==
    IF ~(mac_accepts(f) /\ network_accepts(mac_stripped(f))) THEN s
    ELSE [s EXCEPT !.tp = transport_up(@, net_stripped(mac_stripped(f)))]
=============================================================================
