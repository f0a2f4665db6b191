------------------------------- MODULE RfPhy --------------------------------
(***************************************************************************)
(* The radios behind the RF stack: the SX1262 and SX1276 drivers           *)
(* (hal/src/drivers/radio) and the two host radios of crates/comms.        *)
(* The chip is its operating mode, its interrupt flags and its receive     *)
(* buffer; registers and modulation parameters are left out.  Every call   *)
(* of a chip driver crosses the SPI bus and may fail on it: a call is the  *)
(* set of its outcomes, [ok, s].                                           *)
(***************************************************************************)
EXTENDS RfLayers

CONSTANTS
    PeerFrames,   \* what other nodes, gateways and noise put on the air
    NoFrame       \* an empty receive buffer

(* A frame on the air, as far as the layers look at it *)
Frame == [id : Nat, fcnt : Nat, seq : Nat, ack : BOOLEAN, dst : Nat, addr : Nat,
          dir : {"up", "down"}, intact : BOOLEAN, len : Nat]

ASSUME PeerAssumption == PeerFrames \subseteq Frame /\ NoFrame \notin Frame

Chips == {"sx1262", "sx1276"}
OnChip == stack.phy \in Chips

(* The part of the node's record that the radio is *)
NewPhy == [mode |-> "standby", single |-> FALSE, irq |-> {}, rxbuf |-> NoFrame,
           echo |-> <<>>]

Done(s) == [ok |-> TRUE, s |-> s]
Fault(s) == [ok |-> FALSE, s |-> s]

(* A chip call that ends in t, or fails on the bus before any of its effects *)
(* or after the commands that led to u                                       *)
Crossing(s, t, u) == {Done(t)} \cup (IF OnChip THEN {Fault(s), Fault(u)} ELSE {})

-----------------------------------------------------------------------------
Standby(s) == IF OnChip THEN [s EXCEPT !.mode = "standby"] ELSE s

(* Both drivers enter standby first; the frame parameters are not kept *)
sx1262_configure_tx(s) == Crossing(s, Standby(s), Standby(s))
sx1276_configure_tx(s) == Crossing(s, Standby(s), Standby(s))
host_configure_tx(s) == {Done(s)}

configure_tx(s) ==
    CASE stack.phy = "sx1262" -> sx1262_configure_tx(s)
      [] stack.phy = "sx1276" -> sx1276_configure_tx(s)
      [] OTHER -> host_configure_tx(s)

sx1262_configure_rx(s) == Crossing(s, Standby(s), Standby(s))
sx1276_configure_rx(s) == Crossing(s, Standby(s), Standby(s))

configure_rx(s) ==
    CASE stack.phy = "sx1262" -> sx1262_configure_rx(s)
      [] stack.phy = "sx1276" -> sx1276_configure_rx(s)
      [] OTHER -> {Done(s)}

(* RadioMode::Rx: only the SX1262 has a receive window that ends by itself *)
sx1262_set_rx(s, window) == Crossing(s, [s EXCEPT !.mode = "rx", !.single = window], s)
sx1276_set_rx(s) == Crossing(s, [s EXCEPT !.mode = "rx", !.single = FALSE], s)

set_mode_rx(s, window) ==
    CASE stack.phy = "sx1262" -> sx1262_set_rx(s, window)
      [] stack.phy = "sx1276" -> sx1276_set_rx(s)
      [] OTHER -> {Done(s)}

(* On the air: one more copy of the frame (kept for the properties) *)
Aired(s, f) ==
    [s EXCEPT !.onair = @ \cup
        {[id |-> f.id, fcnt |-> f.fcnt, copy |-> 1 + Cardinality({g \in @ : g.id = f.id})]}]

(* Parameters, buffer, then transmit mode: the chip sends once the last      *)
(* command has arrived                                                      *)
sx1262_transmit(s, f) == Crossing(s, Aired([s EXCEPT !.mode = "tx"], f), s)
sx1276_transmit(s, f) == Crossing(s, Aired([s EXCEPT !.mode = "tx"], f), s)
null_transmit(s, f) == {Done(Aired([s EXCEPT !.irq = {"TxDone"}], f))}
loopback_transmit(s, f) == {Done(Aired([s EXCEPT !.echo = Append(@, f)], f))}

transmit(s, f) ==
    CASE stack.phy = "sx1262" -> sx1262_transmit(s, f)
      [] stack.phy = "sx1276" -> sx1276_transmit(s, f)
      [] stack.phy = "null" -> null_transmit(s, f)
      [] stack.phy = "loopback" -> loopback_transmit(s, f)

-----------------------------------------------------------------------------
(* poll_irq: the event of highest priority among the flags.  The SX1262     *)
(* driver leaves the flags set, the SX1276 driver clears them all.          *)
Event(irq) ==
    CASE "CrcError" \in irq -> "CrcError"
      [] "CrcError" \notin irq /\ "RxTimeout" \in irq -> "RxTimeout"
      [] irq \cap {"CrcError", "RxTimeout"} = {} /\ "RxDone" \in irq -> "RxDone"
      [] irq \cap {"CrcError", "RxTimeout", "RxDone"} = {} /\ "TxDone" \in irq -> "TxDone"
      [] OTHER -> "Other"

Polled(s, event) == [ok |-> TRUE, event |-> event, s |-> s]
Unpolled(s) == [ok |-> FALSE, event |-> "None", s |-> s]

sx1262_poll_irq(s) == {Polled(s, Event(s.irq)), Unpolled(s)}

(* After the flags are written back, reading the packet's length may fail *)
sx1276_poll_irq(s) ==
    LET cleared == [s EXCEPT !.irq = {}]
    IN  {Polled(cleared, Event(s.irq)), Unpolled(s)}
        \cup (IF Event(s.irq) = "RxDone" THEN {Unpolled(cleared)} ELSE {})

null_poll_irq(s) == {Polled([s EXCEPT !.irq = {}], "TxDone")}

loopback_poll_irq(s) ==
    {Polled([s EXCEPT !.rxbuf = Head(s.echo), !.echo = Tail(@)], "RxDone")}

(* Whether the radio has something to report, and what a poll returns *)
irq_pending(s) == IF stack.phy = "loopback" THEN s.echo # <<>> ELSE s.irq # {}

poll_irq(s) ==
    CASE stack.phy = "sx1262" -> sx1262_poll_irq(s)
      [] stack.phy = "sx1276" -> sx1276_poll_irq(s)
      [] stack.phy = "null" -> null_poll_irq(s)
      [] stack.phy = "loopback" -> loopback_poll_irq(s)

(* read_rx copies as many bytes as the poll announced.  A chip that is      *)
(* still receiving may have put a newer packet into its buffer since: its   *)
(* bytes are cut or followed by old ones.                                   *)
Cut(f, n) == [f EXCEPT !.len = n, !.intact = @ /\ f.len = n]

InBuffer(s) ==
    {s.rxbuf} \cup (IF OnChip /\ s.mode = "rx" THEN PeerFrames ELSE {})

read_rx(s) == {Cut(f, s.rxbuf.len) : f \in InBuffer(s)}

-----------------------------------------------------------------------------
(* The chip by itself: a transmission ends, a packet arrives, a window ends *)
tx_finishes(s) == [s EXCEPT !.mode = "standby", !.irq = @ \cup {"TxDone"}]

AfterRx(s) == IF s.single THEN "standby" ELSE "rx"

packet_arrives(s, f) ==
    [s EXCEPT !.mode = AfterRx(s), !.rxbuf = f,
              !.irq = @ \cup {"RxDone"} \cup (IF f.intact THEN {} ELSE {"CrcError"})]

preamble_detected(s) == [s EXCEPT !.irq = @ \cup {"PreambleDetected"}]

window_ends(s) == [s EXCEPT !.mode = "standby", !.irq = @ \cup {"RxTimeout"}]
=============================================================================
