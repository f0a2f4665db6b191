------------------------------- MODULE RfStack ------------------------------
(***************************************************************************)
(* RfStackAO (crates/comms/src/stack.rs) on its stack, the applications    *)
(* that use it (a plain sender and FotaDriver) and the air around it.      *)
(* The active object and the radio are one record, node: a handler is an   *)
(* operator from a node to the set of nodes it may leave behind, so that   *)
(* start_tx and drain_pending_tx can call each other as they do in the     *)
(* code.  Requests, receive starts and the timer's signal pass through the *)
(* object's queue; pump polls the radio and runs the handler in one call.  *)
(***************************************************************************)
EXTENDS RfPhy

CONSTANTS
    Apps,          \* which applications are run, a subset of {"sender", "fota"}
    Lens,          \* payload lengths the sender asks for
    Dsts,          \* addresses the sender asks for
    Chunks,        \* FotaDriver::total_chunks
    MaxRequests,   \* bound on the requests of a behaviour, for each radio
    MaxQueue,      \* bound on the two event queues
    None           \* no pending request

ASSUME RequestAssumption == Lens \subseteq Nat /\ Dsts \subseteq Nat

VARIABLES
    node,          \* the active object and its radio
    queue,         \* events posted to the active object
    app,           \* which application runs
    fota           \* FotaDriver

vars == <<stack, node, queue, app, fota>>

Request(id, reliable, len, dst) ==
    [id |-> id, reliable |-> reliable, len |-> len, dst |-> dst]

(* AoState, pending_tx, retransmit_frame, whether the timer is armed, the   *)
(* layers and the radio; posts is the queue of the application's object;    *)
(* requests, started, onair and failed are kept for the properties.         *)
NewNode ==
    [state |-> "Idle", pending |-> None, frame |-> NoFrame, armed |-> FALSE,
     tp |-> NewTransport, dst |-> Bcast, fcnt |-> 0, posts |-> <<>>,
     requests |-> 0, started |-> 0, onair |-> {}, failed |-> {},
     mode |-> NewPhy.mode, single |-> NewPhy.single, irq |-> NewPhy.irq,
     rxbuf |-> NewPhy.rxbuf, echo |-> NewPhy.echo]

Init ==
    /\ stack \in Stacks
    /\ node = NewNode
    /\ queue = <<>>
    /\ app \in Apps
    /\ fota = [next |-> 0, failed |-> FALSE, done |-> FALSE]

-----------------------------------------------------------------------------
Busy(s) == s.state \in {"Transmitting", "WaitingAck"}

post_app(s, sig) == [s EXCEPT !.posts = Append(@, sig)]
TxDone == [sig |-> "RF_TX_DONE"]
TxFail == [sig |-> "RF_TX_FAIL"]
RxFrame(f) == [sig |-> "RF_RX_FRAME", frame |-> f]

tx_refused_keeps(s, r) ==                                              \* mutant
    [post_app(s, TxFail) EXCEPT !.failed = @ \cup {r.id}]

(* The failure path of start_tx: the frame is given up and reported *)
tx_refused(s, r) ==
    [post_app([s EXCEPT !.frame = NoFrame], TxFail) EXCEPT !.failed = @ \cup {r.id}]

tx_started(s, r) ==
    [s EXCEPT !.state = IF r.reliable THEN "WaitingAck" ELSE "Transmitting",
              !.armed = TRUE]

(* start_tx up to the drain of its failure paths: [ok, s] *)
try_tx(s, r) ==
    LET built == build_frame(s, r)
        saved == [built EXCEPT !.frame = frame_of(s, r)]
    IN  IF ~build_fits(r.len) THEN {[ok |-> TRUE, s |-> built]}
        ELSE {[ok |-> t.ok, s |-> IF t.ok THEN tx_started(t.s, r) ELSE tx_refused(t.s, r)] :
                t \in UNION {IF c.ok THEN transmit(c.s, c.s.frame) ELSE {c} : c \in configure_tx(saved)}}

(* drain_pending_tx; the request it starts finds no other one pending *)
drain_pending_tx(s) ==
    IF Busy(s) \/ s.pending = None THEN {s}
    ELSE {t.s : t \in try_tx([s EXCEPT !.pending = None], s.pending)}

start_tx(s, r) ==
    UNION {IF t.ok THEN {t.s} ELSE drain_pending_tx(t.s) : t \in try_tx(s, r)}

handle_tx_req(s, r) ==
    IF ~Busy(s) THEN start_tx(s, r)
    ELSE IF s.pending = None THEN {[s EXCEPT !.pending = r]}
    ELSE {s}

(* Still waiting for the acknowledgement, or done: receive window, drain *)
tx_complete(s) ==
    {[m.s EXCEPT !.state = "Listening"] :
        m \in set_mode_rx(post_app([s EXCEPT !.armed = FALSE], TxDone), TRUE)}

handle_tx_done_nodrain(s) ==                                           \* mutant
    IF s.state = "WaitingAck" THEN {[s EXCEPT !.armed = TRUE]} ELSE tx_complete(s)

handle_tx_done(s) ==
    IF s.state = "WaitingAck" THEN {[s EXCEPT !.armed = TRUE]}
    ELSE UNION {drain_pending_tx(t) : t \in tx_complete(s)}

do_retransmit(s) == IF s.frame = NoFrame THEN {Done(s)} ELSE transmit(s, s.frame)

(* handle_transport_timeout; the frame of the last request is given up *)
handle_transport_timeout(s) ==
    LET t == [s EXCEPT !.tp = on_timeout(@)]
        action == on_timeout_action(s.tp)
    IN  CASE action = "ShouldRetransmit" ->
               {[x.s EXCEPT !.armed = TRUE] : x \in do_retransmit(t)}
          [] action = "GiveUp" ->
               drain_pending_tx(post_app(
                   [t EXCEPT !.frame = NoFrame, !.state = "Idle",
                             !.failed = IF s.frame = NoFrame THEN @ ELSE @ \cup {s.frame.id}],
                   TxFail))
          [] action = "Nothing" -> {t}

(* A frame for the application ends the wait for an acknowledgement *)
wait_ends(s) ==
    IF s.state # "WaitingAck" THEN s
    ELSE post_app([s EXCEPT !.frame = NoFrame, !.armed = FALSE, !.state = "Idle"], TxDone)

deliver(s, f) ==
    IF received(s, f) THEN post_app(wait_ends(receive_raw(s, f)), RxFrame(f))
    ELSE receive_raw(s, f)

rx_over(s) == IF s.state = "Listening" THEN [s EXCEPT !.state = "Idle"] ELSE s

(* read_rx fails with the bus: the handler returns at once *)
Unread(s) == IF OnChip THEN {s} ELSE {}

handle_rx_done(s) ==
    Unread(s) \cup UNION {drain_pending_tx(rx_over(deliver(s, f))) : f \in read_rx(s)}

handle_rx_start(s) ==
    IF s.state # "Idle" THEN {s}
    ELSE {IF m.ok THEN [m.s EXCEPT !.state = "Listening"] ELSE m.s :
            m \in UNION {set_mode_rx(c.s, FALSE) : c \in configure_rx(s)}}

(* The signals pump makes of the radio's events, and their handlers *)
on_phy_event(s, event) ==
    CASE event = "TxDone" -> handle_tx_done(s)
      [] event = "RxDone" -> handle_rx_done(s)
      [] event \in {"RxTimeout", "CrcError"} -> {[s EXCEPT !.state = "Idle"]}
      [] OTHER -> {s}

on_event(s, e) ==
    CASE e.sig = "RF_TX_REQ" -> handle_tx_req(s, e.req)
      [] e.sig = "RF_RX_START" -> handle_rx_start(s)
      [] e.sig = "RF_TRANSPORT_TIMEOUT" -> handle_transport_timeout(s)

-----------------------------------------------------------------------------
(* The active object.  The sender reacts to no report, so that nothing is   *)
(* lost by letting it take one before the next step.                        *)
Roomy == IF app = "sender" THEN node.posts = <<>> ELSE Len(node.posts) <= MaxQueue

Dispatch ==
    /\ queue # <<>> /\ Roomy
    /\ queue' = Tail(queue)
    /\ node' \in on_event(node, Head(queue))
    /\ UNCHANGED <<stack, app, fota>>

pump ==
    /\ irq_pending(node) /\ Roomy
    /\ \E p \in poll_irq(node) :
         node' \in IF p.ok THEN on_phy_event(p.s, p.event) ELSE {p.s}
    /\ UNCHANGED <<stack, queue, app, fota>>

(* The wheel that would poll retransmit_timer: it expires and posts *)
TimerExpires ==
    /\ node.armed /\ Len(queue) < MaxQueue
    /\ node' = [node EXCEPT !.armed = FALSE]
    /\ queue' = Append(queue, [sig |-> "RF_TRANSPORT_TIMEOUT"])
    /\ UNCHANGED <<stack, app, fota>>

-----------------------------------------------------------------------------
(* The application *)
post_tx(reliable, len, dst) ==
    /\ node.requests < MaxRequests[stack.phy] /\ Len(queue) < MaxQueue
    /\ queue' = Append(queue, [sig |-> "RF_TX_REQ",
                               req |-> Request(node.requests + 1, reliable, len, dst)])

(* The sender asks whenever it likes; the node's counter names its requests *)
SenderRequest ==
    /\ app = "sender"
    /\ \E reliable \in BOOLEAN, len \in Lens, dst \in Dsts : post_tx(reliable, len, dst)
    /\ node' = [node EXCEPT !.requests = @ + 1]
    /\ UNCHANGED <<stack, app, fota>>

ReceiveStart ==
    /\ app = "sender"
    /\ Len(queue) < MaxQueue
    /\ queue' = Append(queue, [sig |-> "RF_RX_START"])
    /\ UNCHANGED <<stack, node, app, fota>>

start_announce ==
    /\ app = "fota" /\ node.requests = 0
    /\ post_tx(FALSE, 5, Bcast)
    /\ node' = [node EXCEPT !.requests = @ + 1]
    /\ UNCHANGED <<stack, app, fota>>

AppTakes(sig) ==
    /\ node.posts # <<>> /\ Head(node.posts).sig = sig

Taken(n) == [node EXCEPT !.posts = Tail(@), !.requests = @ + n]

(* FotaDriver::on_tx_done: the next chunk, or the verify packet once *)
on_tx_done ==
    /\ app = "fota" /\ AppTakes("RF_TX_DONE") /\ ~fota.done
    /\ \/ /\ fota.failed
          /\ node' = Taken(0)
          /\ UNCHANGED <<queue, fota>>
       \/ /\ ~fota.failed /\ fota.next >= Chunks
          /\ post_tx(TRUE, 9, Bcast)
          /\ node' = Taken(1)
          /\ fota' = [fota EXCEPT !.done = TRUE]
       \/ /\ ~fota.failed /\ fota.next < Chunks
          /\ post_tx(TRUE, 209, Bcast)
          /\ node' = Taken(1)
          /\ fota' = [fota EXCEPT !.next = @ + 1]
    /\ UNCHANGED <<stack, app>>

on_tx_fail ==
    /\ app = "fota" /\ AppTakes("RF_TX_FAIL")
    /\ node' = Taken(0)
    /\ fota' = [fota EXCEPT !.failed = TRUE]
    /\ UNCHANGED <<stack, app, queue>>

(* Everything else the application only notes *)
AppNotes ==
    /\ node.posts # <<>>
    /\ app = "fota" /\ ~AppTakes("RF_RX_FRAME") => AppTakes("RF_TX_DONE") /\ fota.done
    /\ node' = Taken(0)
    /\ UNCHANGED <<stack, app, queue, fota>>

-----------------------------------------------------------------------------
(* The chip and the air *)
Air ==
    /\ \/ OnChip /\ node.mode = "tx" /\ node' = tx_finishes(node)
       \/ OnChip /\ node.mode = "rx" /\ \E f \in PeerFrames : node' = packet_arrives(node, f)
       \/ OnChip /\ node.mode = "rx" /\ node' = preamble_detected(node)
       \/ OnChip /\ node.mode = "rx" /\ node.single /\ node' = window_ends(node)
       \/ /\ stack.phy = "loopback" /\ Len(node.echo) < MaxQueue
          /\ \E f \in PeerFrames : node' = [node EXCEPT !.echo = Append(@, f)]
    /\ UNCHANGED <<stack, queue, app, fota>>

Next ==
    \/ Dispatch \/ pump \/ TimerExpires
    \/ SenderRequest \/ ReceiveStart \/ start_announce
    \/ on_tx_done \/ on_tx_fail \/ AppNotes
    \/ Air

(* The loop that pumps the radio and the kernel that dispatches keep running, *)
(* and so does the application's object.                                      *)
Spec == Init /\ [][Next]_vars /\ WF_vars(pump) /\ WF_vars(Dispatch)
             /\ WF_vars(AppNotes \/ on_tx_done \/ on_tx_fail)

-----------------------------------------------------------------------------
(* A node puts at most 1 + max_retries frames on the air for each request    *)
(* that reached its transport, whatever timers are stale, whatever requests  *)
(* failed to encode and whatever the radio reports twice.                    *)
AirBudget == Cardinality(node.onair) <= (1 + MaxRetries) * node.started

(* A request that was reported with RF_TX_FAIL is never on the air again     *)
(* after the report: the saved frame is gone on every path that gives up.    *)
FailIsFinal ==
    [][\A f \in node'.onair \ node.onair : f.id \notin node.failed]_vars

(* The uplink counter names a frame: two different frames never leave with   *)
(* the same counter, hence never with the same keystream, and a              *)
(* retransmission repeats the counter it had (do_retransmit).                *)
FcntNamesFrame ==
    stack.mac = "lorawan" =>
        \A f, g \in node.onair : f.fcnt = g.fcnt <=> f.id = g.id

(* What reaches the application was addressed to this node or to everybody,  *)
(* is no acknowledgement of a reliable transport and, under the LoRaWAN MAC, *)
(* is whole, even if a newer packet overwrote the radio's buffer while the   *)
(* frame was read.                                                           *)
DeliveredWasSent ==
    \A i \in DOMAIN node.posts :
        node.posts[i].sig = "RF_RX_FRAME" =>
            LET f == node.posts[i].frame
            IN  /\ stack.mac = "lorawan" => f.intact
                /\ stack.net = "addressed" => f.dst \in {Own, Bcast}
                /\ stack.transport = "reliable" => ~f.ack

(* A request that waits behind a transmission without acknowledgement is     *)
(* sent once the radio reports the end of it (handle_tx_done drains), on the *)
(* host radio, which reports every transmission.                             *)
Parked(i) ==
    /\ stack.phy = "null" /\ node.state = "Transmitting"
    /\ node.pending # None /\ node.pending.id = i /\ build_fits(node.pending.len)

PendingIsSent ==
    \A i \in 1 .. MaxRequests["null"] : Parked(i) ~> \E f \in node.onair : f.id = i

=============================================================================
