------------------------------ MODULE RfProofs ------------------------------
(***************************************************************************)
(* Proofs about the RF stack (RfStack.tla), for every composition of       *)
(* layers and radio, every payload length and every traffic on the air.    *)
(* A handler is an operator from a node to the nodes it may leave behind,  *)
(* so the proofs follow the calls of the code: what holds of the node a    *)
(* handler is given holds of every node it returns, and Moves says what    *)
(* may have happened in between.                                           *)
(***************************************************************************)
EXTENDS RfStack, FiniteSetTheorems, SequenceTheorems, TLAPS

Requests == [id : Nat, reliable : BOOLEAN, len : Nat, dst : Nat]
Transports == [seq : Nat, acked : Nat, retries : 0 .. MaxRetries, state : {"Idle", "WaitingAck"}]
Copies == [id : Nat, fcnt : Nat, copy : Nat]

\* A frame the layers of this stack may hand to the application.
Wanted(f) ==
    /\ stack.mac = "lorawan" => f.intact
    /\ stack.net = "addressed" => f.dst \in {Own, Bcast}
    /\ stack.transport = "reliable" => ~f.ack

Posts == {TxDone, TxFail} \cup [sig : {"RF_RX_FRAME"}, frame : {f \in Frame : Wanted(f)}]

Node ==
    [state : {"Idle", "Transmitting", "WaitingAck", "Listening"}, pending : Requests \cup {None},
     frame : Frame \cup {NoFrame}, armed : BOOLEAN, tp : Transports, dst : Nat, fcnt : Nat,
     posts : Seq(Posts), requests : Nat, started : Nat, onair : SUBSET Copies, failed : SUBSET Nat,
     mode : {"standby", "rx", "tx"}, single : BOOLEAN,
     irq : SUBSET {"TxDone", "RxDone", "RxTimeout", "CrcError", "PreambleDetected"},
     rxbuf : Frame \cup {NoFrame}, echo : Seq(Frame)]

\* The retransmissions the transport still has.
Left(t) == IF t.state = "WaitingAck" THEN t.retries ELSE 0
Budget(s) ==
    /\ IsFiniteSet(s.onair)
    /\ Cardinality(s.onair) + Left(s.tp) <= (1 + MaxRetries) * s.started

\* The saved frame and those on the air are named by their counter.
Names(s) ==
    stack.mac = "lorawan" =>
        /\ \A f \in s.onair : f.fcnt < s.fcnt
        /\ \A f, g \in s.onair : f.fcnt = g.fcnt <=> f.id = g.id
        /\ s.frame # NoFrame => /\ s.frame.fcnt < s.fcnt
                                /\ \A f \in s.onair : f.fcnt = s.frame.fcnt <=> f.id = s.frame.id

\* The requests that have been on their way, and the one that waits.
Saved(s) == IF s.frame = NoFrame THEN {} ELSE {s.frame.id}
Waits(s) == IF s.pending = None THEN {} ELSE {s.pending.id}
Spent(s) == {f.id : f \in s.onair} \cup s.failed \cup Saved(s)
Seen(s) == Spent(s) \cup Waits(s)

Apart(s) == Saved(s) \cap s.failed = {} /\ Waits(s) \cap Spent(s) = {}

\* A received packet is in the buffer before the chip reports it.
Buffered(s) == "RxDone" \in s.irq => s.rxbuf \in Frame

Good(s) == s \in Node /\ Budget(s) /\ Names(s) /\ Apart(s) /\ Buffered(s)

\* Requests in the queue are new to the node, and differ from each other.
Events == [sig : {"RF_TX_REQ"}, req : Requests] \cup [sig : {"RF_RX_START", "RF_TRANSPORT_TIMEOUT"}]

Asks(e) == e.sig = "RF_TX_REQ"

Queued(q, s) ==
    /\ q \in Seq(Events)
    /\ \A i \in DOMAIN q : Asks(q[i]) => q[i].req.id \notin Seen(s) /\ q[i].req.id <= s.requests
    /\ \A i, j \in DOMAIN q : Asks(q[i]) /\ Asks(q[j]) /\ q[i].req.id = q[j].req.id => i = j
    /\ \A n \in Seen(s) : n <= s.requests

RfInv == stack \in Stacks /\ Good(node) /\ Queued(queue, node)

-----------------------------------------------------------------------------
(* What a handler may do to the traffic of a node: frames go on the air,   *)
(* none of a request that has failed, and only the requests in I are new.  *)

Moves(s, t, I) ==
    /\ s.onair \subseteq t.onair /\ s.failed \subseteq t.failed
    /\ \A f \in t.onair \ s.onair : f.id \notin s.failed
    /\ Seen(t) \subseteq Seen(s) \cup I
    /\ t.requests = s.requests

LEMMA MovesOn ==
    ASSUME NEW s, NEW t, NEW u, NEW I, NEW J, Moves(s, t, I), Moves(t, u, J)
    PROVE  Moves(s, u, I \cup J)
  BY DEF Moves

\* The frame or the waiting request may go; nothing else of the traffic changes.
Calm(s, t) ==
    /\ t.onair = s.onair /\ t.fcnt = s.fcnt /\ t.started = s.started /\ t.requests = s.requests
    /\ t.frame \in {s.frame, NoFrame} /\ t.pending \in {s.pending, None}
    /\ Left(t.tp) \in Nat /\ Left(t.tp) <= Left(s.tp)

LEMMA Numbers ==
    ASSUME NEW s \in Node
    PROVE  /\ s.started \in Nat /\ s.fcnt \in Nat /\ MaxRetries \in Nat /\ Left(s.tp) \in Nat
           /\ (1 + MaxRetries) * s.started \in Nat
           /\ (1 + MaxRetries) * (s.started + 1) = (1 + MaxRetries) * s.started + 1 + MaxRetries
PROOF
  <1>1. MaxRetries \in Nat /\ s.started \in Nat /\ s.fcnt \in Nat /\ s.tp.retries \in Nat
    BY MaxRetriesAssumption DEF Node, Transports
  <1>2. Left(s.tp) \in Nat
    BY <1>1 DEF Left
  <1> QED BY <1>1, <1>2

LEMMA CalmStep ==
    ASSUME NEW s, Good(s), NEW t \in Node, Calm(s, t), t.failed = s.failed, Buffered(t)
    PROVE  Good(t) /\ Moves(s, t, {})
PROOF
  <1>1. Saved(t) \subseteq Saved(s) /\ Waits(t) \subseteq Waits(s) /\ Spent(t) \subseteq Spent(s)
    BY DEF Calm, Saved, Waits, Spent
  <1>2. Budget(t)
    <2>1. Cardinality(s.onair) \in Nat
      BY FS_CardinalityType DEF Good, Budget
    <2> QED BY <2>1, Numbers DEF Good, Budget, Calm
  <1>3. Names(t)
    BY DEF Good, Names, Calm
  <1>4. Apart(t) /\ Seen(t) \subseteq Seen(s)
    BY <1>1 DEF Good, Apart, Seen
  <1> QED BY <1>2, <1>3, <1>4 DEF Good, Moves, Calm

\* The frame is given up and its requests are reported.
LEMMA GivenUp ==
    ASSUME NEW s, Good(s), NEW t \in Node, Calm(s, t), t.frame = NoFrame, NEW X,
           t.failed = s.failed \cup X, X \cap Waits(s) = {}, Buffered(t)
    PROVE  Good(t) /\ Moves(s, t, X)
PROOF
  <1>1. Saved(t) = {} /\ Waits(t) \subseteq Waits(s) /\ Spent(t) \subseteq Spent(s) \cup X
    BY DEF Calm, Saved, Waits, Spent
  <1>2. Budget(t)
    <2>1. Cardinality(s.onair) \in Nat
      BY FS_CardinalityType DEF Good, Budget
    <2> QED BY <2>1, Numbers DEF Good, Budget, Calm
  <1>3. Names(t)
    BY DEF Good, Names, Calm
  <1>4. Apart(t) /\ Seen(t) \subseteq Seen(s) \cup X
    BY <1>1 DEF Good, Apart, Seen
  <1> QED BY <1>2, <1>3, <1>4 DEF Good, Moves, Calm

-----------------------------------------------------------------------------
(* The radio *)

LEMMA Configured ==
    ASSUME NEW s, Good(s), NEW c \in configure_tx(s) \cup configure_rx(s)
    PROVE  /\ Good(c.s) /\ Moves(s, c.s, {})
           /\ c.s.frame = s.frame /\ c.s.pending = s.pending
           /\ c.s.onair = s.onair /\ c.s.started = s.started /\ c.s.tp = s.tp
           /\ c.s.failed = s.failed
PROOF
  <1>1. s \in Node
    BY DEF Good
  <1>2. c = Done(s) \/ c = Fault(s) \/ c = Done(Standby(s)) \/ c = Fault(Standby(s))
    BY DEF configure_tx, configure_rx, sx1262_configure_tx, sx1276_configure_tx, host_configure_tx,
           sx1262_configure_rx, sx1276_configure_rx, Crossing
  <1>3. c.s \in {s, Standby(s)}
    BY <1>2 DEF Done, Fault
  <1>4. PICK t : t = c.s /\ t \in {s, [s EXCEPT !.mode = "standby"]}
    BY <1>3 DEF Standby
  <1>5. /\ t \in Node /\ Calm(s, t) /\ t.failed = s.failed /\ Buffered(t) /\ t.frame = s.frame
        /\ t.pending = s.pending /\ t.tp = s.tp
    <2>1. CASE t = s
      BY <1>1, <2>1, Numbers DEF Calm, Good
    <2>2. CASE t = [s EXCEPT !.mode = "standby"]
      <3>1. t \in Node
        BY <1>1, <2>2 DEF Node
      <3>2. Calm(s, t) /\ t.failed = s.failed
        BY <1>1, <2>2, Numbers DEF Calm
      <3>3. Buffered(t)
        BY <2>2 DEF Good, Buffered
      <3> QED BY <2>2, <3>1, <3>2, <3>3
    <2> QED BY <1>4, <2>1, <2>2
  <1>6. Good(t) /\ Moves(s, t, {})
    BY <1>5, CalmStep
  <1> QED BY <1>3, <1>4, <1>5, <1>6 DEF Calm

LEMMA SetRx ==
    ASSUME NEW s, Good(s), NEW w \in BOOLEAN, NEW m \in set_mode_rx(s, w)
    PROVE  Good(m.s) /\ Moves(s, m.s, {})
PROOF
  <1>1. s \in Node
    BY DEF Good
  <1>2. PICK t : t = m.s /\ t \in {s, [s EXCEPT !.mode = "rx", !.single = w], [s EXCEPT !.mode = "rx", !.single = FALSE]}
    BY DEF set_mode_rx, sx1262_set_rx, sx1276_set_rx, Crossing, Done, Fault
  <1>3. ASSUME NEW v \in BOOLEAN, t = [s EXCEPT !.mode = "rx", !.single = v]
        PROVE  Good(t) /\ Moves(s, t, {})
    <2>1. t \in Node
      BY <1>1, <1>3 DEF Node
    <2>2. Calm(s, t) /\ t.failed = s.failed
      BY <1>1, <1>3, Numbers DEF Calm
    <2>3. Buffered(t)
      BY <1>3 DEF Good, Buffered
    <2> QED BY <2>1, <2>2, <2>3, CalmStep
  <1>4. Good(s) /\ Moves(s, s, {})
    BY DEF Moves
  <1> QED BY <1>2, <1>3, <1>4

\* Two nodes with the same traffic.
Alike(s, t) ==
    /\ t.onair = s.onair /\ t.fcnt = s.fcnt /\ t.started = s.started /\ t.requests = s.requests
    /\ t.tp = s.tp /\ t.frame = s.frame /\ t.pending = s.pending /\ t.failed = s.failed

\* There is room in the budget for one more frame.
Room(s) == Cardinality(s.onair) + Left(s.tp) + 1 <= (1 + MaxRetries) * s.started

\* One more copy of the saved frame.
LEMMA AiredOnce ==
    ASSUME NEW s, Good(s), Room(s), s.frame \in Frame, NEW t \in Node, NEW a \in Copies,
           a.id = s.frame.id, a.fcnt = s.frame.fcnt, t.onair = s.onair \cup {a},
           t.fcnt = s.fcnt, t.started = s.started, t.requests = s.requests, t.tp = s.tp,
           t.frame = s.frame, t.pending = s.pending, t.failed = s.failed, Buffered(t)
    PROVE  Good(t) /\ Moves(s, t, {})
PROOF
  <1>1. s \in Node /\ s.frame # NoFrame
    BY PeerAssumption DEF Good
  <1>2. Budget(t)
    <2>1. IsFiniteSet(s.onair) /\ Cardinality(s.onair) \in Nat
      BY FS_CardinalityType DEF Good, Budget
    <2>2. /\ IsFiniteSet(s.onair \cup {a})
          /\ Cardinality(s.onair \cup {a}) \in {Cardinality(s.onair), Cardinality(s.onair) + 1}
      BY <2>1, FS_AddElement
    <2> QED BY <1>1, <2>1, <2>2, Numbers DEF Budget, Room
  <1>3. Names(t)
    <2> SUFFICES ASSUME stack.mac = "lorawan" PROVE Names(t)
      BY DEF Names
    <2>1. /\ \A f \in s.onair : f.fcnt < s.fcnt
          /\ \A f, g \in s.onair : f.fcnt = g.fcnt <=> f.id = g.id
          /\ s.frame.fcnt < s.fcnt
          /\ \A f \in s.onair : f.fcnt = s.frame.fcnt <=> f.id = s.frame.id
      BY <1>1 DEF Good, Names
    <2>2. ASSUME NEW f \in t.onair PROVE f.fcnt < t.fcnt /\ (f.fcnt = t.frame.fcnt <=> f.id = t.frame.id)
      BY <2>1
    <2>3. ASSUME NEW f \in t.onair, NEW g \in t.onair PROVE f.fcnt = g.fcnt <=> f.id = g.id
      BY <2>1
    <2>4. t.frame.fcnt < t.fcnt
      BY <2>1
    <2> QED BY <2>2, <2>3, <2>4 DEF Names
  <1>4. /\ Saved(t) = Saved(s) /\ Waits(t) = Waits(s) /\ Spent(t) = Spent(s)
        /\ a.id \notin s.failed
    BY <1>1 DEF Saved, Waits, Spent, Good, Apart
  <1>5. Apart(t) /\ Seen(t) = Seen(s)
    BY <1>4 DEF Apart, Seen, Good
  <1> QED BY <1>2, <1>3, <1>4, <1>5 DEF Good, Moves

LEMMA Transmitted ==
    ASSUME NEW s, Good(s), Room(s), s.frame \in Frame, stack \in Stacks, NEW x \in transmit(s, s.frame)
    PROVE  /\ Good(x.s) /\ Moves(s, x.s, {})
           /\ x.s.frame = s.frame /\ x.s.pending = s.pending
PROOF
  <1> DEFINE f == s.frame
             a == [id |-> f.id, fcnt |-> f.fcnt, copy |-> 1 + Cardinality({g \in s.onair : g.id = f.id})]
  <1>1. s \in Node /\ stack.phy \in {"sx1262", "sx1276", "null", "loopback"}
    BY StackAssumption DEF Good
  <1>2. a \in Copies
    <2>1. IsFiniteSet(s.onair)
      BY DEF Good, Budget
    <2>2. Cardinality({g \in s.onair : g.id = f.id}) \in Nat
      BY <2>1, FS_Subset, FS_CardinalityType
    <2> QED BY <2>2 DEF Frame, Copies
  <1>3. PICK t : /\ t = x.s
                 /\ \/ t = s
                    \/ t = Aired([s EXCEPT !.mode = "tx"], f)
                    \/ t = Aired([s EXCEPT !.irq = {"TxDone"}], f)
                    \/ t = Aired([s EXCEPT !.echo = Append(@, f)], f)
    BY <1>1 DEF transmit, sx1262_transmit, sx1276_transmit, null_transmit, loopback_transmit,
                Crossing, Done, Fault
  <1>4. CASE t = s
    BY <1>3, <1>4 DEF Moves
  <1>5. ASSUME NEW v \in Node, t = [v EXCEPT !.onair = s.onair \cup {a}], Alike(s, v), Buffered(v)
        PROVE  Good(t) /\ Moves(s, t, {}) /\ t.frame = s.frame /\ t.pending = s.pending
    <2> HIDE DEF a
    <2>1. s.onair \cup {a} \in SUBSET Copies
      BY <1>1, <1>2 DEF Node
    <2>2. t \in Node
      BY <1>5, <2>1 DEF Node
    <2>3. Buffered(t) /\ t.frame = s.frame /\ t.pending = s.pending /\ t.onair = s.onair \cup {a}
          /\ t.fcnt = s.fcnt /\ t.started = s.started /\ t.requests = s.requests /\ t.tp = s.tp
          /\ t.failed = s.failed
      BY <1>5 DEF Buffered, Alike
    <2>4. a.id = s.frame.id /\ a.fcnt = s.frame.fcnt
      BY DEF a
    <2> QED BY <1>2, <2>2, <2>3, <2>4, AiredOnce
  <1>6. CASE t = Aired([s EXCEPT !.mode = "tx"], f)
    <2>1. PICK v : v = [s EXCEPT !.mode = "tx"]
      OBVIOUS
    <2>2. v \in Node
      BY <1>1, <2>1 DEF Node
    <2>3. t = [v EXCEPT !.onair = s.onair \cup {a}]
      BY <1>6, <2>1 DEF Aired
    <2>4. Buffered(v) /\ Alike(s, v)
      BY <2>1 DEF Good, Buffered, Alike
    <2> HIDE DEF a
    <2> QED BY <1>3, <1>5, <2>2, <2>3, <2>4
  <1>7. CASE t = Aired([s EXCEPT !.irq = {"TxDone"}], f)
    <2>1. PICK v : v = [s EXCEPT !.irq = {"TxDone"}]
      OBVIOUS
    <2>2. v \in Node
      BY <1>1, <2>1 DEF Node
    <2>3. t = [v EXCEPT !.onair = s.onair \cup {a}]
      BY <1>7, <2>1 DEF Aired
    <2>4. Buffered(v) /\ Alike(s, v)
      BY <2>1 DEF Buffered, Alike
    <2> HIDE DEF a
    <2> QED BY <1>3, <1>5, <2>2, <2>3, <2>4
  <1>8. CASE t = Aired([s EXCEPT !.echo = Append(@, f)], f)
    <2>1. PICK v : v = [s EXCEPT !.echo = Append(@, f)]
      OBVIOUS
    <2>2. v \in Node
      <3>1. Append(s.echo, f) \in Seq(Frame)
        BY <1>1 DEF Node
      <3> QED BY <1>1, <2>1, <3>1 DEF Node
    <2>3. t = [v EXCEPT !.onair = s.onair \cup {a}]
      BY <1>8, <2>1 DEF Aired
    <2>4. Buffered(v) /\ Alike(s, v)
      BY <2>1 DEF Good, Buffered, Alike
    <2> HIDE DEF a
    <2> QED BY <1>3, <1>5, <2>2, <2>3, <2>4
  <1> QED BY <1>3, <1>4, <1>6, <1>7, <1>8

-----------------------------------------------------------------------------
(* A request goes down the layers and to the radio. *)

LEMMA EncodedLength ==
    ASSUME NEW n \in Nat
    PROVE  frame_len(mac_down(encoded(n))) \in Nat
PROOF
  <1> DEFINE cursors(f) == f.start \in Int /\ f.end \in Int
  <1>1. ASSUME NEW f, cursors(f), NEW k \in Int
        PROVE  cursors(prepend_header(f, k)) /\ cursors(append_trailer(f, k))
    BY <1>1 DEF prepend_header, append_trailer, U8
  <1>2. cursors(write_payload(n))
    BY DEF write_payload, FRAME_HEADROOM, U8
  <1> HIDE DEF cursors
  <1>3. HDR \in Int /\ network_header \in Int /\ MAC_HDR \in Int /\ MIC \in Int
    BY DEF HDR, network_header, NET_HDR, MAC_HDR, MIC
  <1>4. cursors(encoded(n))
    BY <1>1, <1>2, <1>3 DEF encoded
  <1>5. cursors(mac_down(encoded(n)))
    BY <1>1, <1>3, <1>4 DEF mac_down
  <1> QED BY <1>5 DEF frame_len, U8, cursors

LEMMA FrameOf ==
    ASSUME NEW s \in Node, NEW r \in Requests
    PROVE  frame_of(s, r) \in Frame /\ frame_of(s, r).id = r.id /\ frame_of(s, r).fcnt = s.fcnt
PROOF
  <1>1. frame_len(mac_down(encoded(r.len))) \in Nat
    BY EncodedLength DEF Requests
  <1>2. s.fcnt \in Nat /\ s.tp.seq \in Nat /\ r.id \in Nat /\ r.dst \in Nat /\ Own \in Nat
    BY StackAssumption DEF Node, Transports, Requests
  <1> QED BY <1>1, <1>2 DEF frame_of, Frame

\* The transport grants itself the retransmissions the request pays for.
LEMMA Built ==
    ASSUME NEW s, Good(s), NEW r \in Requests, NEW b, b = build_frame(s, r)
    PROVE  /\ Good(b) /\ Moves(s, b, {}) /\ Waits(b) = Waits(s) /\ Spent(b) = Spent(s)
           /\ b.pending = s.pending /\ b.onair = s.onair /\ b.failed = s.failed /\ b.requests = s.requests
           /\ build_fits(r.len) => Room(b) /\ (stack.mac = "lorawan" => s.fcnt < b.fcnt)
PROOF
  <1>1. s \in Node /\ r.dst \in Nat
    BY DEF Good, Requests
  <1>2. CASE ~CanWrite(r.len)
    <2>1. b = [s EXCEPT !.dst = r.dst]
      BY <1>2 DEF build_frame
    <2>2. b \in Node
      BY <1>1, <2>1 DEF Node
    <2>3. Calm(s, b) /\ b.failed = s.failed /\ Buffered(b)
      BY <1>1, <2>1, Numbers DEF Calm, Good, Buffered
    <2>4. Good(b) /\ Moves(s, b, {})
      BY <2>2, <2>3, CalmStep
    <2>5. ~build_fits(r.len)
      BY <1>2 DEF build_fits
    <2> QED BY <2>1, <2>4, <2>5 DEF Waits, Spent, Saved
  <1>3. CASE CanWrite(r.len)
    <2>1. PICK tp, d, n : /\ tp = transport_down(s.tp)
                          /\ d = (IF stack.net = "addressed" THEN Bcast ELSE s.dst)
                          /\ n = (IF build_fits(r.len) THEN fcnt_after(s.fcnt) ELSE s.fcnt)
      OBVIOUS
    <2>2. b = [s EXCEPT !.tp = tp, !.dst = d, !.fcnt = n, !.started = @ + 1]
      BY <1>3, <2>1 DEF build_frame
    <2>3. /\ s.started \in Nat /\ s.fcnt \in Nat /\ MaxRetries \in Nat /\ Left(s.tp) \in Nat
          /\ (1 + MaxRetries) * s.started \in Nat
          /\ (1 + MaxRetries) * (s.started + 1) = (1 + MaxRetries) * s.started + 1 + MaxRetries
      BY <1>1, Numbers
    <2>4. /\ n \in Nat /\ s.fcnt <= n
          /\ build_fits(r.len) /\ stack.mac = "lorawan" => s.fcnt < n
      BY <2>1, <2>3 DEF fcnt_after
    <2>5. tp \in Transports /\ Left(tp) \in Nat /\ Left(tp) <= MaxRetries + Left(s.tp)
      <3>1. s.tp \in Transports
        BY <1>1 DEF Node
      <3>2. CASE stack.transport = "reliable"
        <4>1. tp = [s.tp EXCEPT !.seq = (@ + 1) % U8, !.retries = MaxRetries, !.state = "WaitingAck"]
          BY <2>1, <3>2 DEF transport_down
        <4>2. s.tp.seq \in Nat /\ MaxRetries \in 0 .. MaxRetries /\ (s.tp.seq + 1) % U8 \in Nat
          BY <2>3, <3>1 DEF Transports, U8
        <4>3. tp \in Transports /\ Left(tp) = MaxRetries
          BY <3>1, <4>1, <4>2 DEF Transports, Left
        <4> QED BY <2>3, <4>3
      <3>3. CASE stack.transport # "reliable"
        <4>1. tp = [s.tp EXCEPT !.seq = (@ + 1) % U8]
          BY <2>1, <3>3 DEF transport_down
        <4>2. s.tp.seq \in Nat /\ (s.tp.seq + 1) % U8 \in Nat
          BY <3>1 DEF Transports, U8
        <4>3. tp \in Transports /\ Left(tp) = Left(s.tp)
          BY <3>1, <4>1, <4>2 DEF Transports, Left
        <4> QED BY <2>3, <4>3
      <3> QED BY <3>2, <3>3
    <2>6. d \in Nat
      BY <1>1, <2>1, StackAssumption DEF Node
    <2>7. b \in Node
      <3>1. PICK k \in Nat : k = s.started + 1
        BY <2>3
      <3>2. PICK u : u = [s EXCEPT !.tp = tp, !.dst = d]
        OBVIOUS
      <3>3. u \in Node
        BY <1>1, <2>5, <2>6, <3>2 DEF Node
      <3>4. b = [u EXCEPT !.fcnt = n, !.started = k]
        BY <2>2, <3>1, <3>2
      <3> QED BY <2>4, <3>1, <3>3, <3>4 DEF Node
    <2>8. /\ b.onair = s.onair /\ b.failed = s.failed /\ b.requests = s.requests /\ b.frame = s.frame
          /\ b.pending = s.pending /\ b.fcnt = n /\ b.started = s.started + 1 /\ b.tp = tp
          /\ Buffered(b)
      BY <2>2 DEF Good, Buffered
    <2>9. Room(b) /\ Budget(b)
      <3>1. IsFiniteSet(s.onair) /\ Cardinality(s.onair) \in Nat
            /\ Cardinality(s.onair) + Left(s.tp) <= (1 + MaxRetries) * s.started
        BY FS_CardinalityType DEF Good, Budget
      <3>2. PICK k : k = (1 + MaxRetries) * s.started /\ k \in Nat
                     /\ (1 + MaxRetries) * b.started = k + 1 + MaxRetries
        BY <2>3, <2>8
      <3>3. Cardinality(b.onair) + Left(b.tp) + 1 <= k + 1 + MaxRetries
        BY <2>3, <2>5, <2>8, <3>1, <3>2
      <3>4. Cardinality(b.onair) + Left(b.tp) <= k + 1 + MaxRetries
        BY <2>3, <2>5, <2>8, <3>1, <3>2, <3>3
      <3> QED BY <2>8, <3>1, <3>2, <3>3, <3>4 DEF Room, Budget
    <2>10. Names(b)
      <3>1. \A f \in s.onair : f.fcnt \in Nat
        BY <1>1 DEF Node, Copies
      <3>2. s.frame # NoFrame => s.frame.fcnt \in Nat
        BY <1>1 DEF Node, Frame
      <3> QED BY <2>3, <2>4, <2>8, <3>1, <3>2 DEF Names, Good
    <2>11. Waits(b) = Waits(s) /\ Spent(b) = Spent(s) /\ Saved(b) = Saved(s)
      BY <2>8 DEF Waits, Spent, Saved
    <2>12. Apart(b) /\ Moves(s, b, {})
      BY <2>8, <2>11 DEF Apart, Good, Moves, Seen
    <2> QED BY <2>4, <2>7, <2>8, <2>9, <2>10, <2>11, <2>12 DEF Good
  <1> QED BY <1>2, <1>3

\* The same node with f as its saved frame.
Holding(s, t, f) ==
    /\ t \in Node /\ t.frame = f /\ Buffered(t)
    /\ t.onair = s.onair /\ t.fcnt = s.fcnt /\ t.started = s.started /\ t.requests = s.requests
    /\ t.tp = s.tp /\ t.pending = s.pending /\ t.failed = s.failed

LEMMA SavedFrame ==
    ASSUME NEW s, Good(s), NEW r \in Requests, r.id \notin Seen(s), build_fits(r.len),
           NEW b, b = build_frame(s, r), NEW f, f = frame_of(s, r), NEW t, Holding(b, t, f)
    PROVE  /\ Good(t) /\ Room(t) /\ Moves(s, t, {r.id})
           /\ t.frame \in Frame /\ t.frame.id = r.id /\ t.pending = s.pending
PROOF
  <1>2. /\ Good(b) /\ Moves(s, b, {}) /\ Waits(b) = Waits(s) /\ Spent(b) = Spent(s)
        /\ b.pending = s.pending /\ b.onair = s.onair /\ b.failed = s.failed /\ b.requests = s.requests
        /\ Room(b) /\ (stack.mac = "lorawan" => s.fcnt < b.fcnt)
    BY Built
  <1>3. f \in Frame /\ f.id = r.id /\ f.fcnt = s.fcnt
    BY FrameOf DEF Good
  <1>4. Holding(b, t, f) /\ b \in Node /\ f # NoFrame
    BY <1>2, <1>3, PeerAssumption DEF Good
  <1>5. t \in Node
    BY <1>4 DEF Holding
  <1>6. /\ t.onair = s.onair /\ t.failed = s.failed /\ t.requests = s.requests /\ t.frame = f
        /\ t.pending = s.pending /\ t.fcnt = b.fcnt /\ t.started = b.started /\ t.tp = b.tp
        /\ Buffered(t)
    BY <1>2, <1>4 DEF Holding
  <1>7. Room(t) /\ Budget(t)
    BY <1>2, <1>6 DEF Room, Budget, Good
  <1>8. Names(t)
    <2> SUFFICES ASSUME stack.mac = "lorawan" PROVE Names(t)
      BY DEF Names
    <2>1. \A g \in s.onair : g.fcnt < s.fcnt /\ g.fcnt \in Nat /\ g.id # r.id
      BY DEF Good, Names, Node, Copies, Seen, Spent
    <2>2. s.fcnt \in Nat /\ b.fcnt \in Nat
      BY <1>4 DEF Good, Node
    <2>3. \A g \in s.onair : g.fcnt # f.fcnt /\ g.id # f.id
      BY <1>3, <2>1, <2>2
    <2> QED BY <1>2, <1>3, <1>6, <2>3 DEF Names, Good
  <1>9. Saved(t) = {r.id} /\ Waits(t) = Waits(s) /\ Spent(t) \subseteq Spent(s) \cup {r.id}
        /\ r.id \notin s.failed /\ r.id \notin Waits(s) /\ Waits(s) \cap Spent(s) = {}
    BY <1>3, <1>4, <1>6 DEF Saved, Waits, Spent, Seen, Good, Apart
  <1>10. Apart(t) /\ Moves(s, t, {r.id})
    BY <1>6, <1>9 DEF Apart, Moves, Seen
  <1> QED BY <1>3, <1>5, <1>6, <1>7, <1>8, <1>10 DEF Good

LEMMA Posted ==
    ASSUME NEW s \in Node, NEW p \in Posts, NEW t, t = post_app(s, p)
    PROVE  /\ t \in Node /\ Alike(s, t) /\ t.irq = s.irq /\ t.rxbuf = s.rxbuf
           /\ t.state = s.state /\ t.armed = s.armed
PROOF
  <1>0. s.posts \in Seq(Posts)
    BY DEF Node
  <1>1. PICK q : q = Append(s.posts, p) /\ q \in Seq(Posts)
    BY <1>0, AppendProperties
  <1>2. t = [s EXCEPT !.posts = q]
    BY <1>1 DEF post_app
  <1>3. t \in Node
    BY <1>1, <1>2 DEF Node
  <1> QED BY <1>2, <1>3 DEF Alike

LEMMA Started ==
    ASSUME NEW s, Good(s), NEW r \in Requests, NEW t, t = tx_started(s, r)
    PROVE  Good(t) /\ Moves(s, t, {}) /\ t.pending = s.pending
PROOF
  <1>1. s \in Node
    BY DEF Good
  <1>2. PICK v \in {"WaitingAck", "Transmitting"} : t = [s EXCEPT !.state = v, !.armed = TRUE]
    BY DEF tx_started
  <1>3. t \in Node
    BY <1>1, <1>2 DEF Node
  <1>4. Calm(s, t) /\ t.failed = s.failed /\ t.pending = s.pending
    BY <1>1, <1>2, Numbers DEF Calm
  <1>5. Buffered(t)
    BY <1>2 DEF Good, Buffered
  <1> QED BY <1>3, <1>4, <1>5, CalmStep

LEMMA Refused ==
    ASSUME NEW s, Good(s), NEW r \in Requests, r.id \notin Waits(s), NEW t, t = tx_refused(s, r)
    PROVE  Good(t) /\ Moves(s, t, {r.id}) /\ t.pending = s.pending
PROOF
  <1>1. s \in Node /\ TxFail \in Posts
    BY DEF Good, Posts
  <1>2. PICK u : u = [s EXCEPT !.frame = NoFrame]
    OBVIOUS
  <1>3. u \in Node
    BY <1>1, <1>2 DEF Node
  <1>4. PICK v : v = post_app(u, TxFail)
    OBVIOUS
  <1>5. v \in Node /\ Alike(u, v) /\ v.irq = u.irq /\ v.rxbuf = u.rxbuf
    BY <1>1, <1>3, <1>4, Posted
  <1>6. PICK F \in SUBSET Nat : F = s.failed \cup {r.id}
    BY <1>1 DEF Node, Requests
  <1>7. t = [v EXCEPT !.failed = F]
    <2>1. t = [v EXCEPT !.failed = v.failed \cup {r.id}]
      BY <1>2, <1>4 DEF tx_refused
    <2>2. v.failed \cup {r.id} = F
      BY <1>2, <1>5, <1>6 DEF Alike
    <2> QED BY <2>1, <2>2
  <1>8. t \in Node
    BY <1>5, <1>6, <1>7 DEF Node
  <1>9. Calm(s, t) /\ t.frame = NoFrame /\ t.pending = s.pending /\ t.failed = s.failed \cup {r.id}
        /\ t.irq = s.irq /\ t.rxbuf = s.rxbuf
    BY <1>1, <1>2, <1>5, <1>6, <1>7, Numbers DEF Calm, Alike
  <1>10. Buffered(t)
    BY <1>9 DEF Good, Buffered
  <1> QED BY <1>8, <1>9, <1>10, GivenUp

LEMMA TryTx ==
    ASSUME stack \in Stacks, NEW s, Good(s), NEW r \in Requests, r.id \notin Seen(s), NEW q \in try_tx(s, r)
    PROVE  Good(q.s) /\ Moves(s, q.s, {r.id}) /\ q.s.pending = s.pending
PROOF
  <1>1. PICK b : b = build_frame(s, r)
    OBVIOUS
  <1>2. PICK f : f = frame_of(s, r)
    OBVIOUS
  <1>3. PICK v : v = [b EXCEPT !.frame = f]
    OBVIOUS
  <1>4. CASE ~build_fits(r.len)
    <2>1. q.s = b
      BY <1>1, <1>4 DEF try_tx
    <2>2. Good(b) /\ Moves(s, b, {}) /\ b.pending = s.pending
      BY <1>1, Built
    <2> QED BY <2>1, <2>2 DEF Moves
  <1>5. CASE build_fits(r.len)
    <2>1. /\ Good(v) /\ Room(v) /\ Moves(s, v, {r.id})
          /\ v.frame \in Frame /\ v.frame.id = r.id /\ v.pending = s.pending
      <3>1. f \in Frame \cup {NoFrame} /\ Good(b) /\ b \in Node
        BY <1>1, <1>2, FrameOf, Built DEF Good
      <3>2. v \in Node
        BY <1>3, <3>1 DEF Node
      <3>3. Buffered(v)
        BY <1>3, <3>1 DEF Good, Buffered
      <3>4. Holding(b, v, f)
        BY <1>3, <3>2, <3>3 DEF Holding
      <3> QED BY <1>1, <1>2, <1>5, <3>4, SavedFrame
    <2>2. PICK c \in configure_tx(v) : \E x \in IF c.ok THEN transmit(c.s, c.s.frame) ELSE {c} :
                 q = [ok |-> x.ok, s |-> IF x.ok THEN tx_started(x.s, r) ELSE tx_refused(x.s, r)]
      BY <1>1, <1>2, <1>3, <1>5 DEF try_tx
    <2>3. PICK x \in IF c.ok THEN transmit(c.s, c.s.frame) ELSE {c} :
                 q.s = IF x.ok THEN tx_started(x.s, r) ELSE tx_refused(x.s, r)
      BY <2>2
    <2>4. /\ Good(c.s) /\ Moves(v, c.s, {}) /\ c.s.frame = v.frame /\ c.s.pending = v.pending
          /\ c.s.onair = v.onair /\ c.s.started = v.started /\ c.s.tp = v.tp
      BY <2>1, Configured
    <2>5. Room(c.s)
      BY <2>1, <2>4 DEF Room
    <2>6. Good(x.s) /\ Moves(c.s, x.s, {}) /\ x.s.pending = v.pending
      <3>1. CASE c.ok
        <4>1. x \in transmit(c.s, c.s.frame) /\ c.s.frame \in Frame
          BY <2>1, <2>3, <2>4, <3>1
        <4> QED BY <2>4, <2>5, <4>1, Transmitted
      <3>2. CASE ~c.ok
        <4>1. x = c
          BY <2>3, <3>2
        <4> QED BY <2>4, <4>1 DEF Moves
      <3> QED BY <3>1, <3>2
    <2>7. PICK t : t = q.s
      OBVIOUS
    <2>8. r.id \notin Waits(x.s)
      BY <2>1, <2>6 DEF Waits, Seen
    <2>9. Good(t) /\ Moves(x.s, t, {r.id}) /\ t.pending = x.s.pending
      <3>1. CASE x.ok
        <4>1. t = tx_started(x.s, r)
          BY <2>3, <2>7, <3>1
        <4>2. Good(t) /\ Moves(x.s, t, {}) /\ t.pending = x.s.pending
          BY <2>6, <4>1, Started
        <4> QED BY <4>2 DEF Moves
      <3>2. CASE ~x.ok
        <4>1. t = tx_refused(x.s, r)
          BY <2>3, <2>7, <3>2
        <4> QED BY <2>6, <2>8, <4>1, Refused
      <3> QED BY <3>1, <3>2
    <2>10. Moves(s, t, {r.id})
      <3>1. Moves(s, c.s, {r.id} \cup {})
        BY <2>1, <2>4, MovesOn
      <3>2. Moves(s, x.s, ({r.id} \cup {}) \cup {})
        BY <2>6, <3>1, MovesOn
      <3>3. Moves(s, t, (({r.id} \cup {}) \cup {}) \cup {r.id})
        BY <2>9, <3>2, MovesOn
      <3> QED BY <3>3 DEF Moves
    <2> QED BY <2>1, <2>6, <2>7, <2>9, <2>10
  <1> QED BY <1>4, <1>5

LEMMA Drained ==
    ASSUME stack \in Stacks, NEW s, Good(s), NEW t \in drain_pending_tx(s)
    PROVE  Good(t) /\ Moves(s, t, {})
PROOF
  <1>1. CASE t = s
    BY <1>1 DEF Moves
  <1>2. CASE t # s
    <2>1. PICK u : u = [s EXCEPT !.pending = None]
      OBVIOUS
    <2>2. s.pending # None /\ \E q \in try_tx(u, s.pending) : t = q.s
      BY <1>2, <2>1 DEF drain_pending_tx
    <2>3. PICK r : r = s.pending /\ r \in Requests
      BY <2>2 DEF Good, Node
    <2>4. s \in Node
      BY DEF Good
    <2>5. u \in Node
      BY <2>1, <2>4 DEF Node
    <2>6. Calm(s, u) /\ u.failed = s.failed
      BY <2>1, <2>4, Numbers DEF Calm
    <2>7. Buffered(u)
      BY <2>1 DEF Good, Buffered
    <2>8. Good(u) /\ Moves(s, u, {})
      BY <2>5, <2>6, <2>7, CalmStep
    <2>9. Waits(u) = {} /\ Spent(u) = Spent(s) /\ Waits(s) = {r.id}
      BY <2>1, <2>2, <2>3 DEF Waits, Spent, Saved
    <2>10. r.id \notin Seen(u) /\ r.id \in Seen(s)
      BY <2>9 DEF Seen, Good, Apart
    <2>11. PICK q \in try_tx(u, r) : t = q.s
      BY <2>2, <2>3
    <2>12. Good(t) /\ Moves(u, t, {r.id})
      BY <2>3, <2>8, <2>10, <2>11, TryTx
    <2>13. Moves(s, t, {} \cup {r.id})
      BY <2>8, <2>12, MovesOn
    <2> QED BY <2>10, <2>12, <2>13 DEF Moves
  <1> QED BY <1>1, <1>2

LEMMA TxRequest ==
    ASSUME stack \in Stacks, NEW s, Good(s), NEW r \in Requests, r.id \notin Seen(s), NEW t \in handle_tx_req(s, r)
    PROVE  Good(t) /\ Moves(s, t, {r.id})
PROOF
  <1>1. CASE ~Busy(s)
    <2>1. PICK q \in try_tx(s, r) : t = q.s \/ t \in drain_pending_tx(q.s)
      BY <1>1 DEF handle_tx_req, start_tx
    <2>2. Good(q.s) /\ Moves(s, q.s, {r.id})
      BY TryTx
    <2>3. CASE t = q.s
      BY <2>2, <2>3
    <2>4. CASE t \in drain_pending_tx(q.s)
      <3>1. Good(t) /\ Moves(q.s, t, {})
        BY <2>2, <2>4, Drained
      <3>2. Moves(s, t, {r.id} \cup {})
        BY <2>2, <3>1, MovesOn
      <3> QED BY <3>1, <3>2 DEF Moves
    <2> QED BY <2>1, <2>3, <2>4
  <1>2. CASE Busy(s) /\ s.pending = None
    <2>1. t = [s EXCEPT !.pending = r]
      BY <1>2 DEF handle_tx_req
    <2>2. s \in Node /\ r \in Requests \cup {None}
      BY DEF Good
    <2>3. t \in Node
      BY <2>1, <2>2 DEF Node
    <2>4. /\ t.onair = s.onair /\ t.fcnt = s.fcnt /\ t.started = s.started /\ t.requests = s.requests
          /\ t.tp = s.tp /\ t.frame = s.frame /\ t.failed = s.failed /\ t.pending = r
      BY <2>1
    <2>5. Buffered(t)
      BY <2>1 DEF Good, Buffered
    <2>6. Budget(t) /\ Names(t)
      BY <2>4 DEF Good, Budget, Names
    <2>7. Saved(t) = Saved(s) /\ Spent(t) = Spent(s) /\ Waits(t) \subseteq {r.id}
      BY <2>4 DEF Saved, Spent, Waits
    <2>8. Apart(t) /\ Moves(s, t, {r.id})
      BY <2>4, <2>7 DEF Apart, Good, Moves, Seen
    <2> QED BY <2>3, <2>5, <2>6, <2>8 DEF Good
  <1>3. CASE Busy(s) /\ s.pending # None
    BY <1>3 DEF handle_tx_req, Moves
  <1> QED BY <1>1, <1>2, <1>3

-----------------------------------------------------------------------------
(* A transmission ends, or its timer does. *)

\* The state of the object and its timer are no part of the traffic.
LEMMA StateOnly ==
    ASSUME NEW s, Good(s), NEW t, NEW v \in {"Idle", "Listening"},
           \/ t = [s EXCEPT !.state = v]
           \/ t = [s EXCEPT !.armed = TRUE]
           \/ t = [s EXCEPT !.armed = FALSE]
    PROVE  Good(t) /\ Moves(s, t, {})
PROOF
  <1>1. s \in Node
    BY DEF Good
  <1>2. t \in Node /\ Calm(s, t) /\ t.failed = s.failed /\ Buffered(t)
    <2>1. CASE t = [s EXCEPT !.state = v]
      <3>1. t \in Node
        BY <1>1, <2>1 DEF Node
      <3>2. Calm(s, t) /\ t.failed = s.failed
        BY <1>1, <2>1, Numbers DEF Calm
      <3>3. Buffered(t)
        BY <2>1 DEF Good, Buffered
      <3> QED BY <3>1, <3>2, <3>3
    <2>2. ASSUME NEW a \in BOOLEAN, t = [s EXCEPT !.armed = a]
          PROVE  t \in Node /\ Calm(s, t) /\ t.failed = s.failed /\ Buffered(t)
      <3>1. t \in Node
        BY <1>1, <2>2 DEF Node
      <3>2. Calm(s, t) /\ t.failed = s.failed
        BY <1>1, <2>2, Numbers DEF Calm
      <3>3. Buffered(t)
        BY <2>2 DEF Good, Buffered
      <3> QED BY <3>1, <3>2, <3>3
    <2>3. CASE t = [s EXCEPT !.armed = TRUE]
      BY <2>2, <2>3
    <2>4. CASE t = [s EXCEPT !.armed = FALSE]
      BY <2>2, <2>4
    <2> QED BY <2>1, <2>3, <2>4
  <1> QED BY <1>2, CalmStep

LEMMA PostedGood ==
    ASSUME NEW s, Good(s), NEW p \in Posts, NEW t, t = post_app(s, p)
    PROVE  Good(t) /\ Moves(s, t, {})
PROOF
  <1>1. s \in Node /\ t \in Node /\ Alike(s, t) /\ t.irq = s.irq /\ t.rxbuf = s.rxbuf
    BY Posted DEF Good
  <1>2. Calm(s, t) /\ t.failed = s.failed /\ Buffered(t)
    BY <1>1, Numbers DEF Calm, Alike, Good, Buffered
  <1> QED BY <1>1, <1>2, CalmStep

LEMMA TxEnds ==
    ASSUME stack \in Stacks, NEW s, Good(s), NEW t \in handle_tx_done(s)
    PROVE  Good(t) /\ Moves(s, t, {})
PROOF
  <1>1. CASE s.state = "WaitingAck"
    BY <1>1, StateOnly DEF handle_tx_done
  <1>2. CASE s.state # "WaitingAck"
    <2>1. PICK v \in tx_complete(s) : t \in drain_pending_tx(v)
      BY <1>2 DEF handle_tx_done
    <2>2. PICK u : u = [s EXCEPT !.armed = FALSE]
      OBVIOUS
    <2>3. PICK p : p = post_app(u, TxDone)
      OBVIOUS
    <2>4. PICK m \in set_mode_rx(p, TRUE) : v = [m.s EXCEPT !.state = "Listening"]
      BY <2>2, <2>3 DEF tx_complete
    <2>5. Good(u) /\ Moves(s, u, {})
      BY <2>2, StateOnly
    <2>6. Good(p) /\ Moves(u, p, {})
      BY <2>3, <2>5, PostedGood DEF Posts
    <2>7. Good(m.s) /\ Moves(p, m.s, {})
      BY <2>6, SetRx
    <2>8. Good(v) /\ Moves(m.s, v, {})
      BY <2>4, <2>7, StateOnly
    <2>9. Good(t) /\ Moves(v, t, {})
      BY <2>1, <2>8, Drained
    <2> QED BY <2>5, <2>6, <2>7, <2>8, <2>9 DEF Moves
  <1> QED BY <1>1, <1>2

\* The attempt a retransmission uses up makes room for it on the air.
LEMMA TimerRuns ==
    ASSUME stack \in Stacks, NEW s, Good(s), NEW t \in handle_transport_timeout(s)
    PROVE  Good(t) /\ Moves(s, t, {})
PROOF
  <1>1. PICK a : a = on_timeout_action(s.tp) /\ a \in {"Nothing", "ShouldRetransmit", "GiveUp"}
    BY DEF on_timeout_action
  <1>2. PICK tp : tp = on_timeout(s.tp)
    OBVIOUS
  <1>3. PICK u : u = [s EXCEPT !.tp = tp]
    OBVIOUS
  <1>4. s \in Node /\ s.tp \in Transports /\ Left(s.tp) \in Nat
    BY Numbers DEF Good, Node
  <1>5. /\ tp \in Transports /\ Left(tp) \in Nat /\ Left(tp) <= Left(s.tp)
        /\ a = "ShouldRetransmit" => Left(tp) + 1 = Left(s.tp)
    <2>1. CASE a = "ShouldRetransmit"
      <3>1. s.tp.state = "WaitingAck" /\ s.tp.retries > 0 /\ s.tp.retries \in 0 .. MaxRetries
        BY <1>1, <1>4, <2>1 DEF on_timeout_action, Transports
      <3>2. tp = [s.tp EXCEPT !.retries = @ - 1]
        BY <1>1, <1>2, <2>1 DEF on_timeout
      <3>3. PICK k : k = s.tp.retries - 1 /\ k \in 0 .. MaxRetries
        BY <3>1, MaxRetriesAssumption
      <3>4. tp = [s.tp EXCEPT !.retries = k]
        BY <3>2, <3>3
      <3>5. tp \in Transports /\ tp.state = "WaitingAck" /\ tp.retries = k
        BY <1>4, <3>1, <3>3, <3>4 DEF Transports
      <3> QED BY <3>1, <3>3, <3>5, MaxRetriesAssumption DEF Left
    <2>2. CASE a = "GiveUp"
      <3>1. tp = [s.tp EXCEPT !.state = "Idle"]
        BY <1>1, <1>2, <2>2 DEF on_timeout
      <3>2. tp \in Transports /\ tp.state = "Idle"
        BY <1>4, <3>1 DEF Transports
      <3> QED BY <1>4, <2>2, <3>2 DEF Left
    <2>3. CASE a = "Nothing"
      <3>1. tp = s.tp
        BY <1>1, <1>2, <2>3 DEF on_timeout
      <3> QED BY <1>4, <2>3, <3>1
    <2> QED BY <1>1, <2>1, <2>2, <2>3
  <1>6. u \in Node
    BY <1>3, <1>4, <1>5 DEF Node
  <1>7. Calm(s, u) /\ u.failed = s.failed /\ u.frame = s.frame /\ u.pending = s.pending /\ u.tp = tp
    BY <1>3, <1>5 DEF Calm
  <1>8. Buffered(u)
    BY <1>3 DEF Good, Buffered
  <1>9. Good(u) /\ Moves(s, u, {})
    BY <1>6, <1>7, <1>8, CalmStep
  <1>10. CASE a = "Nothing"
    <2>1. t = u
      BY <1>1, <1>2, <1>3, <1>10 DEF handle_transport_timeout
    <2> QED BY <1>9, <2>1
  <1>11. CASE a = "ShouldRetransmit"
    <2>1. PICK x \in do_retransmit(u) : t = [x.s EXCEPT !.armed = TRUE]
      BY <1>1, <1>2, <1>3, <1>11 DEF handle_transport_timeout
    <2>2. Good(x.s) /\ Moves(u, x.s, {})
      <3>1. CASE u.frame = NoFrame
        BY <1>9, <2>1, <3>1 DEF do_retransmit, Done, Moves
      <3>2. CASE u.frame # NoFrame
        <4>1. x \in transmit(u, u.frame) /\ u.frame \in Frame
          BY <1>6, <2>1, <3>2 DEF do_retransmit, Node
        <4>2. Room(u)
          <5>1. /\ Cardinality(s.onair) + Left(s.tp) <= (1 + MaxRetries) * s.started
                /\ Cardinality(s.onair) \in Nat
            BY FS_CardinalityType DEF Good, Budget
          <5>2. Left(u.tp) + 1 = Left(s.tp) /\ u.onair = s.onair /\ u.started = s.started
            BY <1>5, <1>7, <1>11 DEF Calm
          <5>3. Left(u.tp) \in Nat
            BY <1>5, <1>7
          <5> QED BY <1>4, <5>1, <5>2, <5>3 DEF Room
        <4> QED BY <1>9, <4>1, <4>2, Transmitted
      <3> QED BY <3>1, <3>2
    <2>3. Good(t) /\ Moves(x.s, t, {})
      BY <2>1, <2>2, StateOnly
    <2> QED BY <1>9, <2>2, <2>3 DEF Moves
  <1>12. CASE a = "GiveUp"
    <2>1. PICK F : F = (IF s.frame = NoFrame THEN s.failed ELSE s.failed \cup {s.frame.id})
      OBVIOUS
    <2>2. PICK v : v = [u EXCEPT !.frame = NoFrame, !.state = "Idle", !.failed = F]
      OBVIOUS
    <2>3. t \in drain_pending_tx(post_app(v, TxFail))
      BY <1>1, <1>2, <1>3, <1>12, <2>1, <2>2 DEF handle_transport_timeout
    <2>4. F \in SUBSET Nat /\ F = s.failed \cup Saved(s)
      BY <1>4, <2>1 DEF Node, Frame, Saved
    <2>5. v \in Node
      BY <1>6, <2>2, <2>4 DEF Node
    <2>6. v.onair = u.onair /\ v.fcnt = u.fcnt /\ v.started = u.started /\ v.requests = u.requests
          /\ v.frame = NoFrame /\ v.pending = u.pending /\ v.tp = u.tp /\ v.failed = u.failed \cup Saved(u)
      BY <1>7, <2>2, <2>4 DEF Saved
    <2>7. Buffered(v)
      BY <1>8, <2>2 DEF Buffered
    <2>8. Calm(u, v)
      BY <1>5, <1>7, <2>6 DEF Calm
    <2>9. Saved(u) \cap Waits(u) = {} /\ Saved(u) \subseteq Seen(u)
      BY <1>9 DEF Good, Apart, Spent, Seen
    <2>10. Good(v) /\ Moves(u, v, Saved(u))
      BY <1>9, <2>5, <2>6, <2>7, <2>8, <2>9, GivenUp
    <2>11. Moves(u, v, {})
      BY <2>9, <2>10 DEF Moves
    <2>12. PICK p : p = post_app(v, TxFail) /\ Good(p) /\ Moves(v, p, {})
      BY <2>10, PostedGood DEF Posts
    <2>13. Good(t) /\ Moves(p, t, {})
      BY <2>3, <2>12, Drained
    <2> QED BY <1>9, <2>11, <2>12, <2>13 DEF Moves
  <1> QED BY <1>1, <1>10, <1>11, <1>12

-----------------------------------------------------------------------------
(* A frame comes up the layers. *)

LEMMA CutFrame ==
    ASSUME NEW f \in Frame, NEW n \in Nat
    PROVE  Cut(f, n) \in Frame
PROOF
  <1>1. PICK v \in BOOLEAN : v = (f.intact /\ f.len = n)
    OBVIOUS
  <1>2. Cut(f, n) = [f EXCEPT !.len = n, !.intact = v]
    BY <1>1 DEF Cut
  <1> QED BY <1>2 DEF Frame

LEMMA Stripped ==
    ASSUME NEW f \in Frame, NEW g, g = net_stripped(mac_stripped(f))
    PROVE  /\ g.seq = f.seq /\ g.ack = f.ack /\ g.dst = f.dst
           /\ mac_stripped(f).dst = f.dst
  BY DEF net_stripped, mac_stripped

LEMMA ReceivedWanted ==
    ASSUME NEW s, NEW f \in Frame, received(s, f)
    PROVE  Wanted(f)
PROOF
  <1>1. PICK g : g = net_stripped(mac_stripped(f))
    OBVIOUS
  <1>2. g.ack = f.ack /\ mac_stripped(f).dst = f.dst
    BY <1>1, Stripped
  <1>3. stack.mac = "lorawan" => f.intact
    BY DEF received, mac_accepts
  <1>4. stack.net = "addressed" => f.dst \in {Own, Bcast}
    BY <1>2 DEF received, network_accepts
  <1>5. stack.transport = "reliable" => ~f.ack
    BY <1>1, <1>2 DEF received, transport_accepts
  <1> QED BY <1>3, <1>4, <1>5 DEF Wanted

LEMMA Raw ==
    ASSUME NEW s, Good(s), NEW f \in Frame, NEW t, t = receive_raw(s, f)
    PROVE  Good(t) /\ Moves(s, t, {})
PROOF
  <1>1. CASE t = s
    BY <1>1 DEF Moves
  <1>2. CASE t # s
    <2>1. PICK g : g = net_stripped(mac_stripped(f))
      OBVIOUS
    <2>2. PICK tp : tp = transport_up(s.tp, g)
      OBVIOUS
    <2>3. t = [s EXCEPT !.tp = tp]
      BY <1>2, <2>1, <2>2 DEF receive_raw
    <2>4. s \in Node /\ s.tp \in Transports /\ Left(s.tp) \in Nat /\ g.seq \in Nat
      BY <2>1, Numbers, Stripped DEF Good, Node, Frame
    <2>5. tp \in Transports /\ Left(tp) \in Nat /\ Left(tp) <= Left(s.tp)
      <3>1. tp \in {s.tp, [s.tp EXCEPT !.state = "Idle"], [s.tp EXCEPT !.acked = g.seq]}
        BY <2>2 DEF transport_up, on_ack_received
      <3>2. CASE tp = s.tp
        BY <2>4, <3>2
      <3>3. CASE tp = [s.tp EXCEPT !.state = "Idle"]
        <4>1. tp \in Transports /\ tp.state = "Idle"
          BY <2>4, <3>3 DEF Transports
        <4> QED BY <2>4, <4>1 DEF Left
      <3>4. CASE tp = [s.tp EXCEPT !.acked = g.seq]
        <4>1. tp \in Transports /\ tp.state = s.tp.state /\ tp.retries = s.tp.retries
          BY <2>4, <3>4 DEF Transports
        <4> QED BY <2>4, <4>1 DEF Left
      <3> QED BY <3>1, <3>2, <3>3, <3>4
    <2>6. t \in Node
      BY <2>3, <2>4, <2>5 DEF Node
    <2>7. Calm(s, t) /\ t.failed = s.failed
      BY <2>3, <2>5 DEF Calm
    <2>8. Buffered(t)
      BY <2>3 DEF Good, Buffered
    <2> QED BY <2>6, <2>7, <2>8, CalmStep
  <1> QED BY <1>1, <1>2

LEMMA WaitEnds ==
    ASSUME NEW s, Good(s), NEW t, t = wait_ends(s)
    PROVE  Good(t) /\ Moves(s, t, {})
PROOF
  <1>1. CASE s.state # "WaitingAck"
    BY <1>1 DEF wait_ends, Moves
  <1>2. CASE s.state = "WaitingAck"
    <2>1. PICK u : u = [s EXCEPT !.frame = NoFrame, !.armed = FALSE, !.state = "Idle"]
      OBVIOUS
    <2>2. t = post_app(u, TxDone)
      BY <1>2, <2>1 DEF wait_ends
    <2>3. s \in Node
      BY DEF Good
    <2>4. u \in Node
      BY <2>1, <2>3 DEF Node
    <2>5. Calm(s, u) /\ u.failed = s.failed
      BY <2>1, <2>3, Numbers DEF Calm
    <2>6. Buffered(u)
      BY <2>1 DEF Good, Buffered
    <2>7. Good(u) /\ Moves(s, u, {})
      BY <2>4, <2>5, <2>6, CalmStep
    <2>8. Good(t) /\ Moves(u, t, {})
      BY <2>2, <2>7, PostedGood DEF Posts
    <2> QED BY <2>7, <2>8 DEF Moves
  <1> QED BY <1>1, <1>2

LEMMA Delivers ==
    ASSUME NEW s, Good(s), NEW f \in Frame, NEW t, t = deliver(s, f)
    PROVE  Good(t) /\ Moves(s, t, {})
PROOF
  <1>1. PICK r : r = receive_raw(s, f) /\ Good(r) /\ Moves(s, r, {})
    BY Raw
  <1>2. CASE received(s, f)
    <2>1. PICK w : w = wait_ends(r) /\ Good(w) /\ Moves(r, w, {})
      BY <1>1, WaitEnds
    <2>2. RxFrame(f) \in Posts
      BY <1>2, ReceivedWanted DEF RxFrame, Posts
    <2>3. t = post_app(w, RxFrame(f))
      BY <1>1, <1>2, <2>1 DEF deliver
    <2>4. Good(t) /\ Moves(w, t, {})
      BY <2>1, <2>2, <2>3, PostedGood
    <2> QED BY <1>1, <2>1, <2>4 DEF Moves
  <1>3. CASE ~received(s, f)
    BY <1>1, <1>3 DEF deliver
  <1> QED BY <1>2, <1>3

LEMMA RxEnds ==
    ASSUME stack \in Stacks, NEW s, Good(s), s.rxbuf \in Frame, NEW t \in handle_rx_done(s)
    PROVE  Good(t) /\ Moves(s, t, {})
PROOF
  <1>1. CASE t = s
    BY <1>1 DEF Moves
  <1>2. CASE t # s
    <2>1. PICK f \in read_rx(s) : t \in drain_pending_tx(rx_over(deliver(s, f)))
      <3>1. t \notin Unread(s)
        BY <1>2 DEF Unread
      <3> QED BY <3>1 DEF handle_rx_done
    <2>2. f \in Frame
      <3>1. s.rxbuf.len \in Nat
        BY DEF Frame
      <3>2. InBuffer(s) \subseteq Frame
        BY PeerAssumption DEF InBuffer
      <3> QED BY <2>1, <3>1, <3>2, CutFrame DEF read_rx
    <2>3. PICK d : d = deliver(s, f) /\ Good(d) /\ Moves(s, d, {})
      BY <2>2, Delivers
    <2>4. PICK o : o = rx_over(d) /\ Good(o) /\ Moves(d, o, {})
      <3>1. PICK o : o = rx_over(d)
        OBVIOUS
      <3>2. CASE o = [d EXCEPT !.state = "Idle"]
        BY <2>3, <3>1, <3>2, StateOnly
      <3>3. CASE o = d
        BY <2>3, <3>1, <3>3 DEF Moves
      <3> QED BY <3>1, <3>2, <3>3 DEF rx_over
    <2>5. Good(t) /\ Moves(o, t, {})
      BY <2>1, <2>3, <2>4, Drained
    <2> QED BY <2>3, <2>4, <2>5 DEF Moves
  <1> QED BY <1>1, <1>2

LEMMA RxStarts ==
    ASSUME NEW s, Good(s), NEW t \in handle_rx_start(s)
    PROVE  Good(t) /\ Moves(s, t, {})
PROOF
  <1>1. CASE t = s
    BY <1>1 DEF Moves
  <1>2. CASE t # s
    <2>1. PICK c \in configure_rx(s) : \E m \in set_mode_rx(c.s, FALSE) :
                 t = IF m.ok THEN [m.s EXCEPT !.state = "Listening"] ELSE m.s
      BY <1>2 DEF handle_rx_start
    <2>2. PICK m \in set_mode_rx(c.s, FALSE) : t = [m.s EXCEPT !.state = "Listening"] \/ t = m.s
      BY <2>1
    <2>3. Good(c.s) /\ Moves(s, c.s, {})
      BY <2>1, Configured
    <2>4. Good(m.s) /\ Moves(c.s, m.s, {})
      BY <2>2, <2>3, SetRx
    <2>5. Good(t) /\ Moves(m.s, t, {})
      <3>1. CASE t = m.s
        BY <2>4, <3>1 DEF Moves
      <3>2. CASE t = [m.s EXCEPT !.state = "Listening"]
        BY <2>4, <3>2, StateOnly
      <3> QED BY <2>2, <3>1, <3>2
    <2> QED BY <2>3, <2>4, <2>5 DEF Moves
  <1> QED BY <1>1, <1>2

\* A poll reports a packet only if one is in the buffer.
LEMMA Polls ==
    ASSUME stack \in Stacks, NEW s, Good(s), irq_pending(s), NEW p \in poll_irq(s)
    PROVE  Good(p.s) /\ Moves(s, p.s, {}) /\ (p.event = "RxDone" => p.s.rxbuf \in Frame)
PROOF
  <1>1. s \in Node /\ stack.phy \in {"sx1262", "sx1276", "null", "loopback"}
    BY StackAssumption DEF Good
  <1>2. Event(s.irq) = "RxDone" => s.rxbuf \in Frame
    BY DEF Event, Good, Buffered
  <1>3. PICK u : u = [s EXCEPT !.irq = {}]
    OBVIOUS
  <1>4. Good(u) /\ Moves(s, u, {}) /\ u.rxbuf = s.rxbuf
    <2>1. u \in Node
      BY <1>1, <1>3 DEF Node
    <2>2. Calm(s, u) /\ u.failed = s.failed /\ Buffered(u) /\ u.rxbuf = s.rxbuf
      BY <1>1, <1>3, Numbers DEF Calm, Buffered
    <2> QED BY <2>1, <2>2, CalmStep
  <1>5. Moves(s, s, {})
    BY DEF Moves
  <1>6. CASE stack.phy = "sx1262"
    <2>1. p.s = s /\ p.event \in {Event(s.irq), "None"}
      BY <1>6 DEF poll_irq, sx1262_poll_irq, Polled, Unpolled
    <2> QED BY <1>2, <1>5, <2>1
  <1>7. CASE stack.phy = "sx1276"
    <2>1. p.s \in {s, u} /\ p.event \in {Event(s.irq), "None"}
      BY <1>3, <1>7 DEF poll_irq, sx1276_poll_irq, Polled, Unpolled
    <2> QED BY <1>2, <1>4, <1>5, <2>1
  <1>8. CASE stack.phy = "null"
    <2>1. p.s = u /\ p.event = "TxDone"
      BY <1>3, <1>8 DEF poll_irq, null_poll_irq, Polled
    <2> QED BY <1>4, <2>1
  <1>9. CASE stack.phy = "loopback"
    <2>1. s.echo \in Seq(Frame) /\ s.echo # <<>>
      BY <1>1, <1>9 DEF Node, irq_pending
    <2>2. PICK h, e : h = Head(s.echo) /\ e = Tail(s.echo) /\ h \in Frame /\ e \in Seq(Frame)
      BY <2>1, HeadTailProperties
    <2>3. PICK v : v = [s EXCEPT !.rxbuf = h, !.echo = e]
      OBVIOUS
    <2>4. p.s = v
      BY <1>9, <2>2, <2>3 DEF poll_irq, loopback_poll_irq, Polled
    <2>5. v \in Node
      BY <1>1, <2>2, <2>3 DEF Node
    <2>6. Calm(s, v) /\ v.failed = s.failed
      BY <1>1, <2>3, Numbers DEF Calm
    <2>7. Buffered(v) /\ v.rxbuf \in Frame
      BY <2>2, <2>3 DEF Buffered
    <2>8. Good(v) /\ Moves(s, v, {})
      BY <2>5, <2>6, <2>7, CalmStep
    <2> QED BY <2>4, <2>7, <2>8
  <1> QED BY <1>1, <1>6, <1>7, <1>8, <1>9

-----------------------------------------------------------------------------
(* The queue of the object. *)

LEMMA IdsAreNumbers ==
    ASSUME NEW s \in Node
    PROVE  Seen(s) \subseteq Nat /\ s.requests \in Nat
PROOF
  <1>1. Saved(s) \subseteq Nat
    BY DEF Saved, Node, Frame
  <1>2. Waits(s) \subseteq Nat
    BY DEF Waits, Node, Requests
  <1>3. {f.id : f \in s.onair} \subseteq Nat
    BY DEF Node, Copies
  <1>4. s.failed \subseteq Nat /\ s.requests \in Nat
    BY DEF Node
  <1> QED BY <1>1, <1>2, <1>3, <1>4 DEF Seen, Spent

LEMMA AskedIds ==
    ASSUME NEW q \in Seq(Events), NEW i \in DOMAIN q, Asks(q[i])
    PROVE  q[i].req \in Requests /\ q[i].req.id \in Nat
PROOF
  <1>1. q[i] \in Events
    OBVIOUS
  <1>2. q[i] \in [sig : {"RF_TX_REQ"}, req : Requests]
    BY <1>1 DEF Events, Asks
  <1> QED BY <1>2 DEF Requests

LEMMA QueueStays ==
    ASSUME NEW s \in Node, NEW t \in Node, NEW q, Queued(q, s), Seen(t) \subseteq Seen(s), t.requests >= s.requests
    PROVE  Queued(q, t)
PROOF
  <1>1. s.requests \in Nat /\ t.requests \in Nat /\ Seen(s) \subseteq Nat
    BY IdsAreNumbers
  <1>2. q \in Seq(Events)
    BY DEF Queued
  <1>3. \A i \in DOMAIN q : Asks(q[i]) => q[i].req.id \in Nat
    BY <1>2, AskedIds
  <1>4. ASSUME NEW i \in DOMAIN q, Asks(q[i]) PROVE q[i].req.id \notin Seen(t) /\ q[i].req.id <= t.requests
    BY <1>1, <1>3, <1>4 DEF Queued
  <1>5. \A n \in Seen(t) : n <= t.requests
    BY <1>1 DEF Queued
  <1> QED BY <1>2, <1>4, <1>5 DEF Queued

LEMMA QueueGrows ==
    ASSUME NEW s \in Node, NEW t \in Node, NEW q, Queued(q, s), Seen(t) = Seen(s), NEW e \in Events,
           \/ ~Asks(e) /\ t.requests = s.requests
           \/ Asks(e) /\ e.req.id = s.requests + 1 /\ t.requests = s.requests + 1
    PROVE  Queued(Append(q, e), t)
PROOF
  <1>1. s.requests \in Nat /\ t.requests \in Nat /\ Seen(s) \subseteq Nat /\ s.requests <= t.requests
    BY IdsAreNumbers
  <1>2. q \in Seq(Events)
    BY DEF Queued
  <1>3. PICK u : u = Append(q, e)
    OBVIOUS
  <1>4. /\ u \in Seq(Events) /\ Len(q) \in Nat /\ Len(u) = Len(q) + 1 /\ DOMAIN u = 1 .. Len(u) /\ DOMAIN q = 1 .. Len(q)
        /\ \A i \in 1 .. Len(q) : u[i] = q[i]
        /\ u[Len(q) + 1] = e
    BY <1>2, <1>3, AppendProperties
  <1>5. \A i \in DOMAIN u : (i \in DOMAIN q /\ u[i] = q[i]) \/ (i = Len(q) + 1 /\ u[i] = e)
    BY <1>4
  <1>6. \A i \in DOMAIN q : Asks(q[i]) => q[i].req.id \in Nat
    BY <1>2, AskedIds
  <1>7. ASSUME NEW i \in DOMAIN u, Asks(u[i]) PROVE u[i].req.id \notin Seen(t) /\ u[i].req.id <= t.requests
    <2>1. CASE i \in DOMAIN q /\ u[i] = q[i]
      BY <1>1, <1>6, <1>7, <2>1 DEF Queued
    <2>2. CASE u[i] = e
      <3>1. u[i].req.id = s.requests + 1 /\ t.requests = s.requests + 1
        BY <1>7, <2>2
      <3>2. s.requests + 1 \notin Seen(s)
        BY <1>1 DEF Queued
      <3> QED BY <1>1, <3>1, <3>2
    <2> QED BY <1>5, <2>1, <2>2
  <1>8. ASSUME NEW i \in DOMAIN u, NEW j \in DOMAIN u, Asks(u[i]), Asks(u[j]), u[i].req.id = u[j].req.id
        PROVE  i = j
    <2>1. \A k \in DOMAIN q : Asks(q[k]) /\ Asks(e) => q[k].req.id # e.req.id
      BY <1>1, <1>6 DEF Queued
    <2>2. CASE i \in DOMAIN q /\ u[i] = q[i] /\ j \in DOMAIN q /\ u[j] = q[j]
      BY <1>8, <2>2 DEF Queued
    <2>3. CASE ~(i \in DOMAIN q /\ u[i] = q[i]) \/ ~(j \in DOMAIN q /\ u[j] = q[j])
      BY <1>5, <1>8, <2>1, <2>3
    <2> QED BY <2>2, <2>3
  <1>9. \A n \in Seen(t) : n <= t.requests
    BY <1>1 DEF Queued
  <1>10. Queued(u, t)
    BY <1>4, <1>7, <1>8, <1>9 DEF Queued
  <1> QED BY <1>3, <1>10

\* The head of the queue goes to the object; only its request is new to it.
LEMMA QueueServed ==
    ASSUME NEW s \in Node, NEW t \in Node, NEW q, Queued(q, s), q # <<>>, NEW I, I \subseteq Nat,
           Seen(t) \subseteq Seen(s) \cup I, t.requests = s.requests,
           \A n \in I : Asks(Head(q)) /\ n = Head(q).req.id
    PROVE  Queued(Tail(q), t)
PROOF
  <1>1. q \in Seq(Events)
    BY DEF Queued
  <1>2. PICK u : u = Tail(q)
    OBVIOUS
  <1>3. /\ u \in Seq(Events) /\ Len(u) = Len(q) - 1 /\ Len(q) \in Nat /\ Len(q) >= 1 /\ Head(q) = q[1]
        /\ DOMAIN u = 1 .. Len(u) /\ DOMAIN q = 1 .. Len(q)
        /\ \A i \in 1 .. Len(u) : u[i] = q[i + 1]
    <2>1. Len(q) \in Nat /\ Len(q) >= 1 /\ Head(q) = q[1] /\ DOMAIN q = 1 .. Len(q)
      BY <1>1
    <2> QED BY <1>1, <1>2, <2>1, HeadTailProperties
  <1>4. \A i \in DOMAIN u : i + 1 \in DOMAIN q /\ u[i] = q[i + 1] /\ i + 1 # 1
    BY <1>3
  <1>5. 1 \in DOMAIN q
    BY <1>3
  <1>6. ASSUME NEW i \in DOMAIN u, Asks(u[i]) PROVE u[i].req.id \notin Seen(t) /\ u[i].req.id <= t.requests
    <2>1. u[i].req.id \notin Seen(s) /\ u[i].req.id <= s.requests
      BY <1>4, <1>6 DEF Queued
    <2>2. ASSUME u[i].req.id \in I PROVE FALSE
      BY <1>3, <1>4, <1>5, <1>6, <2>2 DEF Queued
    <2> QED BY <2>1, <2>2
  <1>7. ASSUME NEW i \in DOMAIN u, NEW j \in DOMAIN u, Asks(u[i]), Asks(u[j]), u[i].req.id = u[j].req.id
        PROVE  i = j
    <2>1. i + 1 = j + 1
      BY <1>4, <1>7 DEF Queued
    <2>2. i \in Int /\ j \in Int
      BY <1>3
    <2> QED BY <2>1, <2>2
  <1>8. ASSUME NEW n \in Seen(t) PROVE n <= t.requests
    <2>1. CASE n \in Seen(s)
      BY <2>1 DEF Queued
    <2>2. CASE n \in I
      BY <1>3, <1>5, <2>2 DEF Queued
    <2> QED BY <2>1, <2>2
  <1>9. Queued(u, t)
    BY <1>3, <1>6, <1>7, <1>8 DEF Queued
  <1> QED BY <1>2, <1>9

-----------------------------------------------------------------------------
(* The actions.  Kept(t, q) is the invariant of the next state, and that    *)
(* the step put no frame of a failed request on the air.                    *)

Kept(t, q) ==
    /\ Good(t) /\ Queued(q, t)
    /\ \A f \in t.onair \ node.onair : f.id \notin node.failed

LEMMA PumpKeeps ==
    ASSUME RfInv, pump, NEW t, t = node'
    PROVE  Kept(t, queue) /\ queue' = queue /\ stack' = stack
PROOF
  <1>1. PICK p \in poll_irq(node) : t \in IF p.ok THEN on_phy_event(p.s, p.event) ELSE {p.s}
    BY DEF pump
  <1>2. /\ Good(p.s) /\ Moves(node, p.s, {}) /\ (p.event = "RxDone" => p.s.rxbuf \in Frame)
        /\ stack \in Stacks
    BY Polls DEF RfInv, pump
  <1>3. Good(t) /\ Moves(p.s, t, {})
    <2>1. CASE t = p.s
      BY <1>2, <2>1 DEF Moves
    <2>2. CASE t # p.s
      <3>1. t \in on_phy_event(p.s, p.event)
        BY <1>1, <2>2
      <3>2. CASE p.event = "TxDone"
        <4>1. t \in handle_tx_done(p.s)
          BY <3>1, <3>2 DEF on_phy_event
        <4> QED BY <1>2, <4>1, TxEnds
      <3>3. CASE p.event = "RxDone"
        <4>1. t \in handle_rx_done(p.s)
          BY <3>1, <3>3 DEF on_phy_event
        <4> QED BY <1>2, <3>3, <4>1, RxEnds
      <3>4. CASE p.event \in {"RxTimeout", "CrcError"}
        <4>1. t = [p.s EXCEPT !.state = "Idle"]
          BY <3>1, <3>4 DEF on_phy_event
        <4> QED BY <1>2, <4>1, StateOnly
      <3>5. CASE p.event \notin {"TxDone", "RxDone", "RxTimeout", "CrcError"}
        BY <2>2, <3>1, <3>5 DEF on_phy_event
      <3> QED BY <3>2, <3>3, <3>4, <3>5
    <2> QED BY <2>1, <2>2
  <1>4. Moves(node, t, {})
    BY <1>2, <1>3 DEF Moves
  <1>5. Queued(queue, t)
    <2>1. node \in Node /\ t \in Node /\ node.requests \in Nat
      BY <1>3, IdsAreNumbers DEF RfInv, Good
    <2>2. Seen(t) \subseteq Seen(node) /\ t.requests >= node.requests
      BY <1>4, <2>1 DEF Moves
    <2> QED BY <2>1, <2>2, QueueStays DEF RfInv
  <1> QED BY <1>3, <1>4, <1>5 DEF Kept, Moves, pump

LEMMA DispatchKeeps ==
    ASSUME RfInv, Dispatch, NEW t, t = node'
    PROVE  Kept(t, Tail(queue)) /\ queue' = Tail(queue) /\ stack' = stack
PROOF
  <1>1. /\ queue # <<>> /\ queue' = Tail(queue) /\ stack' = stack /\ t \in on_event(node, Head(queue))
        /\ stack \in Stacks /\ Good(node) /\ node \in Node
    BY DEF Dispatch, RfInv, Good
  <1>2. queue \in Seq(Events) /\ 1 \in DOMAIN queue /\ Head(queue) = queue[1] /\ Head(queue) \in Events
    BY <1>1 DEF RfInv, Queued
  <1>3. PICK e : e = Head(queue)
    OBVIOUS
  <1>4. \E I \in SUBSET Nat : /\ Good(t) /\ Moves(node, t, I)
                              /\ \A n \in I : Asks(e) /\ n = e.req.id
    <2>1. CASE Asks(e)
      <3>1. PICK r : r = e.req /\ r \in Requests /\ r.id \in Nat /\ r.id \notin Seen(node)
        BY <1>2, <1>3, <2>1, AskedIds DEF RfInv, Queued
      <3>2. t \in handle_tx_req(node, r)
        BY <1>1, <1>3, <2>1, <3>1 DEF on_event, Asks
      <3>3. Good(t) /\ Moves(node, t, {r.id})
        BY <1>1, <3>1, <3>2, TxRequest
      <3> QED BY <2>1, <3>1, <3>3
    <2>2. CASE e.sig = "RF_RX_START"
      <3>1. t \in handle_rx_start(node)
        BY <1>1, <1>3, <2>2 DEF on_event
      <3>2. Good(t) /\ Moves(node, t, {})
        BY <1>1, <3>1, RxStarts
      <3> QED BY <3>2
    <2>3. CASE e.sig = "RF_TRANSPORT_TIMEOUT"
      <3>1. t \in handle_transport_timeout(node)
        BY <1>1, <1>3, <2>3 DEF on_event
      <3>2. Good(t) /\ Moves(node, t, {})
        BY <1>1, <3>1, TimerRuns
      <3> QED BY <3>2
    <2> QED BY <1>2, <1>3, <2>1, <2>2, <2>3 DEF Events, Asks
  <1>5. PICK I \in SUBSET Nat : /\ Good(t) /\ Moves(node, t, I)
                                /\ \A n \in I : Asks(e) /\ n = e.req.id
    BY <1>4
  <1>6. Queued(Tail(queue), t)
    <2>1. t \in Node /\ Seen(t) \subseteq Seen(node) \cup I /\ t.requests = node.requests
      BY <1>5 DEF Good, Moves
    <2> QED BY <1>1, <1>3, <1>5, <2>1, QueueServed DEF RfInv
  <1> QED BY <1>1, <1>5, <1>6 DEF Kept, Moves

\* Steps that leave the traffic alone.
LEMMA AloneKeeps ==
    ASSUME RfInv, NEW t \in Node, Buffered(t), t.requests \in Nat, t.requests >= node.requests,
           t.onair = node.onair, t.fcnt = node.fcnt, t.started = node.started, t.tp = node.tp,
           t.frame = node.frame, t.pending = node.pending, t.failed = node.failed
    PROVE  Good(t) /\ Seen(t) = Seen(node) /\ Queued(queue, t)
PROOF
  <1>1. Saved(t) = Saved(node) /\ Waits(t) = Waits(node) /\ Spent(t) = Spent(node)
    BY DEF Saved, Waits, Spent
  <1>2. Budget(t) /\ Names(t) /\ Apart(t)
    BY <1>1 DEF RfInv, Good, Budget, Names, Apart
  <1>3. Seen(t) = Seen(node) /\ node \in Node /\ Queued(queue, node)
    BY <1>1 DEF Seen, RfInv, Good
  <1>4. Queued(queue, t)
    BY <1>3, QueueStays
  <1> QED BY <1>2, <1>3, <1>4 DEF Good

LEMMA TimerKeeps ==
    ASSUME RfInv, TimerExpires, NEW t, t = node', NEW q, q = queue'
    PROVE  Kept(t, q) /\ stack' = stack
PROOF
  <1>1. t = [node EXCEPT !.armed = FALSE] /\ node \in Node /\ stack' = stack
    BY DEF TimerExpires, RfInv, Good
  <1>2. PICK e : e = [sig |-> "RF_TRANSPORT_TIMEOUT"]
    OBVIOUS
  <1>3. e \in Events /\ ~Asks(e) /\ q = Append(queue, e)
    BY <1>2 DEF Events, Asks, TimerExpires
  <1>4. t \in Node
    BY <1>1 DEF Node
  <1>5. Buffered(t)
    BY <1>1 DEF RfInv, Good, Buffered
  <1>6. /\ t.requests = node.requests /\ node.requests \in Nat
        /\ t.onair = node.onair /\ t.fcnt = node.fcnt /\ t.started = node.started /\ t.tp = node.tp
        /\ t.frame = node.frame /\ t.pending = node.pending /\ t.failed = node.failed
    BY <1>1, IdsAreNumbers
  <1>7. Good(t) /\ Seen(t) = Seen(node)
    BY <1>4, <1>5, <1>6, AloneKeeps
  <1>8. Queued(q, t)
    BY <1>1, <1>3, <1>4, <1>6, <1>7, QueueGrows DEF RfInv
  <1> QED BY <1>1, <1>6, <1>7, <1>8 DEF Kept

\* The application takes a post off its queue or asks for a transmission.
LEMMA AppKeeps ==
    ASSUME RfInv, NEW t, NEW p \in Seq(Posts), NEW k \in Nat, k >= node.requests,
           t = [node EXCEPT !.posts = p, !.requests = k]
    PROVE  /\ t \in Node /\ Good(t) /\ Seen(t) = Seen(node) /\ Queued(queue, t)
           /\ t.requests = k /\ t.onair = node.onair
PROOF
  <1>1. node \in Node
    BY DEF RfInv, Good
  <1>2. t \in Node
    BY <1>1 DEF Node
  <1>3. Buffered(t)
    BY DEF RfInv, Good, Buffered
  <1>4. t.requests = k
    BY <1>1 DEF Node
  <1>5. /\ t.onair = node.onair /\ t.fcnt = node.fcnt /\ t.started = node.started /\ t.tp = node.tp
        /\ t.frame = node.frame /\ t.pending = node.pending /\ t.failed = node.failed
    OBVIOUS
  <1>6. Good(t) /\ Seen(t) = Seen(node) /\ Queued(queue, t)
    BY <1>2, <1>3, <1>4, <1>5, AloneKeeps
  <1> QED BY <1>2, <1>4, <1>5, <1>6

LEMMA AskKeeps ==
    ASSUME RfInv, NEW k \in Nat, k = node.requests + 1, NEW r \in Requests, r.id = k,
           NEW t, NEW p \in Seq(Posts), t = [node EXCEPT !.posts = p, !.requests = k],
           NEW q, q = Append(queue, [sig |-> "RF_TX_REQ", req |-> r])
    PROVE  Kept(t, q)
PROOF
  <1>1. PICK e : e = [sig |-> "RF_TX_REQ", req |-> r]
    OBVIOUS
  <1>2. e \in Events /\ Asks(e) /\ e.req = r /\ q = Append(queue, e)
    BY <1>1 DEF Events, Asks
  <1>3. node.requests \in Nat
    BY IdsAreNumbers DEF RfInv, Good
  <1>4. k >= node.requests
    BY <1>3
  <1>5. t \in Node /\ Good(t) /\ Seen(t) = Seen(node) /\ t.onair = node.onair /\ t.requests = k
    BY <1>4, AppKeeps
  <1>6. Queued(q, t)
    BY <1>2, <1>5, QueueGrows DEF RfInv, Good
  <1> QED BY <1>5, <1>6 DEF Kept

LEMMA Asked ==
    ASSUME RfInv, NEW c \in BOOLEAN, NEW n \in Nat, NEW d \in Nat, NEW m \in Nat, m = node.requests + 1
    PROVE  /\ Request(m, c, n, d) \in Requests /\ Request(m, c, n, d).id = m
           /\ node.posts \in Seq(Posts)
PROOF
  <1>1. Request(m, c, n, d) \in Requests /\ Request(m, c, n, d).id = m
    BY DEF Request, Requests
  <1>2. node.posts \in Seq(Posts)
    BY DEF RfInv, Good, Node
  <1> QED BY <1>1, <1>2

\* The next number of a request.
LEMMA NextNumber ==
    ASSUME RfInv
    PROVE  \E m \in Nat : m = node.requests + 1
PROOF
  <1>1. node.requests \in Nat
    BY IdsAreNumbers DEF RfInv, Good
  <1> QED BY <1>1

\* A request that leaves the posts alone: SenderRequest, start_announce.
LEMMA RequestKeeps ==
    ASSUME RfInv, NEW c \in BOOLEAN, NEW n \in Nat, NEW d \in Nat, post_tx(c, n, d),
           NEW t, t = node', NEW q, q = queue', node' = [node EXCEPT !.requests = @ + 1]
    PROVE  Kept(t, q)
PROOF
  <1>1. PICK m \in Nat : m = node.requests + 1
    BY NextNumber
  <1>2. PICK r : r = Request(m, c, n, d) /\ r \in Requests /\ r.id = m
    BY <1>1, Asked
  <1>3. q = Append(queue, [sig |-> "RF_TX_REQ", req |-> r])
    BY <1>1, <1>2 DEF post_tx
  <1>4. PICK p \in Seq(Posts) : p = node.posts
    BY <1>1, Asked DEF RfInv, Good, Node
  <1>5. t = [node EXCEPT !.posts = p, !.requests = m]
    BY <1>1, <1>4 DEF RfInv, Good, Node
  <1> QED BY <1>1, <1>2, <1>3, <1>5, AskKeeps

\* A request of the object that takes a post: on_tx_done.
LEMMA ReplyKeeps ==
    ASSUME RfInv, NEW c \in BOOLEAN, NEW n \in Nat, NEW d \in Nat, post_tx(c, n, d),
           NEW t, t = node', NEW q, q = queue', node.posts # <<>>, node' = Taken(1)
    PROVE  Kept(t, q)
PROOF
  <1>1. PICK m \in Nat : m = node.requests + 1
    BY NextNumber
  <1>2. PICK r : r = Request(m, c, n, d) /\ r \in Requests /\ r.id = m /\ node.posts \in Seq(Posts)
    BY <1>1, Asked
  <1>3. q = Append(queue, [sig |-> "RF_TX_REQ", req |-> r])
    BY <1>1, <1>2 DEF post_tx
  <1>4. PICK p \in Seq(Posts) : p = Tail(node.posts)
    BY <1>2, HeadTailProperties
  <1>5. t = [node EXCEPT !.posts = p, !.requests = m]
    BY <1>1, <1>4 DEF Taken
  <1> QED BY <1>1, <1>2, <1>3, <1>5, AskKeeps

LEMMA TakenKeeps ==
    ASSUME RfInv, node.posts # <<>>, NEW t, t = Taken(0)
    PROVE  Kept(t, queue)
PROOF
  <1>1. node.requests \in Nat /\ node.posts \in Seq(Posts)
    BY IdsAreNumbers DEF RfInv, Good, Node
  <1>2. PICK k \in Nat : k = node.requests /\ node.requests + 0 = k
    BY <1>1
  <1>3. PICK p \in Seq(Posts) : p = Tail(node.posts)
    BY <1>1, HeadTailProperties
  <1>4. t = [node EXCEPT !.posts = p, !.requests = k]
    BY <1>2, <1>3 DEF Taken
  <1>5. k >= node.requests
    BY <1>2
  <1> QED BY <1>4, <1>5, AppKeeps DEF Kept

LEMMA SameKeeps ==
    ASSUME RfInv, NEW e \in Events, ~Asks(e)
    PROVE  Kept(node, Append(queue, e)) /\ Kept(node, queue)
PROOF
  <1>1. node \in Node /\ Good(node) /\ Queued(queue, node)
    BY DEF RfInv, Good
  <1>2. Queued(Append(queue, e), node)
    BY <1>1, QueueGrows
  <1> QED BY <1>1, <1>2 DEF Kept

LEMMA AirKeeps ==
    ASSUME RfInv, Air, NEW t, t = node'
    PROVE  Kept(t, queue)
PROOF
  <1>1. node \in Node /\ node.requests \in Nat
    BY IdsAreNumbers DEF RfInv, Good
  <1>2. ASSUME t \in Node, Buffered(t), t.requests = node.requests,
               t.onair = node.onair, t.fcnt = node.fcnt, t.started = node.started, t.tp = node.tp,
               t.frame = node.frame, t.pending = node.pending, t.failed = node.failed
        PROVE  Kept(t, queue)
    BY <1>1, <1>2, AloneKeeps DEF Kept
  <1>3. CASE t = tx_finishes(node)
    <2>1. PICK x : x = node.irq \cup {"TxDone"}
      OBVIOUS
    <2>2. t = [node EXCEPT !.mode = "standby", !.irq = x]
      BY <1>3, <2>1 DEF tx_finishes
    <2>3. x \in SUBSET {"TxDone", "RxDone", "RxTimeout", "CrcError", "PreambleDetected"}
      BY <1>1, <2>1 DEF Node
    <2>4. t \in Node
      BY <1>1, <2>2, <2>3 DEF Node
    <2>5. t.irq = x /\ t.rxbuf = node.rxbuf
      BY <1>1, <2>2 DEF Node
    <2>6. Buffered(t)
      BY <2>1, <2>5 DEF Buffered, RfInv, Good
    <2> QED BY <1>2, <2>2, <2>4, <2>6
  <1>4. ASSUME NEW f \in PeerFrames, t = packet_arrives(node, f) PROVE Kept(t, queue)
    <2>1. PICK x : x = node.irq \cup {"RxDone"} \cup (IF f.intact THEN {} ELSE {"CrcError"})
      OBVIOUS
    <2>2. PICK m \in {"standby", "rx"} : m = AfterRx(node)
      BY DEF AfterRx
    <2>3. PICK u : u = [node EXCEPT !.mode = m, !.rxbuf = f]
      OBVIOUS
    <2>4. f \in Frame
      BY PeerAssumption
    <2>5. u \in Node
      BY <1>1, <2>2, <2>3, <2>4 DEF Node
    <2>6. t = [u EXCEPT !.irq = x]
      BY <1>1, <1>4, <2>1, <2>2, <2>3 DEF packet_arrives, Node
    <2>7. x \in SUBSET {"TxDone", "RxDone", "RxTimeout", "CrcError", "PreambleDetected"}
      BY <1>1, <2>1 DEF Node
    <2>8. t \in Node
      BY <2>5, <2>6, <2>7 DEF Node
    <2>9. t.rxbuf = f
      BY <1>1, <2>3, <2>5, <2>6 DEF Node
    <2>10. Buffered(t)
      BY <2>4, <2>9 DEF Buffered
    <2>11. /\ t.requests = node.requests
           /\ t.onair = node.onair /\ t.fcnt = node.fcnt /\ t.started = node.started /\ t.tp = node.tp
           /\ t.frame = node.frame /\ t.pending = node.pending /\ t.failed = node.failed
      BY <2>3, <2>6
    <2> QED BY <1>2, <2>8, <2>10, <2>11
  <1>5. CASE t = preamble_detected(node)
    <2>1. PICK x : x = node.irq \cup {"PreambleDetected"}
      OBVIOUS
    <2>2. t = [node EXCEPT !.irq = x]
      BY <1>5, <2>1 DEF preamble_detected
    <2>3. x \in SUBSET {"TxDone", "RxDone", "RxTimeout", "CrcError", "PreambleDetected"}
      BY <1>1, <2>1 DEF Node
    <2>4. t \in Node
      BY <1>1, <2>2, <2>3 DEF Node
    <2>5. t.irq = x /\ t.rxbuf = node.rxbuf
      BY <1>1, <2>2 DEF Node
    <2>6. Buffered(t)
      BY <2>1, <2>5 DEF Buffered, RfInv, Good
    <2> QED BY <1>2, <2>2, <2>4, <2>6
  <1>6. CASE t = window_ends(node)
    <2>1. PICK x : x = node.irq \cup {"RxTimeout"}
      OBVIOUS
    <2>2. t = [node EXCEPT !.mode = "standby", !.irq = x]
      BY <1>6, <2>1 DEF window_ends
    <2>3. x \in SUBSET {"TxDone", "RxDone", "RxTimeout", "CrcError", "PreambleDetected"}
      BY <1>1, <2>1 DEF Node
    <2>4. t \in Node
      BY <1>1, <2>2, <2>3 DEF Node
    <2>5. t.irq = x /\ t.rxbuf = node.rxbuf
      BY <1>1, <2>2 DEF Node
    <2>6. Buffered(t)
      BY <2>1, <2>5 DEF Buffered, RfInv, Good
    <2> QED BY <1>2, <2>2, <2>4, <2>6
  <1>7. ASSUME NEW f \in PeerFrames, t = [node EXCEPT !.echo = Append(@, f)] PROVE Kept(t, queue)
    <2>1. f \in Frame /\ node.echo \in Seq(Frame)
      BY <1>1, PeerAssumption DEF Node
    <2>2. PICK z \in Seq(Frame) : z = Append(node.echo, f)
      BY <2>1, AppendProperties
    <2>3. t = [node EXCEPT !.echo = z]
      BY <1>7, <2>2
    <2>4. t \in Node
      BY <1>1, <2>2, <2>3 DEF Node
    <2>5. Buffered(t)
      BY <2>3 DEF Buffered, RfInv, Good
    <2> QED BY <1>2, <2>3, <2>4, <2>5
  <1> QED BY <1>3, <1>4, <1>5, <1>6, <1>7 DEF Air

-----------------------------------------------------------------------------
(* The invariant of the module *)

\* The predicates of the invariant depend on the node, the queue and the stack only.
LEMMA Bridge ==
    ASSUME RfInv, stack' = stack, NEW t, t = node', NEW q, q = queue', Kept(t, q)
    PROVE  RfInv'
PROOF
  <1>1. Good(node)'
    BY DEF Kept, Good, Node, Posts, Wanted, TxDone, TxFail, Budget, Names, Apart, Buffered, Left, Saved,
           Waits, Spent, Transports, Requests, Copies, Frame
  <1>2. Queued(queue, node)'
    BY DEF Kept, Queued, Seen, Spent, Saved, Waits, Asks
  <1> QED BY <1>1, <1>2 DEF RfInv

LEMMA RfInvInit ==
    Init => RfInv
PROOF
  <1> SUFFICES ASSUME Init PROVE RfInv
    OBVIOUS
  <1>1. node = NewNode /\ queue = <<>> /\ stack \in Stacks
    BY DEF Init
  <1>2. /\ node.state = "Idle" /\ node.pending = None /\ node.frame = NoFrame /\ node.tp = NewTransport
        /\ node.fcnt = 0 /\ node.requests = 0 /\ node.started = 0 /\ node.onair = {} /\ node.failed = {}
        /\ node.irq = {}
    BY <1>1 DEF NewNode, NewPhy
  <1>3. NewTransport \in Transports /\ Bcast \in Nat /\ <<>> \in Seq(Posts) /\ <<>> \in Seq(Frame)
    BY MaxRetriesAssumption, StackAssumption DEF NewTransport, Transports
  <1>4. node \in Node
    BY <1>1, <1>3 DEF NewNode, NewPhy, Node
  <1>5. Budget(node)
    <2>1. IsFiniteSet({}) /\ Cardinality({}) = 0
      BY FS_EmptySet
    <2>2. Left(node.tp) = 0
      BY <1>2 DEF Left, NewTransport
    <2>3. (1 + MaxRetries) * 0 = 0
      BY MaxRetriesAssumption
    <2> QED BY <1>2, <2>1, <2>2, <2>3 DEF Budget
  <1>6. Seen(node) = {}
    BY <1>2 DEF Seen, Spent, Saved, Waits
  <1>7. Names(node) /\ Apart(node) /\ Buffered(node)
    BY <1>2 DEF Names, Apart, Buffered, Saved, Waits
  <1>8. Queued(queue, node)
    BY <1>1, <1>6 DEF Queued
  <1> QED BY <1>1, <1>4, <1>5, <1>7, <1>8 DEF RfInv, Good

\* Every step keeps the invariant and puts no failed request on the air.
LEMMA StepKeeps ==
    ASSUME RfInv, [Next]_vars
    PROVE  RfInv' /\ \A f \in node'.onair \ node.onair : f.id \notin node.failed
PROOF
  <1>1. PICK t, q : t = node' /\ q = queue'
    OBVIOUS
  <1>2. Kept(t, q) /\ stack' = stack
    <2>1. CASE Dispatch
      BY <1>1, <2>1, DispatchKeeps
    <2>2. CASE pump
      BY <1>1, <2>2, PumpKeeps
    <2>3. CASE TimerExpires
      BY <1>1, <2>3, TimerKeeps
    <2>4. CASE SenderRequest
      <3>1. PICK c \in BOOLEAN, n \in Lens, d \in Dsts : post_tx(c, n, d)
        BY <2>4 DEF SenderRequest
      <3>2. n \in Nat /\ d \in Nat /\ node' = [node EXCEPT !.requests = @ + 1] /\ stack' = stack
        BY <2>4, RequestAssumption DEF SenderRequest
      <3> QED BY <1>1, <3>1, <3>2, RequestKeeps
    <2>5. CASE ReceiveStart
      <3>1. PICK e : e = [sig |-> "RF_RX_START"]
        OBVIOUS
      <3>2. e \in Events /\ ~Asks(e) /\ q = Append(queue, e) /\ t = node /\ stack' = stack
        BY <1>1, <2>5, <3>1 DEF Events, Asks, ReceiveStart
      <3> QED BY <3>2, SameKeeps
    <2>6. CASE start_announce
      <3>1. post_tx(FALSE, 5, Bcast) /\ node' = [node EXCEPT !.requests = @ + 1] /\ stack' = stack
        BY <2>6 DEF start_announce
      <3> QED BY <1>1, <3>1, StackAssumption, RequestKeeps
    <2>7. CASE on_tx_done
      <3>1. node.posts # <<>> /\ stack' = stack
        BY <2>7 DEF on_tx_done, AppTakes
      <3>2. CASE node' = Taken(0) /\ queue' = queue
        BY <1>1, <3>1, <3>2, TakenKeeps
      <3>3. CASE post_tx(TRUE, 9, Bcast) /\ node' = Taken(1)
        BY <1>1, <3>1, <3>3, StackAssumption, ReplyKeeps
      <3>4. CASE post_tx(TRUE, 209, Bcast) /\ node' = Taken(1)
        BY <1>1, <3>1, <3>4, StackAssumption, ReplyKeeps
      <3> QED BY <2>7, <3>1, <3>2, <3>3, <3>4 DEF on_tx_done
    <2>8. CASE on_tx_fail
      BY <1>1, <2>8, TakenKeeps DEF on_tx_fail, AppTakes
    <2>9. CASE AppNotes
      BY <1>1, <2>9, TakenKeeps DEF AppNotes
    <2>10. CASE Air
      BY <1>1, <2>10, AirKeeps DEF Air
    <2>11. CASE UNCHANGED vars
      <3>1. PICK e : e = [sig |-> "RF_RX_START"]
        OBVIOUS
      <3>2. e \in Events /\ ~Asks(e) /\ q = queue /\ t = node /\ stack' = stack
        BY <1>1, <2>11, <3>1 DEF Events, Asks, vars
      <3> QED BY <3>2, SameKeeps
    <2> QED BY <2>1, <2>2, <2>3, <2>4, <2>5, <2>6, <2>7, <2>8, <2>9, <2>10, <2>11 DEF Next
  <1>3. RfInv'
    BY <1>1, <1>2, Bridge
  <1>4. \A f \in node'.onair \ node.onair : f.id \notin node.failed
    BY <1>1, <1>2 DEF Kept
  <1> QED BY <1>3, <1>4

\* The invariant holds of every composition of layers and radio.
THEOREM RfInvHolds ==
    Spec => []RfInv
PROOF
  <1>1. RfInv /\ [Next]_vars => RfInv'
    BY StepKeeps
  <1> QED BY <1>1, RfInvInit, PTL DEF Spec

(* However its timer, its radio's reports and its requests interleave, the  *)
(* stack puts no more than 1 + max_retries frames on the air for a request: *)
(* ReliableTransport::on_timeout pays for every do_retransmit with a retry  *)
(* that transport_down granted.                                             *)
THEOREM TransmissionsBounded ==
    Spec => []AirBudget
PROOF
  <1>1. RfInv => AirBudget
    <2> SUFFICES ASSUME RfInv PROVE AirBudget
      OBVIOUS
    <2>1. Cardinality(node.onair) \in Nat /\ Left(node.tp) \in Nat /\ (1 + MaxRetries) * node.started \in Nat
      BY FS_CardinalityType, Numbers DEF RfInv, Good, Budget
    <2> QED BY <2>1 DEF RfInv, Good, Budget, AirBudget
  <1> QED BY <1>1, RfInvHolds, PTL

(* Under LorawanMac the uplink counter of a frame on the air is that of no  *)
(* other request, and do_retransmit repeats it: a keystream is never used   *)
(* for two payloads.                                                        *)
THEOREM CounterNamesFrame ==
    Spec => []FcntNamesFrame
PROOF
  <1>1. RfInv => FcntNamesFrame
    BY DEF RfInv, Good, Names, FcntNamesFrame
  <1> QED BY <1>1, RfInvHolds, PTL

(* What handle_rx_done posts to the application passed the MAC, the network *)
(* and the transport of this stack, whatever arrived while it was read.     *)
THEOREM OnlyWantedFrames ==
    Spec => []DeliveredWasSent
PROOF
  <1>1. RfInv => DeliveredWasSent
    <2> SUFFICES ASSUME RfInv, NEW i \in DOMAIN node.posts, node.posts[i].sig = "RF_RX_FRAME"
                 PROVE  Wanted(node.posts[i].frame)
      BY DEF DeliveredWasSent, Wanted
    <2>1. node.posts \in Seq(Posts)
      BY DEF RfInv, Good, Node
    <2>2. node.posts[i] \in Posts
      BY <2>1
    <2>3. node.posts[i] \in [sig : {"RF_RX_FRAME"}, frame : {f \in Frame : Wanted(f)}]
      BY <2>2 DEF Posts, TxDone, TxFail
    <2> QED BY <2>3
  <1> QED BY <1>1, RfInvHolds, PTL

(* Once RF_TX_FAIL was posted for a request, no step puts it on the air:    *)
(* start_tx and handle_transport_timeout drop the frame they give up, and   *)
(* neither a stale timer nor drain_pending_tx brings it back.               *)
THEOREM FailuresAreFinal ==
    Spec => FailIsFinal
PROOF
  <1>1. RfInv /\ [Next]_vars => [\A f \in node'.onair \ node.onair : f.id \notin node.failed]_vars
    BY StepKeeps
  <1> QED BY <1>1, RfInvHolds, PTL DEF Spec, FailIsFinal
=============================================================================
