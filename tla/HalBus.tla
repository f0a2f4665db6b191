------------------------------ MODULE HalBus ------------------------------
(***************************************************************************)
(* The register-level bus drivers of the hardware abstraction: the SPI and *)
(* UART drivers of the ESP32 chips, STM32F4, GD32VF and LPC17, and the I2C *)
(* master of STM32F4.  A driver call is a loop of steps; between two of    *)
(* them the peripheral (external) moves bytes on its own.                  *)
(*                                                                         *)
(* The caller's byte i is i, the i-th byte of the other side is 100 + i.   *)
(***************************************************************************)
EXTENDS Integers, Sequences

CONSTANTS
    Chunk,      \* bytes of the w registers of an ESP SPI controller (64)
    Word,       \* bytes of one of them (4)
    Fifo,       \* bytes of the transmit FIFO of an ESP UART (128)
    RxFifo,     \* bytes of a receive FIFO
    Lengths,    \* lengths of the callers' buffers
    Segments,   \* lengths of I2C segments
    MaxCalls,   \* calls of a behaviour
    MaxArrivals \* bytes that arrive at a UART

ASSUME HalSizes ==
    /\ Chunk \in Nat \ {0} /\ Word \in Nat \ {0} /\ Chunk % Word = 0
    /\ Fifo \in Nat \ {0} /\ RxFifo \in Nat \ {0}
    /\ Lengths \subseteq Nat /\ Segments \subseteq Nat /\ MaxCalls \in Nat /\ MaxArrivals \in Nat

VARIABLES
    calls,      \* driver calls made
    spi,        \* an SPI driver, its registers and its wire
    uart,       \* a UART driver, its FIFOs and its line
    i2c         \* the I2C master, its flags and its device

halVars == <<calls, spi, uart, i2c>>

Payload(n) == [i \in 1..n |-> i]
Answers(n) == [i \in 1..n |-> 100 + i]
Blank(n) == [i \in 1..n |-> 0]
Smaller(a, b) == IF a < b THEN a ELSE b

---------------------------------------------------------------------------
(* SPI: "write" takes tx, "read" fills rx, "transfer" does both, and       *)
(* "in_place" does both in one buffer                                      *)

\* configure picks the clock and the mode and leaves the registers and the wire alone.
SpiIdle(chip) ==
    [chip |-> chip, op |-> "write", total |-> 0, offset |-> 0, tx |-> <<>>, rx |-> <<>>,
     w |-> Blank(Chunk), wire |-> <<>>]

\* transfer moves what both buffers have room for.
SpiCall(op, n, room) ==
    /\ spi.offset = spi.total
    /\ calls < MaxCalls /\ calls' = calls + 1
    /\ spi' = [spi EXCEPT !.op = op, !.offset = 0, !.wire = <<>>,
                          !.total = IF op = "transfer" THEN Smaller(n, room) ELSE n,
                          !.tx = IF op = "read" THEN <<>> ELSE Payload(n),
                          !.rx = CASE op = "in_place" -> Payload(n)
                                   [] op = "transfer" -> Blank(room)
                                   [] op = "read" -> Blank(n)
                                   [] op = "write" -> <<>>]
    /\ UNCHANGED <<uart, i2c>>

\* The controller clocks n bytes out of the w registers, and, when it reads, n bytes in.
Clocked(w, n, reads) ==
    [i \in 1..Chunk |-> IF reads /\ i <= n THEN 100 + spi.offset + i ELSE w[i]]

\* How many words hold n bytes.
EspWords(n) == (n + Word - 1) \div Word

\* One round of the loop: load the words that hold the next bytes (the rest of the last
\* word is zero), run the controller, take the bytes it read out of the words.
EspRound ==
    LET n == Smaller(spi.total - spi.offset, Chunk)
        loaded == [i \in 1..Chunk |->
                      IF spi.op = "read" \/ i > EspWords(n) * Word THEN spi.w[i]
                      ELSE IF i <= n THEN spi.tx[spi.offset + i] ELSE 0]
        w == Clocked(loaded, n, spi.op # "write")
        hi == spi.offset + n
    IN  [spi EXCEPT !.offset = hi, !.w = w,
                    !.wire = @ \o [i \in 1..n |-> IF spi.op = "read" THEN 0 ELSE loaded[i]],
                    !.rx = [i \in DOMAIN @ |->
                               IF /\ spi.op # "write" /\ spi.offset < i /\ i <= hi
                                  /\ i - spi.offset <= EspWords(n) * Word
                               THEN w[i - spi.offset] ELSE @[i]]]

\* One byte out (0xFF when there is none to send), one byte in (dropped by write).
WordRound ==
    LET k == spi.offset + 1
    IN  [spi EXCEPT !.offset = k,
                    !.wire = Append(@, IF spi.op = "read" THEN 255 ELSE spi.tx[k]),
                    !.rx = [i \in DOMAIN @ |-> IF spi.op # "write" /\ i = k THEN 100 + k ELSE @[i]]]

\* The drivers of the chips.
Esp32C6Spi == spi.chip = "esp32c6" /\ spi' = EspRound
Esp32C3Spi == spi.chip = "esp32c3" /\ spi' = EspRound
Esp32S3Spi == spi.chip = "esp32s3" /\ spi' = EspRound
Esp32S2Spi == spi.chip = "esp32s2" /\ spi' = EspRound
Esp32Spi == spi.chip = "esp32" /\ spi' = EspRound
Stm32F4Spi == spi.chip = "stm32f4" /\ spi' = WordRound
Gd32VfSpi == spi.chip = "gd32vf" /\ spi' = WordRound
Lpc17Spi == spi.chip = "lpc17" /\ spi' = WordRound

SpiStep ==
    /\ spi.offset < spi.total
    /\ \/ Esp32C6Spi \/ Esp32C3Spi \/ Esp32S3Spi \/ Esp32S2Spi \/ Esp32Spi
       \/ Stm32F4Spi \/ Gd32VfSpi \/ Lpc17Spi
    /\ UNCHANGED <<calls, uart, i2c>>

---------------------------------------------------------------------------
(* UART: the transmit FIFO holds what was written and not shifted out yet, *)
(* the receive FIFO what arrived and was not read yet                      *)

\* configure resets both FIFOs of the ESP chips and of LPC17.
UartIdle(chip) ==
    [chip |-> chip, op |-> "none", len |-> 0, count |-> 0, given |-> 0, txfifo |-> <<>>,
     line |-> <<>>, arrived |-> 0, rxfifo |-> <<>>, got |-> <<>>, lost |-> {}]

\* The FIFO behind the data register: an ESP chip counts its bytes, STM32F4 and GD32VF have
\* a register of one byte, LPC17 has a FIFO and tells only when it is empty.
TxSize(chip) == IF chip \in {"stm32f4", "gd32vf"} THEN 1 ELSE Fifo

Esp32C6Room == uart.chip = "esp32c6" /\ Len(uart.txfifo) < Fifo
Esp32C3Room == uart.chip = "esp32c3" /\ Len(uart.txfifo) < Fifo
Esp32S3Room == uart.chip = "esp32s3" /\ Len(uart.txfifo) < Fifo
Esp32S2Room == uart.chip = "esp32s2" /\ Len(uart.txfifo) < Fifo
Esp32Room == uart.chip = "esp32" /\ Len(uart.txfifo) < Fifo
Stm32F4Room == uart.chip = "stm32f4" /\ uart.txfifo = <<>>
Gd32VfRoom == uart.chip = "gd32vf" /\ uart.txfifo = <<>>
Lpc17Room == uart.chip = "lpc17" /\ uart.txfifo = <<>>

Room ==
    \/ Esp32C6Room \/ Esp32C3Room \/ Esp32S3Room \/ Esp32S2Room \/ Esp32Room
    \/ Stm32F4Room \/ Gd32VfRoom \/ Lpc17Room

UartCall(op, n) ==
    /\ uart.op = "none"
    /\ calls < MaxCalls /\ calls' = calls + 1
    /\ uart' = [uart EXCEPT !.op = op, !.len = n, !.count = 0]
    /\ UNCHANGED <<spi, i2c>>

\* A byte written to a FIFO that is full is lost.
UartPut ==
    /\ uart.op = "write" /\ uart.count < uart.len
    /\ Room
    /\ uart' = [uart EXCEPT !.count = @ + 1, !.given = @ + 1,
                            !.txfifo = IF Len(@) < TxSize(uart.chip)
                                       THEN Append(@, uart.given + 1) ELSE @]

\* flush waits until nothing is left to shift out.
UartDone ==
    /\ \/ uart.op = "write" /\ uart.count = uart.len
       \/ uart.op = "flush" /\ uart.txfifo = <<>>
       \/ uart.op = "read" /\ uart.len = 0
       \/ uart.op = "read" /\ uart.count > 0 /\ (uart.count = uart.len \/ uart.rxfifo = <<>>)
    /\ uart' = [uart EXCEPT !.op = "none"]

\* read waits for a byte, then takes the ones there are.
UartGet ==
    /\ uart.op = "read" /\ uart.count < uart.len
    /\ uart.rxfifo # <<>>
    /\ uart' = [uart EXCEPT !.count = @ + 1, !.rxfifo = Tail(@), !.got = Append(@, Head(uart.rxfifo))]

\* The peripheral shifts a byte out, or one in: a byte that finds the FIFO full is lost.
UartShift ==
    \/ /\ uart.txfifo # <<>>
       /\ uart' = [uart EXCEPT !.txfifo = Tail(@), !.line = Append(@, Head(uart.txfifo))]
    \/ /\ uart.arrived < MaxArrivals
       /\ LET b == 100 + uart.arrived + 1
          IN  uart' = IF Len(uart.rxfifo) < RxFifo
                      THEN [uart EXCEPT !.arrived = @ + 1, !.rxfifo = Append(@, b)]
                      ELSE [uart EXCEPT !.arrived = @ + 1, !.lost = @ \cup {b}]

UartStep ==
    /\ uart.chip # "none"
    /\ UartPut \/ UartGet \/ UartDone \/ UartShift
    /\ UNCHANGED <<calls, spi, i2c>>

---------------------------------------------------------------------------
(* I2C: a call is a list of segments, each with its direction and length.  *)
(* The driver sets START, STOP and ACK and waits for flags; what they mean *)
(* is the state of the peripheral: SB when the bus is "started" and waits  *)
(* for an address, ADDR when the address is "answered", TXE and BTF when   *)
(* the master sends ("W") and the data register has room or nothing is     *)
(* left, RXNE when a byte waits in rx.  The bus is "idle" outside a        *)
(* transfer and "dead" after a fault.                                      *)

W(n) == [dir |-> "W", len |-> n]
R(n) == [dir |-> "R", len |-> n]

\* A byte of the device carries the call and the segment it answers and its place.
Read(of, n) == [i \in 1..n |-> <<of, i>>]

I2cIdle(chip) ==
    [chip |-> chip, call |-> "none", no |-> 0, segs |-> <<>>, seg |-> 0, phase |-> "none", i |-> 0,
     result |-> "none", start |-> FALSE, stop |-> FALSE, bus |-> "idle", errs |-> {}, flight |-> <<>>,
     rx |-> <<>>, ack |-> TRUE, acked |-> TRUE, from |-> <<0, 0>>, sent |-> 0, device |-> <<>>, got |-> <<>>]

I2cCall(call, segs) ==
    /\ i2c.phase = "none"
    /\ calls < MaxCalls /\ calls' = calls + 1
    /\ i2c' = [i2c EXCEPT !.call = call, !.no = @ + 1, !.segs = segs, !.seg = 1, !.i = 0,
                          !.result = "none", !.phase = "start", !.got = <<>>]
    /\ UNCHANGED <<spi, uart>>

i2c_write(n) == I2cCall("write", <<W(n)>>)
i2c_read(n) == I2cCall("read", <<R(n)>>)
i2c_write_read(n, m) == I2cCall("write_read", <<W(n), R(m)>>)
i2c_transaction(segs) == I2cCall("transaction", segs)

Seg == i2c.segs[i2c.seg]

check_errors ==
    IF "AF" \in i2c.errs THEN "HardwareError"
    ELSE IF "ARLO" \in i2c.errs THEN "Busy" ELSE "HardwareError"

\* Every wait reads the flag it waits for first, and the error flags when it is not there;
\* an error ends the call, with the bus and the flags as they are.
I2cWait(there, goOn) ==
    \/ there /\ i2c' = goOn
    \/ ~there /\ i2c.errs # {} /\ i2c' = [i2c EXCEPT !.phase = "none", !.result = check_errors]

\* SB may stand already, from a START that an earlier call asked for and did not wait for.
i2c_start ==
    \/ i2c.phase = "start" /\ i2c' = [i2c EXCEPT !.phase = "started", !.start = TRUE]
    \/ i2c.phase = "started" /\ I2cWait(i2c.bus = "started", [i2c EXCEPT !.phase = "addr"])

\* The address goes to the data register, over what was left there.  Data follows when ADDR
\* is cleared, unless another START is still to come.
send_addr ==
    \/ /\ i2c.phase = "addr"
       /\ i2c' = [i2c EXCEPT !.phase = "addressed", !.flight = <<>>, !.rx = <<>>,
                             !.bus = IF @ = "started" THEN "addr" ELSE @]
    \/ /\ i2c.phase = "addressed"
       /\ I2cWait(i2c.bus = "answered", [i2c EXCEPT !.phase = "data",
                                                    !.bus = IF i2c.start THEN @ ELSE Seg.dir])

i2c_stop(state) == [state EXCEPT !.stop = TRUE]

\* A byte goes to the data register when that is empty (TXE); behind it is the byte that is
\* being shifted out.
I2cPut ==
    /\ i2c.phase = "data" /\ Seg.dir = "W" /\ i2c.i < Seg.len
    /\ I2cWait(i2c.bus = "W" /\ Len(i2c.flight) < 2,
               [i2c EXCEPT !.i = @ + 1, !.flight = Append(@, i2c.i + 1)])

\* The last byte of a read is announced: ACK off and, unless it is part of a transaction,
\* STOP.  What is read is what the data register holds.
I2cGet ==
    /\ i2c.phase \in {"data", "last"} /\ Seg.dir = "R" /\ i2c.i < Seg.len
    /\ \/ /\ i2c.phase = "data" /\ i2c.i = Seg.len - 1
          /\ LET quiet == [i2c EXCEPT !.phase = "last", !.ack = FALSE]
             IN  i2c' = IF i2c.call = "transaction" THEN quiet ELSE i2c_stop(quiet)
       \/ /\ IF i2c.i = Seg.len - 1 THEN i2c.phase = "last" ELSE i2c.phase = "data"
          /\ I2cWait(i2c.rx # <<>>, [i2c EXCEPT !.phase = "data", !.i = @ + 1, !.rx = Tail(@),
                                                !.got = Append(@, Head(i2c.rx))])

\* BTF: nothing left to shift out, or both registers full of received bytes.
BTF == (i2c.bus = "W" /\ i2c.flight = <<>>) \/ (i2c.bus = "R" /\ Len(i2c.rx) = 2)

\* The end of a segment: a write waits for BTF (which a write of nothing may or may not
\* see), a read switches ACK on again.
EndOfData_unchecked(goOn) == i2c' = goOn

EndOfData(goOn) ==
    IF Seg.dir = "W" THEN I2cWait(BTF, goOn) \/ (i2c.i = 0 /\ I2cWait(FALSE, goOn))
    ELSE i2c' = [goOn EXCEPT !.ack = TRUE]

\* Then the next segment, with a START when it is a read (a write goes on without one), or
\* the end of the call, with a STOP when that belongs to the last byte of a read: a read of
\* nothing has none.
I2cEndSegment ==
    /\ i2c.phase = "data" /\ i2c.i = Seg.len
    /\ IF i2c.seg < Len(i2c.segs)
       THEN EndOfData([i2c EXCEPT !.seg = @ + 1, !.i = 0,
                                  !.phase = IF i2c.segs[i2c.seg + 1].dir = "R" THEN "start" ELSE "data"])
       ELSE LET ended == [i2c EXCEPT !.phase = "none", !.result = "Ok"]
            IN  EndOfData(IF i2c.call \in {"read", "write_read"} THEN ended ELSE i2c_stop(ended))

\* A byte is on its way to the master: the first one after the address, and one behind every
\* byte that was acknowledged, wanted or not, until the data and the shift register are full.
Arriving == i2c.bus = "R" /\ (i2c.sent = 0 \/ i2c.acked) /\ Len(i2c.rx) < 2

\* The peripheral and the device: START is generated, before or behind a STOP that is still
\* to come; the address is answered; the device takes a byte; a byte arrives; STOP is
\* generated, when no byte is on its way.  What the device gets by a call begins with the
\* call's first address.
I2cBus ==
    \/ /\ i2c.start /\ i2c.bus # "addr"
       /\ i2c' = [i2c EXCEPT !.start = FALSE, !.bus = "started"]
    \/ /\ i2c.bus = "addr"
       /\ i2c' = [i2c EXCEPT !.bus = "answered", !.from = <<i2c.no, i2c.seg>>, !.sent = 0,
                             !.device = IF i2c.seg = 1 THEN <<>> ELSE @]
    \/ /\ i2c.bus = "W" /\ i2c.flight # <<>>
       /\ i2c' = [i2c EXCEPT !.flight = Tail(@), !.device = Append(@, Head(i2c.flight))]
    \/ /\ Arriving
       /\ i2c' = [i2c EXCEPT !.rx = Append(@, <<i2c.from, i2c.sent + 1>>), !.sent = @ + 1,
                             !.acked = i2c.ack,
                             !.bus = IF i2c.stop THEN "idle" ELSE @, !.stop = FALSE]
    \/ /\ i2c.stop /\ i2c.bus # "addr" /\ ~Arriving
       /\ i2c' = [i2c EXCEPT !.stop = FALSE, !.bus = "idle"]

\* Or the device does not acknowledge, or the bus is lost: nothing moves until a START.
I2cFault ==
    /\ i2c.bus \notin {"idle", "dead"}
    /\ \E e \in (IF i2c.bus = "addr" \/ (i2c.bus = "W" /\ i2c.flight # <<>>) THEN {"AF"} ELSE {})
                \cup {"ARLO", "BERR"} :
          i2c' = [i2c EXCEPT !.errs = @ \cup {e}, !.bus = "dead"]

I2cStep ==
    /\ i2c.chip # "none"
    /\ i2c_start \/ send_addr \/ I2cPut \/ I2cGet \/ I2cEndSegment \/ I2cBus \/ I2cFault
    /\ UNCHANGED <<calls, spi, uart>>

---------------------------------------------------------------------------
Chips == {"esp32c6", "esp32c3", "esp32s3", "esp32s2", "esp32", "stm32f4", "gd32vf", "lpc17"}

HalIdle ==
    calls = 0 /\ spi = SpiIdle("none") /\ uart = UartIdle("none") /\ i2c = I2cIdle("none")

HalInit ==
    /\ calls = 0
    /\ \/ spi \in {SpiIdle(c) : c \in Chips} /\ uart = UartIdle("none") /\ i2c = I2cIdle("none")
       \/ uart \in {UartIdle(c) : c \in Chips} /\ spi = SpiIdle("none") /\ i2c = I2cIdle("none")
       \/ i2c = I2cIdle("stm32f4") /\ spi = SpiIdle("none") /\ uart = UartIdle("none")

HalNext ==
    \/ /\ spi.chip # "none"
       /\ \E op \in {"write", "read", "transfer", "in_place"}, n, room \in Lengths : SpiCall(op, n, room)
    \/ SpiStep
    \/ /\ uart.chip # "none"
       /\ \E op \in {"write", "read", "flush"}, n \in Lengths : UartCall(op, n)
    \/ UartStep
    \/ /\ i2c.chip # "none"
       /\ \E n, m \in Segments :
             \/ i2c_write(n) \/ i2c_read(n) \/ i2c_write_read(n, m)
             \/ i2c_transaction(<<W(n), R(m)>>) \/ i2c_transaction(<<R(n), W(m)>>)
             \/ i2c_transaction(<<W(n), W(m)>>) \/ i2c_transaction(<<R(n), R(m)>>)
    \/ I2cStep

HalSpec == HalInit /\ [][HalNext]_halVars

---------------------------------------------------------------------------
(* Properties *)

SpiHonest ==
    spi.offset = spi.total =>
        /\ spi.op # "read" => spi.wire = Payload(spi.total)
        /\ spi.op # "write" => SubSeq(spi.rx, 1, spi.total) = Answers(spi.total)

\* What was taken from the line and what waits is what arrived and was not lost, in order.
UartHonest ==
    /\ uart.line \o uart.txfifo = Payload(uart.given)
    /\ LET in == uart.got \o uart.rxfifo
       IN  /\ {in[k] : k \in DOMAIN in} = {100 + k : k \in 1..uart.arrived} \ uart.lost
           /\ \A j, k \in DOMAIN in : j < k => in[j] < in[k]

\* What the k-th segment gives the device, and what it gets from it; a call has at most two
\* segments.
SentBy(c, k) ==
    IF k \in DOMAIN c.segs /\ c.segs[k].dir = "W" THEN Payload(c.segs[k].len) ELSE <<>>
GotBy(c, k) ==
    IF k \in DOMAIN c.segs /\ c.segs[k].dir = "R" THEN Read(<<c.no, k>>, c.segs[k].len) ELSE <<>>

\* A call that ends with a read of nothing: read and write_read send no STOP then.
EndsEmpty(c) == c.segs[Len(c.segs)] = R(0)

I2cHonest ==
    i2c.result = "Ok" =>
        /\ i2c.device = SentBy(i2c, 1) \o SentBy(i2c, 2)
        /\ i2c.got = GotBy(i2c, 1) \o GotBy(i2c, 2)
        /\ i2c.bus = "idle" \/ i2c.stop \/ EndsEmpty(i2c)

\* A driver call that returns Ok moved every byte, once and in order: the ESP SPI rounds cut
\* a buffer into the w registers and put it together again, the UART drivers never write
\* into a full FIFO while it drains and never skip a byte that arrived, and the I2C master
\* waits until the device took the last byte, hands out no byte that an earlier segment or
\* call left in the peripheral, and leaves the bus free or about to be, unless the call ended
\* with a read of nothing.
DriverHonest == SpiHonest /\ UartHonest /\ I2cHonest

=============================================================================
