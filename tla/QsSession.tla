----------------------------- MODULE QsSession -----------------------------
(***************************************************************************)
(* A tracing session: the target's kernel and its command thread emit      *)
(* records through one tracer (crates/qs, examples/dpp/src/qspy.rs,        *)
(* ports/posix); qspy's main loop shows them and sends the commands of the *)
(* keyboard and of the front-ends (tools/qspy/src/runtime.rs); the         *)
(* listener thread installs the command channel.  Frames are whole here:   *)
(* QsWire is about their bytes.  "udp" telemetry may lose a datagram (so   *)
(* may the serial line of a board); "tcp" telemetry does not, but its      *)
(* accept replaces the command sender.                                     *)
(***************************************************************************)
EXTENDS QsRecords, FiniteSets

CONSTANTS
    Fns,           \* functions a test probe may be set for
    ProbeSlots,    \* MAX_TEST_PROBES
    MaxAsked,      \* bound: commands the user gives
    MaxEmitted,    \* bound: records the kernel emits
    MaxWork,       \* bound: the two together
    MaxBreaks      \* bound: command channels that break

ASSUME SessionAssumption ==
    /\ {ProbeSlots, MaxAsked, MaxEmitted, MaxWork, MaxBreaks} \subseteq Nat /\ ProbeSlots > 0
    /\ "none" \notin Fns

VARIABLES
    program, link, \* the target program, the kind of telemetry
    muted,         \* the global filter blocks the records 0 to 127
    slots,         \* ProbeRegistry: one probe or Empty per slot
    tele,          \* telemetry frames in flight
    accepted,      \* tcp: the telemetry connection was accepted
    sizes,         \* FrameInterpreter::sizes
    shown,         \* the last frame shown and how
    keys,          \* commands waiting for the main loop
    sender,        \* SharedSender: "none", "cmd", "tele", or "stale" once the channel broke
    chan,          \* the target's command connection: "down", "connected", "served"
    orders,        \* commands in flight to the target
    asked, emitted, breaks,   \* how much of the bounds is used
    wanted,        \* history: the data last set for a function since the last clear
    told           \* history: the last probe the target took, with the data wanted

sessionVars == <<program, link, muted, slots, tele, accepted, sizes, shown, keys, sender, chan, orders,
                 asked, emitted, breaks, wanted, told>>

Empty == [fn |-> "none", data |-> 0]
NoFrame == [rec |-> "none", verdict |-> "exact", known |-> FALSE]

Commands ==
    [cmd : {"info", "reset", "tick", "test_setup", "filter_all", "filter_none", "bad"}, fn : {"none"}]
    \cup [cmd : {"test_probe"}, fn : Fns]

SessionInit ==
    /\ program \in Programs /\ link \in {"udp", "tcp"}
    /\ muted = FALSE /\ slots = [i \in 1..ProbeSlots |-> Empty]
    /\ tele = <<>> /\ accepted = FALSE /\ sizes = DefaultSizes /\ shown = NoFrame
    /\ keys = <<>> /\ sender = "none" /\ chan = "down" /\ orders = <<>>
    /\ asked = 0 /\ emitted = 0 /\ breaks = 0
    /\ wanted = [f \in Fns |-> 0] /\ told = [data |-> 0, wanted |-> 0]

-----------------------------------------------------------------------------
(* The target.  Records of 128 and above pass every filter; none is modelled. *)

\* What the host shows of every record, with the sizes it starts from and with those it
\* is told.
SizesAt(p, told_sizes) ==
    IF told_sizes THEN update_from_target_info(DefaultSizes, TargetInfo(p)) ELSE DefaultSizes

VerdictOn(p, s, r) == IF r \in DOMAIN Emitted(p) THEN interpret(r, Emitted(p)[r], s) ELSE "absent"

Verdicts ==
    {<<p, SizesAt(p, k), r, VerdictOn(p, SizesAt(p, k), r)>> :
       p \in Programs, k \in BOOLEAN, r \in UNION {DOMAIN Emitted(q) : q \in Programs}}

\* The records of a kernel, not those that answer a command or a probe.
Traced(p) ==
    {v[3] : v \in {u \in Verdicts : u[1] = p /\ u[4] # "absent"}} \ {"RX_STATUS", "TARGET_DONE", "TEST_PROBE"}

Frames(recs) == IF muted THEN <<>> ELSE recs

\* The kernel thread traces; TARGET_INFO goes out once, at the start.
emit_record ==
    /\ emitted < MaxEmitted /\ asked + emitted < MaxWork
    /\ \E r \in Traced(program) :
         /\ r = "TARGET_INFO" <=> emitted = 0
         /\ tele' = tele \o Frames(<<r>>)
    /\ emitted' = emitted + 1
    /\ UNCHANGED <<program, link, muted, slots, accepted, sizes, shown, keys, sender, chan, orders, asked,
                   breaks, wanted, told>>

Holders(fn) == {i \in 1..ProbeSlots : slots[i].fn = fn}
Least(S) == CHOOSE i \in S : \A j \in S : i <= j

\* A plausible bug: the first free slot is taken before one that the function
\* already has.
set_free_first(fn, data) ==
    LET i == IF Holders("none") # {} THEN Least(Holders("none"))
             ELSE IF Holders(fn) # {} THEN Least(Holders(fn)) ELSE 1
    IN  [slots EXCEPT ![i] = [fn |-> fn, data |-> data]]

\* ProbeRegistry::set: the function's own slot, a free one, or slot 1.
set(fn, data) ==
    LET i == IF Holders(fn) # {} THEN Least(Holders(fn))
             ELSE IF Holders("none") # {} THEN Least(Holders("none")) ELSE 1
    IN  [slots EXCEPT ![i] = [fn |-> fn, data |-> data]]

clear == [i \in 1..ProbeSlots |-> Empty]

ack_done == <<"RX_STATUS", "TARGET_DONE">>

\* QsRxContext::handle_cmd, on the command thread: the new filter already
\* applies to its own acknowledgement.
handle_cmd ==
    /\ chan # "down" /\ orders # <<>>
    /\ LET c == Head(orders)
           mute == IF c.cmd = "filter_none" THEN TRUE ELSE IF c.cmd = "filter_all" THEN FALSE ELSE muted
           out == CASE c.cmd = "info"  -> <<"TARGET_INFO">>
                    [] c.cmd = "reset" -> <<>>
                    [] c.cmd = "bad"   -> <<"RX_STATUS">>
                    [] OTHER           -> ack_done IN
       /\ muted' = mute
       /\ tele' = tele \o (IF mute THEN <<>> ELSE out)
       /\ slots' = CASE c.cmd = "test_setup" -> clear
                     [] c.cmd = "test_probe" -> set(c.fn, c.data)
                     [] OTHER                -> slots
       /\ wanted' = CASE c.cmd = "test_setup" -> [f \in Fns |-> 0]
                      [] c.cmd = "test_probe" -> [wanted EXCEPT ![c.fn] = c.data]
                      [] OTHER                -> wanted
    /\ orders' = Tail(orders)
    /\ UNCHANGED <<program, link, accepted, sizes, shown, keys, sender, chan, asked, emitted, breaks, told>>

\* ProbeRegistry::take in a handler of the application, and its record.
take(fn) ==
    /\ Holders(fn) # {}
    /\ slots' = [slots EXCEPT ![Least(Holders(fn))] = Empty]
    /\ told' = [data |-> slots[Least(Holders(fn))].data, wanted |-> wanted[fn]]
    /\ wanted' = [wanted EXCEPT ![fn] = 0]
    /\ tele' = tele \o Frames(<<"TEST_PROBE">>)
    /\ UNCHANGED <<program, link, muted, accepted, sizes, shown, keys, sender, chan, orders, asked, emitted,
                   breaks>>

\* start_command_channel: the philosophers on the host connect, and connect
\* again; no other target reads commands.
Connect ==
    /\ program = "dpp" /\ chan = "down"
    /\ chan' = "connected"
    /\ UNCHANGED <<program, link, muted, slots, tele, accepted, sizes, shown, keys, sender, orders, asked,
                   emitted, breaks, wanted, told>>

-----------------------------------------------------------------------------
(* The links. *)

LoseDatagram ==
    /\ link = "udp" /\ tele # <<>>
    /\ tele' = Tail(tele)
    /\ UNCHANGED <<program, link, muted, slots, accepted, sizes, shown, keys, sender, chan, orders, asked,
                   emitted, breaks, wanted, told>>

BreakChannel ==
    /\ chan # "down" /\ breaks < MaxBreaks
    /\ chan' = "down" /\ orders' = <<>> /\ breaks' = breaks + 1
    /\ sender' = IF sender = "cmd" THEN "stale" ELSE sender
    /\ UNCHANGED <<program, link, muted, slots, tele, accepted, sizes, shown, keys, asked, emitted, wanted, told>>

-----------------------------------------------------------------------------
(* The host. *)

\* The keyboard thread, or a front-end's datagram, hands a command to the main loop.
AskCommand ==
    /\ asked < MaxAsked /\ asked + emitted < MaxWork
    /\ \E c \in Commands : keys' = Append(keys, [cmd |-> c.cmd, fn |-> c.fn, data |-> asked + 1])
    /\ asked' = asked + 1
    /\ UNCHANGED <<program, link, muted, slots, tele, accepted, sizes, shown, sender, chan, orders, emitted,
                   breaks, wanted, told>>

\* cmd_listener: the newest connection becomes the sender.
cmd_listener ==
    /\ chan = "connected"
    /\ chan' = "served" /\ sender' = "cmd"
    /\ UNCHANGED <<program, link, muted, slots, tele, accepted, sizes, shown, keys, orders, asked, emitted,
                   breaks, wanted, told>>

\* run_with_custom_handler with --tcp: so does the telemetry connection, which
\* the target does not read.
AcceptTelemetry ==
    /\ link = "tcp" /\ ~accepted
    /\ accepted' = TRUE /\ sender' = "tele"
    /\ UNCHANGED <<program, link, muted, slots, tele, sizes, shown, keys, chan, orders, asked, emitted,
                   breaks, wanted, told>>

process_chunk(r) ==
    \E verdict \in {"exact", "raw", "misread"} :
      /\ <<program, sizes, r, verdict>> \in Verdicts
      /\ shown' = [rec |-> r, verdict |-> verdict, known |-> sizes = TargetInfo(program)]
      /\ sizes' = IF r = "TARGET_INFO" /\ verdict = "exact"
                  THEN update_from_target_info(sizes, TargetInfo(program)) ELSE sizes

\* A plausible bug: the loop leaves the commands for an iteration that read
\* nothing.
poll_when_idle ==
    /\ IF tele = <<>> THEN keys' = <<>> /\ orders' = orders \o (IF sender = "cmd" THEN keys ELSE <<>>)
       ELSE UNCHANGED <<keys, orders>>
    /\ UNCHANGED sender

\* poll_commands and try_send: every waiting command is sent, or dropped with a
\* message; the write to a broken channel may fail, and then clears the sender.
poll_commands ==
    /\ keys' = <<>>
    /\ orders' = orders \o (IF sender = "cmd" THEN keys ELSE <<>>)
    /\ \/ UNCHANGED sender
       \/ sender = "stale" /\ keys # <<>> /\ sender' = "none"

\* run_reader, run_udp: one chunk, then the commands.
ReadAndPoll ==
    /\ tele # <<>> /\ (link = "tcp" => accepted)
    /\ process_chunk(Head(tele)) /\ tele' = Tail(tele)
    /\ poll_commands
    /\ UNCHANGED <<program, link, muted, slots, accepted, chan, asked, emitted, breaks, wanted, told>>

\* run_udp: the read times out after 100 ms.  A read from a stream waits.
TimeoutAndPoll ==
    /\ link = "udp" /\ tele = <<>> /\ keys # <<>>
    /\ poll_commands
    /\ UNCHANGED <<program, link, muted, slots, tele, accepted, sizes, shown, chan, asked, emitted, breaks,
                   wanted, told>>

SessionNext ==
    \/ emit_record \/ handle_cmd \/ (\E fn \in Fns : take(fn)) \/ Connect
    \/ LoseDatagram \/ BreakChannel
    \/ AskCommand \/ cmd_listener \/ AcceptTelemetry \/ ReadAndPoll \/ TimeoutAndPoll

SessionSpec == SessionInit /\ [][SessionNext]_sessionVars

-----------------------------------------------------------------------------
\* Records that a host with the right sizes still reads wrongly: a reply whose
\* clock is taken for the command, two records that are not made of items, and
\* the time events of a 32-bit target, whose addresses are eight bytes wide.
KnownMisreads ==
    {"TARGET_DONE", "PAUSED_STAT", "THREAD_NEXT"}
    \cup IF program = "esp" THEN DOMAIN emit_time(program) ELSE {}

\* Once the host has the target's sizes it shows the fields of a record as the
\* target wrote them, or the bytes as they came, and never invents values; it
\* keeps the sizes whatever else arrives.
NoMisread == shown.known /\ shown.rec \notin KnownMisreads => shown.verdict # "misread"

\* A probe that a handler takes carries the data the host set last for that
\* function after the last setup; an older value never comes back, even when
\* the registry overflows.
ProbeFresh == told.data = told.wanted

\* A command that waits is sent or refused: at the next chunk of telemetry, and
\* over UDP also when there is none.  (Over a stream the main loop sits in a
\* read without a timeout, so a command waits while the target is silent.)
CommandsServed == keys # <<>> /\ (link = "udp" \/ tele # <<>>) ~> keys = <<>>

=============================================================================
