------------------------------- MODULE QsWire -------------------------------
(***************************************************************************)
(* The two byte streams between a target and qspy.  "tx": the tracer       *)
(* (crates/qs/src/lib.rs) stuffs a record into a frame that ends with a    *)
(* flag, a line that may drop or change bytes carries it, the host decodes *)
(* it (tools/qspy/src/decoder.rs).  "rx": the host frames a command        *)
(* between two flags (tools/qspy/src/commands.rs), a TCP connection that   *)
(* may break carries it, the target parses it (crates/qs/src/rx.rs).       *)
(* Bytes keep their values, sums their eight bits.  A byte in flight also  *)
(* says which frame it belongs to, at which place, and whether it ends it; *)
(* that is history, no reader looks at it.                                 *)
(***************************************************************************)
EXTENDS Integers, Sequences, SequencesExt, FiniteSets

CONSTANTS
    Payloads,        \* the payloads a record or a command may have
    FirstSeqs,       \* the sequence counters a session may start from
    MaxFrames,       \* bound: frames sent in a behaviour
    MaxDamage,       \* bound: bytes the line drops or changes
    Noise,           \* the values a changed byte may take
    MaxRecordLen     \* QsConfig::max_record_len

ASSUME WireAssumption ==
    /\ {MaxFrames, MaxDamage, MaxRecordLen} \subseteq Nat
    /\ FirstSeqs \subseteq 0..255 /\ Noise \subseteq 0..255
    /\ \A p \in Payloads : p \in Seq(0..255)

VARIABLES
    dir,       \* "tx" or "rx"
    seq_no,    \* the sender's sequence counter
    line,      \* the bytes in flight
    reader,    \* HdlcDecoder (tx) or RxParser (rx)
    got,       \* the frames the reader handed on
    sent,      \* history: the frames written
    due,       \* history: those that arrived whole after an intact flag
    hurt       \* history: <<frame, part>> for every byte the line damaged

wireVars == <<dir, seq_no, line, reader, got, sent, due, hurt>>

FLAG == 126
ESC == 125
XorEsc(b) == IF (b \div 32) % 2 = 1 THEN b - 32 ELSE b + 32

SumOf(bytes) ==
    LET sum[i \in 0..Len(bytes)] == IF i = 0 THEN 0 ELSE (sum[i - 1] + bytes[i]) % 256
    IN  sum[Len(bytes)]
Complement(b) == 255 - b

\* A plausible bug: the escape byte itself goes out as it is.
StuffedFlagOnly(b) == IF b = FLAG THEN <<ESC, XorEsc(b)>> ELSE <<b>>

Stuffed(b) == IF b \in {FLAG, ESC} THEN <<ESC, XorEsc(b)>> ELSE <<b>>

Stuff(bytes) ==
    LET out[i \in 0..Len(bytes)] == IF i = 0 THEN <<>> ELSE out[i - 1] \o Stuffed(bytes[i])
    IN  out[Len(bytes)]

\* Sequence number, type and payload, followed by the complement of their sum.
Raw(f) == <<f.seq, f.type>> \o f.payload
Body(f) == Append(Raw(f), Complement(SumOf(Raw(f))))

build_frame(f) == Append(Stuff(Body(f)), FLAG)

command_frame(f) == <<FLAG>> \o build_frame(f)

\* The bytes of the n-th frame on the line.
OnLine(bytes, n) ==
    [i \in 1..Len(bytes) |-> [byte |-> bytes[i], frame |-> n, at |-> i, end |-> (i = Len(bytes))]]

-----------------------------------------------------------------------------
(* The host's decoder: the frame completed by a byte, or none. *)

NewDecoder == [buffer |-> <<>>, escape_next |-> FALSE]

decode_frame(data) ==
    LET n == Len(data) IN
    IF n < 3 \/ data[n] # Complement(SumOf(SubSeq(data, 1, n - 1))) THEN <<>>
    ELSE <<[seq |-> data[1], type |-> data[2], payload |-> SubSeq(data, 3, n - 1)]>>

\* A plausible bug: a dangling escape swallows the flag that follows it.
decode_byte_escape_first(d, b) ==
    IF d.escape_next THEN [d |-> [buffer |-> Append(d.buffer, XorEsc(b)), escape_next |-> FALSE], out |-> <<>>]
    ELSE IF b = FLAG THEN [d |-> NewDecoder, out |-> IF d.buffer = <<>> THEN <<>> ELSE decode_frame(d.buffer)]
    ELSE IF b = ESC THEN [d |-> [d EXCEPT !.escape_next = TRUE], out |-> <<>>]
    ELSE [d |-> [d EXCEPT !.buffer = Append(@, b)], out |-> <<>>]

decode_byte(d, b) ==
    IF b = FLAG THEN [d |-> NewDecoder, out |-> IF d.buffer = <<>> THEN <<>> ELSE decode_frame(d.buffer)]
    ELSE IF d.escape_next THEN [d |-> [buffer |-> Append(d.buffer, XorEsc(b)), escape_next |-> FALSE], out |-> <<>>]
    ELSE IF b = ESC THEN [d |-> [d EXCEPT !.escape_next = TRUE], out |-> <<>>]
    ELSE [d |-> [d EXCEPT !.buffer = Append(@, b)], out |-> <<>>]

-----------------------------------------------------------------------------
(* The target's parser. *)

NewParser == [state |-> "Idle", buf |-> <<>>]

accept(p, b) == [state |-> "InFrame", buf |-> Append(p.buf, b)]

try_decode(buf) ==
    IF Len(buf) < 3 \/ SumOf(buf) # 255 THEN <<>>
    ELSE <<[seq |-> buf[1], type |-> buf[2], payload |-> SubSeq(buf, 3, Len(buf) - 1)]>>

push(p, b) ==
    CASE p.state = "Idle"    -> [d |-> IF b = FLAG THEN [state |-> "InFrame", buf |-> <<>>] ELSE p,
                                 out |-> <<>>]
      [] p.state = "InFrame" -> IF b = FLAG THEN [d |-> NewParser, out |-> try_decode(p.buf)]
                                ELSE IF b = ESC THEN [d |-> [p EXCEPT !.state = "Escaped"], out |-> <<>>]
                                ELSE [d |-> accept(p, b), out |-> <<>>]
      [] p.state = "Escaped" -> [d |-> accept(p, XorEsc(b)), out |-> <<>>]

-----------------------------------------------------------------------------
(* The sides and the line between them. *)

WireInit ==
    /\ dir \in {"tx", "rx"}
    /\ seq_no \in IF dir = "tx" THEN FirstSeqs ELSE {0}
    /\ reader = IF dir = "tx" THEN NewDecoder ELSE NewParser
    /\ line = <<>> /\ got = <<>> /\ sent = <<>> /\ due = <<>> /\ hurt = {}

\* Bound: only the first write of a session fails.
MayFail == seq_no \in FirstSeqs

\* Tracer::record: the counter moves before the frame is written, and a write
\* that fails loses the frame.
record(type, payload) ==
    LET f == [seq |-> (seq_no + 1) % 256, type |-> type, payload |-> payload] IN
    /\ dir = "tx" /\ Len(sent) < MaxFrames
    /\ Len(payload) <= MaxRecordLen
    /\ seq_no' = f.seq
    /\ \/ /\ line' = line \o OnLine(build_frame(f), Len(sent) + 1)
          /\ sent' = Append(sent, f)
       \/ MayFail /\ UNCHANGED <<line, sent>>
    /\ UNCHANGED <<dir, reader, got, due, hurt>>

\* CommandSender::send: the counter moves after the frame is built.
send(type, payload) ==
    LET f == [seq |-> seq_no, type |-> type, payload |-> payload] IN
    /\ dir = "rx" /\ Len(sent) < MaxFrames
    /\ seq_no' = (seq_no + 1) % 256
    /\ line' = line \o OnLine(command_frame(f), Len(sent) + 1)
    /\ sent' = Append(sent, f)
    /\ UNCHANGED <<dir, reader, got, due, hurt>>

Whole(n) ==
    /\ <<n, "body">> \notin hurt /\ <<n, "end">> \notin hurt
    /\ <<n - 1, "end">> \notin hurt

Deliver ==
    /\ line # <<>>
    /\ LET c == Head(line)
           r == IF dir = "tx" THEN decode_byte(reader, c.byte) ELSE push(reader, c.byte) IN
       /\ reader' = r.d
       /\ got' = got \o r.out
       /\ due' = IF c.end /\ Whole(c.frame) THEN Append(due, sent[c.frame]) ELSE due
    /\ line' = Tail(line)
    /\ UNCHANGED <<dir, seq_no, sent, hurt>>

\* A serial line: a byte is lost or changed on its way.
Damage ==
    /\ dir = "tx" /\ Cardinality(hurt) < MaxDamage
    /\ \E i \in 1..Len(line) :
         /\ hurt' = hurt \cup {<<line[i].frame, IF line[i].end THEN "end" ELSE "body">>}
         /\ \/ line' = RemoveAt(line, i)
            \/ \E v \in Noise \ {line[i].byte} : line' = [line EXCEPT ![i].byte = v]
    /\ UNCHANGED <<dir, seq_no, reader, got, sent, due>>

\* The command connection breaks: what is in flight is gone, and the target
\* reads the next connection with a new parser.
Break ==
    /\ dir = "rx" /\ line # <<>>
    /\ line' = <<>> /\ reader' = NewParser
    /\ UNCHANGED <<dir, seq_no, got, sent, due, hurt>>

WireNext ==
    \/ \E p \in Payloads : record(Len(p) + 1, p) \/ send(Len(p) + 1, p)
    \/ Deliver
    \/ Damage
    \/ Break

WireSpec == WireInit /\ [][WireNext]_wireVars

-----------------------------------------------------------------------------
\* A damaged frame costs no frame but itself: the host's decoder
\* (HdlcDecoder::push_bytes) and the target's parser hand on every frame that
\* arrives whole behind an intact flag with its last byte, with the bytes it was
\* sent with and nothing beside it, whatever was lost or changed before it.
WholeDecoded ==
    [][due' # due => got' = got \o SubSeq(due', Len(due) + 1, Len(due'))]_wireVars

\* The target executes exactly the commands that reached it whole, in the order
\* they were sent and with the bytes they were sent with, across connections
\* that break in the middle of a frame.
CommandsParsed == dir = "rx" => got = due

=============================================================================
