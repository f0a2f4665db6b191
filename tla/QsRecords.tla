----------------------------- MODULE QsRecords -----------------------------
(***************************************************************************)
(* The payload of a trace record as the target writes it and as qspy reads *)
(* it.  A field has a name and a width in bytes (0: a string that ends     *)
(* with a NUL); a byte of a payload is named after the field it carries,   *)
(* so a reader that takes the right number of bytes at the wrong place is  *)
(* caught.  Three targets: "dpp", the philosophers on the host (64 bits,   *)
(* QK), "qxk", an application of the dual-mode kernel on the host, and     *)
(* "esp", the philosophers on an ESP board (32 bits, no clock).            *)
(***************************************************************************)
EXTENDS Integers, Sequences, SequencesExt

F(name, width) == [name |-> name, width |-> width]
Str(name) == F(name, 0)
NUL == <<"nul", 0>>

BytesOf(f) ==
    IF f.width = 0 THEN <<<<f.name, 1>>, NUL>>
    ELSE [i \in 1..f.width |-> <<f.name, i>>]

Written(fields) == FlattenSeq([i \in 1..Len(fields) |-> BytesOf(fields[i])])

-----------------------------------------------------------------------------
(* The target. *)

Programs == {"dpp", "qxk", "esp"}
PtrSize(prog) == IF prog = "esp" THEN 4 ELSE 8

\* The sizes a target announces; the boards set the pointer sizes only.
TargetInfo(prog) ==
    [time |-> 4, obj |-> PtrSize(prog), fun |-> PtrSize(prog), sig |-> 2, evt |-> 2,
     eqc |-> 2, tec |-> 2, mps |-> 2, mpc |-> 2]

\* Tracer::record puts a clock in front of a record that asks for one, where
\* there is a clock.
Stamped(prog, fields) == (IF prog = "esp" THEN <<>> ELSE <<F("ts", 4)>>) \o fields

target_info_payload ==
    <<F("reset", 1), F("version", 2), F("sig_evt", 1), F("eq_te", 1), F("mp", 1), F("ptrs", 1),
      F("time", 1), F("active", 1), F("pools", 1), F("clock", 3), F("date", 3)>>

Dictionaries(p) ==
    [TARGET_INFO |-> target_info_payload,
     OBJ_DICT |-> <<F("obj", p), Str("name")>>,
     FUN_DICT |-> <<F("fun", p), Str("name")>>,
     SIG_DICT |-> <<F("sig", 2), F("obj", p), Str("name")>>]

emit_usr_dict == [USR_DICT |-> <<F("id", 1), Str("name")>>]

\* crates/qf/src/hsm/trace.rs: no record names the object.
emit_qep(prog) ==
    LET p == PtrSize(prog) IN
    [STATE_ENTRY |-> <<F("state", p)>>, STATE_EXIT |-> <<F("state", p)>>,
     STATE_INIT |-> <<F("state", p)>>, INIT_TRAN |-> <<F("tgt", p)>>,
     DISPATCH |-> Stamped(prog, <<F("sig", 2), F("state", p)>>),
     INTERN_TRAN |-> Stamped(prog, <<F("sig", 2), F("state", p)>>),
     IGNORED |-> Stamped(prog, <<F("sig", 2), F("state", p)>>),
     TRAN |-> Stamped(prog, <<F("sig", 2), F("src", p), F("tgt", p)>>),
     TRAN_HIST |-> Stamped(prog, <<F("sig", 2), F("src", p), F("tgt", p)>>)]

\* crates/qf/src/time.rs: addresses are eight bytes on every target.
TimeAddresses == <<F("timer", 8), F("ao", 8)>>

emit_arm(prog) == Stamped(prog, TimeAddresses \o <<F("ticks", 2), F("interval", 2), F("rate", 1)>>)
emit_disarm(prog) == Stamped(prog, TimeAddresses \o <<F("ticks", 2), F("interval", 2), F("rate", 1)>>)
emit_rearm(prog) == Stamped(prog, TimeAddresses \o <<F("ticks", 2), F("interval", 2), F("rate", 1)>>)
emit_disarm_attempt(prog) == Stamped(prog, Append(TimeAddresses, F("rate", 1)))
emit_auto_disarm == Append(TimeAddresses, F("rate", 1))

\* A plausible bug: the target before the signal.
emit_post_swapped(prog) == Stamped(prog, <<F("timer", 8), F("ao", 8), F("sig", 2), F("rate", 1)>>)

emit_post(prog) == Stamped(prog, <<F("timer", 8), F("sig", 2), F("ao", 8), F("rate", 1)>>)

emit_time(prog) ==
    [TIME_ARM |-> emit_arm(prog), TIME_DISARM |-> emit_disarm(prog), TIME_REARM |-> emit_rearm(prog),
     TIME_DISARM_ATTEMPT |-> emit_disarm_attempt(prog), TIME_AUTO_DISARM |-> emit_auto_disarm,
     TIME_POST |-> emit_post(prog)]

\* The scheduler of QK, and the one of QXK, which leaves fields out.
emit_sched_qk(prog) ==
    [SCHED_LOCK |-> Stamped(prog, <<F("prev", 1), F("new", 1)>>),
     SCHED_UNLOCK |-> Stamped(prog, <<F("prev", 1), F("new", 1)>>),
     SCHED_NEXT |-> Stamped(prog, <<F("prio", 1), F("prev", 1)>>),
     SCHED_IDLE |-> Stamped(prog, <<F("prev", 1)>>)]

emit_sched_qxk(prog) ==
    [SCHED_LOCK |-> Stamped(prog, <<F("new", 1)>>),
     SCHED_UNLOCK |-> Stamped(prog, <<F("prev", 1), F("new", 1)>>),
     SCHED_NEXT |-> Stamped(prog, <<F("prio", 1)>>),
     SCHED_IDLE |-> Stamped(prog, <<>>),
     THREAD_NEXT |-> Stamped(prog, <<F("thread", 1), F("prio", 1)>>)]

emit_sem(prog) ==
    [r \in {"SEM_TAKE", "SEM_BLOCK", "SEM_SIGNAL"} |->
       Stamped(prog, <<F("sem", 8), F("prio", 1), F("count", 2)>>)]

emit_mtx(prog) ==
    [r \in {"MTX_LOCK", "MTX_BLOCK", "MTX_UNLOCK"} |->
       Stamped(prog, <<F("mtx", 8), F("prio", 1)>>)]

\* crates/qf/src/event_pool.rs; a failed allocation has the number of MPOOL_INIT.
emit_pool(prog) ==
    [QF_NEW |-> Stamped(prog, <<F("size", 2), F("pool", 1)>>),
     MPOOL_INIT |-> Stamped(prog, <<F("size", 2), F("pool", 1), F("free", 2), F("total", 2)>>),
     GC |-> Stamped(prog, <<F("pool", 1)>>),
     MPOOL_GET |-> Stamped(prog, <<F("pool", 1), F("free", 2), F("total", 2)>>),
     MPOOL_PUT |-> Stamped(prog, <<F("pool", 1), F("free", 2), F("total", 2)>>)]

\* QsRxContext::ack and done, make_probe_record.
emit_replies(prog) ==
    [RX_STATUS |-> <<F("rec", 1)>>, TARGET_DONE |-> Stamped(prog, <<F("rec", 1)>>),
     TEST_PROBE |-> <<F("fun", 8), F("data", 4)>>]

\* A user record is a clock and self-describing items: a format byte, then the
\* value.  Strings and memory stand for their shortest: one byte beside the NUL
\* or the length.
FmtWidth(fmt, s) ==
    CASE fmt \in {"i8", "u8"}          -> 1
      [] fmt \in {"i16", "u16", "str", "mem"} -> 2
      [] fmt \in {"i32", "u32", "f32"} -> 4
      [] fmt \in {"i64", "u64", "f64"} -> 8
      [] fmt = "sig"                   -> s.sig
      [] fmt = "obj"                   -> s.obj
      [] fmt = "fun"                   -> s.fun
      [] fmt = "hex"                   -> 0

Item(fmt, width) == <<<<"fmt", fmt>>>> \o [i \in 1..width |-> <<fmt, i>>]

UserRecordBuilder(items, s) == FlattenSeq([i \in 1..Len(items) |-> Item(items[i], FmtWidth(items[i], s))])

UserRecords == {"PHILO_STAT", "PAUSED_STAT", "THREAD_NEXT", "EVERY_FMT"}

\* Philosophers log their number and their state; a paused table logs one bare
\* byte, which is the format byte of a u8.  EVERY_FMT has an item of every kind.
emit_user(prog) ==
    LET ts == Written(Stamped(prog, <<>>)) IN
    [PHILO_STAT |-> ts \o UserRecordBuilder(<<"u8", "str">>, TargetInfo(prog)),
     PAUSED_STAT |-> ts \o <<<<"fmt", "u8">>>>,
     EVERY_FMT |-> ts \o UserRecordBuilder(
         <<"i8", "hex", "u16", "i16", "u32", "i32", "f32", "u64", "i64", "f64", "mem", "sig", "obj", "fun", "str", "u8">>,
         TargetInfo(prog))]

AsWritten(records) == [r \in DOMAIN records |-> Written(records[r])]

\* Every payload a target emits.
Emitted(prog) ==
    LET dict == Dictionaries(PtrSize(prog)) IN
    CASE prog = "dpp" -> AsWritten(dict @@ emit_usr_dict @@ emit_qep(prog) @@ emit_time(prog)
                                   @@ emit_sched_qk(prog) @@ emit_replies(prog)) @@ emit_user(prog)
      [] prog = "qxk" -> AsWritten(dict @@ emit_sched_qxk(prog) @@ emit_sem(prog) @@ emit_mtx(prog)
                                   @@ emit_pool(prog))
      [] prog = "esp" -> AsWritten(dict @@ emit_qep(prog) @@ emit_time(prog) @@ emit_sched_qk(prog))

-----------------------------------------------------------------------------
(* The host. *)

DefaultSizes ==
    [time |-> 4, obj |-> 4, fun |-> 4, sig |-> 2, evt |-> 2, eqc |-> 1, tec |-> 2, mps |-> 2, mpc |-> 2]

valid_size(v, fallback) == IF v \in {1, 2, 4, 8} THEN v ELSE fallback

update_from_target_info(s, info) == [f \in DOMAIN s |-> valid_size(info[f], s[f])]

HostDictionaries(s) ==
    [TARGET_INFO |-> target_info_payload,
     SIG_DICT |-> <<F("sig", s.sig), F("obj", s.obj), Str("name")>>,
     OBJ_DICT |-> <<F("obj", s.obj), Str("name")>>,
     FUN_DICT |-> <<F("fun", s.fun), Str("name")>>,
     USR_DICT |-> <<F("id", 1), Str("name")>>,
     ENUM_DICT |-> <<F("value", 1), F("group", 1), Str("name")>>]

HostQep(s) ==
    LET ts == F("ts", s.time)  obj == F("obj", s.obj)  sig == F("sig", s.sig)
        state == F("state", s.fun)  src == F("src", s.fun)  tgt == F("tgt", s.fun) IN
    [STATE_ENTRY |-> <<obj, state>>, STATE_EXIT |-> <<obj, state>>, STATE_INIT |-> <<obj, src, tgt>>,
     INIT_TRAN |-> <<ts, obj, tgt>>, INTERN_TRAN |-> <<ts, sig, obj, state>>,
     TRAN |-> <<ts, sig, obj, src, tgt>>, IGNORED |-> <<ts, sig, obj, state>>,
     DISPATCH |-> <<ts, sig, obj, state>>, UNHANDLED |-> <<sig, obj, state>>,
     TRAN_HIST |-> <<obj, src, tgt>>]

HostActive(s) ==
    LET ts == F("ts", s.time)  ao == F("ao", s.obj)  sig == F("sig", s.sig)
        evt == <<F("pool", 1), F("ref", 1)>>  free == F("free", s.eqc) IN
    [ACTIVE_DEFER |-> <<ts, ao, F("eq", s.obj), sig>> \o evt,
     ACTIVE_RECALL |-> <<ts, ao, F("eq", s.obj), sig>> \o evt,
     ACTIVE_SUBSCRIBE |-> <<ts, sig, ao>>, ACTIVE_UNSUBSCRIBE |-> <<ts, sig, ao>>,
     ACTIVE_POST |-> <<ts, sig, F("sdr", s.obj), ao>> \o evt \o <<free, F("min", s.eqc)>>,
     ACTIVE_GET |-> <<ts, sig, ao>> \o evt \o <<free>>,
     ACTIVE_GET_LAST |-> <<ts, sig, ao>> \o evt]

HostQueuesAndPools(s) ==
    LET ts == F("ts", s.time)  eq == F("eq", s.obj)  mp == F("mp", s.obj)  sig == F("sig", s.sig)
        evt == <<F("pool", 1), F("ref", 1)>>  free == F("free", s.mpc)  min == F("min", s.mpc) IN
    [EQUEUE_INIT |-> <<ts, eq, F("len", s.eqc)>>,
     MPOOL_INIT |-> <<ts, mp, free, min>>,
     EQUEUE_POST |-> <<ts, sig, eq>> \o evt \o <<F("free", s.eqc), F("min", s.eqc)>>,
     EQUEUE_GET |-> <<ts, sig, eq>> \o evt \o <<F("free", s.eqc)>>,
     MPOOL_GET |-> <<ts, mp, free, min>>,
     MPOOL_PUT |-> <<ts, mp, free>>]

HostEvents(s) ==
    LET ts == F("ts", s.time)  sig == F("sig", s.sig)  evt == <<F("pool", 1), F("ref", 1)>> IN
    [PUBLISH |-> <<ts, F("sdr", s.obj), sig>> \o evt, QF_NEW |-> <<ts, F("size", s.evt), sig>>,
     GC |-> <<ts, sig>> \o evt, TICK |-> <<ts, F("rate", 1)>>, NEW_REF |-> <<ts, sig>> \o evt,
     CRIT_ENTRY |-> <<ts, F("nesting", 1)>>, ISR_ENTRY |-> <<ts, F("nesting", 1), F("prio", 1)>>]

HostSync(s) ==
    [r \in {"SEM_TAKE", "SEM_BLOCK", "SEM_SIGNAL"} |->
       <<F("ts", s.time), F("sem", 8), F("prio", 1), F("count", 2)>>]
    @@ [r \in {"MTX_LOCK", "MTX_BLOCK", "MTX_UNLOCK"} |-> <<F("ts", s.time), F("mtx", 8), F("prio", 1)>>]

HostTime(s) ==
    LET ts == F("ts", s.time)  te == F("timer", s.obj)  ao == F("ao", s.obj)  rate == F("rate", 1)
        counted == <<ts, te, ao, F("ticks", s.tec), F("interval", s.tec), rate>> IN
    [TIME_ARM |-> counted, TIME_DISARM |-> counted, TIME_REARM |-> counted,
     TIME_AUTO_DISARM |-> <<te, ao, rate>>, TIME_DISARM_ATTEMPT |-> <<ts, te, ao, rate>>,
     TIME_POST |-> <<ts, te, F("sig", s.sig), ao, rate>>]

HostSched(s) ==
    LET ts == F("ts", s.time) IN
    [SCHED_LOCK |-> <<ts, F("prev", 1), F("new", 1)>>, SCHED_UNLOCK |-> <<ts, F("prev", 1), F("new", 1)>>,
     SCHED_NEXT |-> <<ts, F("prio", 1), F("prev", 1)>>, SCHED_IDLE |-> <<ts, F("prev", 1)>>]

HostTest(s) ==
    [TEST_PROBE |-> <<F("ts", s.time), F("fun", s.fun), F("data", 4)>>,
     QUERY_DATA |-> <<F("ts", s.time), F("kind", 1), F("obj", s.obj)>>,
     PEEK_DATA |-> <<F("offset", 2), F("size", 1)>>,
     ASSERT_FAIL |-> <<F("ts", s.time), F("id", 2), Str("module")>>]

HostReplies == [RX_STATUS |-> <<F("rec", 1)>>, TARGET_DONE |-> <<F("rec", 1)>>]

\* FrameInterpreter::interpret: the fields the host reads from a record.
Expected(s) ==
    HostDictionaries(s) @@ HostQep(s) @@ HostActive(s) @@ HostQueuesAndPools(s) @@ HostEvents(s)
    @@ HostSync(s) @@ HostTime(s) @@ HostSched(s) @@ HostTest(s) @@ HostReplies

\* One read of the cursor: what is left, whether the bytes were there, whether
\* they were those of the field.
read_sized(cur, f) ==
    LET ends == {i \in 1..Len(cur.rest) : cur.rest[i] = NUL}
        n == IF f.width > 0 THEN f.width
             ELSE IF ends = {} THEN Len(cur.rest) + 1 ELSE CHOOSE i \in ends : \A j \in ends : i <= j IN
    IF ~cur.there \/ n > Len(cur.rest) THEN [cur EXCEPT !.there = FALSE]
    ELSE [rest |-> SubSeq(cur.rest, n + 1, Len(cur.rest)), there |-> TRUE,
          right |-> cur.right /\ SubSeq(cur.rest, 1, n) = BytesOf(f)]

Reads(payload, fields) ==
    LET after[i \in 0..Len(fields)] ==
          IF i = 0 THEN [rest |-> payload, there |-> TRUE, right |-> TRUE]
          ELSE read_sized(after[i - 1], fields[i])
    IN  after[Len(fields)]

\* handle_user_record: items up to the end of the payload; an item that is cut,
\* and a value taken for a format, lose what follows.
UserItems(bytes, s) ==
    LET from[i \in 1..(Len(bytes) + 1)] ==
          IF i > Len(bytes) THEN TRUE
          ELSE LET fmt == bytes[i][2]  w == FmtWidth(fmt, s) IN
               IF bytes[i][1] # "fmt" THEN FALSE
               ELSE IF i + w > Len(bytes) THEN FALSE
               ELSE SubSeq(bytes, i, i + w) = Item(fmt, w) /\ from[i + w + 1]
    IN  from[1]

handle_user_record(payload, s) ==
    LET cur == read_sized([rest |-> payload, there |-> TRUE, right |-> TRUE], F("ts", s.time)) IN
    IF ~cur.there THEN "raw"
    ELSE IF cur.right /\ UserItems(cur.rest, s) THEN "exact" ELSE "misread"

\* What the host shows: the fields as they were written, the bytes as they came,
\* or values that were never written.
interpret(rec, payload, s) ==
    IF rec \in UserRecords THEN handle_user_record(payload, s)
    ELSE IF rec \notin DOMAIN Expected(s) THEN "raw"
    ELSE LET cur == Reads(payload, Expected(s)[rec]) IN
         IF ~cur.there THEN "raw"
         ELSE IF cur.right /\ cur.rest = <<>> THEN "exact" ELSE "misread"

=============================================================================
