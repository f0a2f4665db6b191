------------------------------ MODULE QfQueue ------------------------------
(***************************************************************************)
(* The bounded event queue with a safety margin and the deferral of events *)
(* (crates/qf/src/equeue.rs), beside the event queue of an active object   *)
(* (crates/qf/src/active.rs).  "dynamic" is QEQueue, "static" the const-   *)
(* generic StaticEQueue; both in the heap-free build, where storage ends   *)
(* (the heap build does the same and cannot fault).  Every call holds the  *)
(* queue's lock.  An event carries its number, its class and the margin it *)
(* was posted under.                                                       *)
(***************************************************************************)
EXTENDS Integers, Sequences, SequencesExt, FiniteSets

CONSTANTS
    Inline,        \* QEQUEUE_CAPACITY, AO_QUEUE_CAPACITY: slots of the inline storage
    Capacities,    \* the capacities an application asks for
    Margins,       \* the safety margins it sets
    MaxEvents      \* bound: events made in a behaviour

ASSUME QueueAssumption ==
    /\ {Inline, MaxEvents} \cup Capacities \cup Margins \subseteq Nat

VARIABLES
    kind,     \* "dynamic" or "static"
    eq,       \* QEQueueInner / StaticEQueueInner
    aoq,      \* the EventQueue of the active object that defers
    made,     \* the number of events made so far
    done,     \* the events handled, taken by a consumer, flushed, refused or shed
    halted    \* fusa::on_error was called: the program has stopped

queueVars == <<kind, eq, aoq, made, done, halted>>

least(a, b) == IF a <= b THEN a ELSE b

free(q) == q.capacity - Len(q.buffer)

update_watermark(q) == [q EXCEPT !.min_free = least(@, free(q))]

with_safety_margin(capacity, margin) ==
    [buffer |-> <<>>, capacity |-> capacity, min_free |-> capacity,
     safety_margin |-> least(margin, capacity), shed_count |-> 0]

\* The const constructor of StaticEQueue stores the margin as it is given.
static_with_safety_margin(n, margin) ==
    [with_safety_margin(n, 0) EXCEPT !.safety_margin = margin]

set_safety_margin(q, margin) == [q EXCEPT !.safety_margin = least(margin, q.capacity)]

PushBack(q, e) == update_watermark([q EXCEPT !.buffer = Append(@, e)])
PushFront(q, e) == update_watermark([q EXCEPT !.buffer = <<e>> \o @])

\* A plausible bug: the event that uses up the last slot above the margin is
\* let through once more.
admits_normal_late(q) == free(q) >= q.safety_margin /\ free(q) > 0

admits_normal(q) == free(q) > q.safety_margin

post_normal(q, e) ==
    IF admits_normal(q) THEN PushBack(q, e) ELSE [q EXCEPT !.shed_count = @ + 1]

post(q, e, margin) == IF free(q) > margin THEN PushBack(q, e) ELSE q

post_critical(q, e) == post(q, e, 0)

post_lifo(q, e) == IF Len(q.buffer) < q.capacity THEN PushFront(q, e) ELSE q

get(q) == [q EXCEPT !.buffer = Tail(@)]

\* StaticEQueue repeats the operations with N for the capacity.
static_set_safety_margin(q, margin) == set_safety_margin(q, margin)
static_post_normal(q, e) == post_normal(q, e)
static_post(q, e, margin) == post(q, e, margin)
static_post_critical(q, e) == static_post(q, e, 0)
static_post_lifo(q, e) == post_lifo(q, e)
static_get(q) == get(q)

-----------------------------------------------------------------------------
(* Operations. *)

\* The slots of the storage behind the queue.
Storage == IF kind = "static" THEN eq.capacity ELSE Inline

\* A push into storage that is full calls on_error, which never returns.
on_error ==
    /\ halted' = TRUE
    /\ UNCHANGED <<kind, eq, aoq, done>>

\* The outcome of an operation; an event that was not admitted is gone.
Result(q, e) ==
    IF Len(q.buffer) > Storage
    THEN on_error
    ELSE /\ eq' = q
         /\ done' = IF e \in ToSet(q.buffer) THEN done ELSE done \cup {e.id}
         /\ UNCHANGED <<kind, aoq, halted>>

Event(class) == [id |-> made + 1, class |-> class, margin |-> eq.safety_margin]

Making ==
    /\ ~halted
    /\ made < MaxEvents
    /\ made' = made + 1

\* Somebody posts to the queue; all but post_normal may use the margin.
QPost ==
    /\ Making
    /\ kind = "dynamic"
    /\ LET n == Event("normal")
           c == Event("critical")
       IN \/ Result(post_normal(eq, n), n)
          \/ Result(post_critical(eq, c), c)
          \/ Result(post_lifo(eq, c), c)
          \/ \E k \in Margins : Result(post(eq, c, k), c)

StaticPost ==
    /\ Making
    /\ kind = "static"
    /\ LET n == Event("normal")
           c == Event("critical")
       IN \/ Result(static_post_normal(eq, n), n)
          \/ Result(static_post_critical(eq, c), c)
          \/ Result(static_post_lifo(eq, c), c)
          \/ \E k \in Margins : Result(static_post(eq, c, k), c)

SetSafetyMargin(k) ==
    /\ ~halted
    /\ eq' = IF kind = "dynamic" THEN set_safety_margin(eq, k) ELSE static_set_safety_margin(eq, k)
    /\ UNCHANGED <<kind, aoq, made, done, halted>>

\* A consumer takes the event at the front.
Get ==
    /\ ~halted
    /\ eq.buffer # <<>>
    /\ eq' = IF kind = "dynamic" THEN get(eq) ELSE static_get(eq)
    /\ done' = done \cup {Head(eq.buffer).id}
    /\ UNCHANGED <<kind, aoq, made, halted>>

push_back(buf, e) == Append(buf, e)
push_front(buf, e) == <<e>> \o buf

\* The kernel posts to the active object.
PostAo ==
    /\ Making
    /\ IF Len(aoq) >= Inline
       THEN on_error
       ELSE /\ aoq' = push_back(aoq, Event("normal"))
            /\ UNCHANGED <<kind, eq, done, halted>>

\* A handler of the active object is done with its event.
Handle ==
    /\ ~halted
    /\ aoq # <<>>
    /\ aoq' = Tail(aoq)
    /\ done' = done \cup {Head(aoq).id}
    /\ UNCHANGED <<kind, eq, made, halted>>

\* A handler defers its event; defer and recall take a QEQueue.  A full queue
\* answers false, and the event is lost unless the handler looks.
defer ==
    /\ ~halted /\ kind = "dynamic"
    /\ aoq # <<>>
    /\ aoq' = Tail(aoq)
    /\ LET e == [Head(aoq) EXCEPT !.class = "critical"]
           q == post(eq, e, 0)
       IN /\ eq' = q
          /\ done' = IF e \in ToSet(q.buffer) THEN done ELSE done \cup {e.id}
    /\ UNCHANGED <<kind, made, halted>>

\* A plausible bug: the event is read and stays in the deferral queue.
recall_peeks ==
    /\ ~halted /\ kind = "dynamic"
    /\ eq.buffer # <<>>
    /\ aoq' = push_front(aoq, Head(eq.buffer))
    /\ UNCHANGED <<kind, eq, made, done, halted>>

recall ==
    /\ ~halted /\ kind = "dynamic"
    /\ eq.buffer # <<>>
    /\ eq' = get(eq)
    /\ IF Len(aoq) >= Inline
       THEN halted' = TRUE /\ aoq' = aoq
       ELSE halted' = FALSE /\ aoq' = push_front(aoq, Head(eq.buffer))
    /\ UNCHANGED <<kind, made, done>>

flush_deferred(num) ==
    /\ ~halted /\ kind = "dynamic"
    /\ LET n == least(num, Len(eq.buffer))
       IN /\ eq' = [eq EXCEPT !.buffer = SubSeq(@, n + 1, Len(@))]
          /\ done' = done \cup {eq.buffer[k].id : k \in 1..n}
    /\ UNCHANGED <<kind, aoq, made, halted>>

\* A capacity above the inline storage is a configuration fault.
QueueInit ==
    \E c \in Capacities, k \in Margins :
        /\ kind \in {"dynamic", "static"}
        /\ eq = IF kind = "dynamic"
                THEN with_safety_margin(c, k)
                ELSE static_with_safety_margin(c, k)
        /\ aoq = <<>> /\ made = 0 /\ done = {}
        /\ halted = (kind = "dynamic" /\ c > Inline)

QueueNext ==
    \/ QPost \/ StaticPost
    \/ \E k \in Margins : SetSafetyMargin(k)
    \/ Get \/ PostAo \/ Handle \/ defer \/ recall
    \/ \E n \in 1..2 : flush_deferred(n)

QueueSpec == QueueInit /\ [][QueueNext]_queueVars

-----------------------------------------------------------------------------
(* Properties. *)

\* The reserve for critical traffic is there when it is needed: the normal
\* events in the queue, counted up to any one of them, leave the margin that
\* was in force when that one was admitted, however critical posts, deferrals
\* and changes of the margin came between (equeue.rs: post_normal).
MarginKept ==
    \A j \in DOMAIN eq.buffer :
        eq.buffer[j].class = "normal" =>
            Cardinality({k \in DOMAIN eq.buffer :
                            /\ eq.buffer[k].class = "normal"
                            /\ eq.buffer[k].id <= eq.buffer[j].id})
                <= eq.capacity - least(eq.buffer[j].margin, eq.capacity)

Places(i) ==
    Cardinality({k \in DOMAIN eq.buffer : eq.buffer[k].id = i})
      + Cardinality({k \in DOMAIN aoq : aoq[k].id = i})
      + (IF i \in done THEN 1 ELSE 0)

\* Until a fault stops the program, every event is in exactly one place: a
\* refused, shed, deferred, recalled or flushed event is neither lost nor
\* doubled, and no operation on a queue of the configured size runs into the
\* end of the inline storage (equeue.rs: post, post_lifo, recall, flush_deferred).
ExactlyOnce ==
    /\ ~halted => \A i \in 1..made : Places(i) = 1
    /\ halted => eq.capacity > Inline \/ Len(aoq) >= Inline

=============================================================================
