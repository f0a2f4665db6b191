------------------------------- MODULE QfPool -------------------------------
(***************************************************************************)
(* The event memory of crates/qf in the static-alloc build: QMPool (the    *)
(* free list of one pool, pool.rs), PoolRegistry and EventBox (the pools   *)
(* and the unique owner of a new event, event_pool.rs), PoolArc (the       *)
(* counted reference an event queue holds, pool_arc.rs) and DisAtomicU16   *)
(* (its counter, dis.rs).                                                  *)
(*                                                                         *)
(* Threads (active objects, interrupt handlers, cores) allocate, convert,  *)
(* clone and drop handles at any time.  One action is one critical section *)
(* of a pool's spin lock or one atomic access of a counter.  Handles that  *)
(* no thread is working on are a set of boxes and a number of references;  *)
(* they travel between threads through queues, so any thread may pick one. *)
(*                                                                         *)
(* A block is known by its address.  fusa::on_error does not return: it    *)
(* ends the behaviour.                                                     *)
(***************************************************************************)
EXTENDS Integers, FiniteSets

CONSTANTS
    Threads,
    NPools,       \* registered pools, tried in this order
    storage,      \* address of the first block of each pool
    num_blocks,   \* QMPool::num_blocks
    block_size,   \* QMPool::block_size
    Sizes,        \* sizes asked for
    Margins,      \* margins passed to q_new_x
    MAX_COUNT     \* largest reference count: u16::MAX

Pools == 1..NPools
Addr(i) == storage[i] .. storage[i] + num_blocks[i] - 1
Blocks == UNION {Addr(i) : i \in Pools}

(* QMPool::init refuses an empty pool; pools have storage of their own. *)
ASSUME PoolsAssumption ==
    /\ NPools \in Nat
    /\ storage \in [Pools -> Nat]
    /\ num_blocks \in [Pools -> Nat \ {0}]
    /\ block_size \in [Pools -> Nat]
    /\ \A i, j \in Pools : i # j => Addr(i) \cap Addr(j) = {}
ASSUME UseAssumption ==
    /\ IsFiniteSet(Threads)
    /\ Sizes \subseteq Nat
    /\ Margins \subseteq Nat
    /\ MAX_COUNT \in Nat \ {0}

SENTINEL == -1    \* end of a free list
Data == -2        \* the block is handed out: its words are an event's

VARIABLES
    free_head, free_cnt, free_min,   \* QMPool, per pool
    next,        \* first words of a block: its free-list link, or Data
    ref_count,   \* CtrlHeader::ref_count
    pool_id,     \* pool the handles of a block name; 0 for none
    boxes,       \* blocks owned by an EventBox
    refs,        \* PoolArc handles on each block
    pc,          \* what each thread is doing
    block,       \* the block it is working on
    cur,         \* the count it has loaded, in a compare-and-swap loop
    req,         \* the allocation it is making
    fault        \* why on_error was called, or "none"

pools == <<free_head, free_cnt, free_min, next>>
handles == <<ref_count, pool_id, boxes, refs>>
threads == <<pc, block, cur, req>>
vars == <<pools, handles, threads, fault>>

Request == [size : Sizes \cup {0}, margin : Margins \cup {0}, i : 1..NPools + 1,
            then : {"box", "arc", "try_arc"}]

NoRequest == [size |-> 0, margin |-> 0, i |-> 1, then |-> "box"]

PCs == {"idle", "alloc", "write", "free", "rehome", "clone", "drop"}

Running == fault = "none"
At(t, l) == Running /\ pc[t] = l
GoTo(t, l) == pc' = [pc EXCEPT ![t] = l]

(* The call returns and its locals are gone. *)
Return(t) ==
    /\ GoTo(t, "idle")
    /\ block' = [block EXCEPT ![t] = SENTINEL]
    /\ cur' = [cur EXCEPT ![t] = 0]
    /\ req' = [req EXCEPT ![t] = NoRequest]

-----------------------------------------------------------------------------
(* Allocation: q_new_x, PoolArc::from_value and try_from_value *)

Ask(t, size, margin, then) ==
    req' = [req EXCEPT ![t] = [size |-> size, margin |-> margin, i |-> 1, then |-> then]]

q_new_x(t) ==
    /\ At(t, "idle")
    /\ \E size \in Sizes, margin \in Margins : Ask(t, size, margin, "box")
    /\ GoTo(t, "alloc")
    /\ UNCHANGED <<pools, handles, block, cur, fault>>

from_value(t) ==
    /\ At(t, "idle")
    /\ \E size \in Sizes, then \in {"arc", "try_arc"} : Ask(t, size, 0, then)
    /\ GoTo(t, "alloc")
    /\ UNCHANGED <<pools, handles, block, cur, fault>>

can_serve(i, size) == size <= block_size[i]

(* get: exhausted, or fewer than margin blocks would remain. *)
refuses(i, margin) ==
    free_cnt[i] = 0 \/ free_cnt[i] - 1 < margin \/ free_head[i] = SENTINEL

(* One round of alloc: the pool does not fit or refuses. *)
alloc_skip(t) ==
    LET i == req[t].i
    IN  /\ At(t, "alloc")
        /\ i \in Pools
        /\ ~can_serve(i, req[t].size) \/ refuses(i, req[t].margin)
        /\ req' = [req EXCEPT ![t].i = @ + 1]
        /\ UNCHANGED <<pools, handles, pc, block, cur, fault>>

(* One round of alloc: the pool unlinks the head of its free list, whose    *)
(* two copies of the link have to agree.                                    *)
alloc_get(t) ==
    LET i == req[t].i
        b == free_head[i]
    IN  /\ At(t, "alloc")
        /\ i \in Pools
        /\ can_serve(i, req[t].size) /\ ~refuses(i, req[t].margin)
        /\ IF next[b] = Data
             THEN /\ fault' = "corrupt"
                  /\ UNCHANGED <<pools, pool_id, pc, block>>
             ELSE /\ free_head' = [free_head EXCEPT ![i] = next[b]]
                  /\ free_cnt' = [free_cnt EXCEPT ![i] = @ - 1]
                  /\ free_min' = [free_min EXCEPT ![i] =
                                    IF free_cnt[i] - 1 < @ THEN free_cnt[i] - 1 ELSE @]
                  /\ next' = [next EXCEPT ![b] = Data]
                  /\ pool_id' = [pool_id EXCEPT ![b] = i]
                  /\ block' = [block EXCEPT ![t] = b]
                  /\ GoTo(t, "write")
                  /\ UNCHANGED fault
        /\ UNCHANGED <<ref_count, boxes, refs, cur, req>>

(* No pool served: None, which is an error in from_value. *)
alloc_none(t) ==
    /\ At(t, "alloc")
    /\ req[t].i = NPools + 1
    /\ IF req[t].then = "arc"
         THEN fault' = "exhausted" /\ UNCHANGED threads
         ELSE Return(t) /\ UNCHANGED fault
    /\ UNCHANGED <<pools, handles>>

(* The new block is written and its first handle returned. *)
write(t) ==
    LET b == block[t]
    IN  /\ At(t, "write")
        /\ IF req[t].then = "box"
             THEN boxes' = boxes \cup {b} /\ UNCHANGED <<ref_count, refs>>
             ELSE /\ ref_count' = [ref_count EXCEPT ![b] = 1]
                  /\ refs' = [refs EXCEPT ![b] = 1]
                  /\ UNCHANGED boxes
        /\ Return(t)
        /\ UNCHANGED <<pools, pool_id, fault>>

-----------------------------------------------------------------------------
(* Giving up and sharing handles *)

(* EventBox::into_dyn: the payload is moved out, the block freed, and a new *)
(* one allocated for the PoolArc.                                           *)
into_dyn(t, b) ==
    /\ At(t, "idle")
    /\ b \in boxes
    /\ boxes' = boxes \ {b}
    /\ block' = [block EXCEPT ![t] = b]
    /\ \E size \in Sizes : Ask(t, size, 0, "arc")
    /\ GoTo(t, "rehome")
    /\ UNCHANGED <<pools, ref_count, pool_id, refs, cur, fault>>

(* Drop of an EventBox: the value, then the block. *)
drop_box(t, b) ==
    /\ At(t, "idle")
    /\ b \in boxes
    /\ boxes' = boxes \ {b}
    /\ block' = [block EXCEPT ![t] = b]
    /\ GoTo(t, "free")
    /\ UNCHANGED <<pools, ref_count, pool_id, refs, cur, req, fault>>

PutInto(t, i, b) ==
    /\ Running
    /\ pc[t] \in {"free", "rehome"}
    /\ next' = [next EXCEPT ![b] = free_head[i]]
    /\ free_head' = [free_head EXCEPT ![i] = b]
    /\ free_cnt' = [free_cnt EXCEPT ![i] = @ + 1]
    /\ pool_id' = [pool_id EXCEPT ![b] = 0]
    /\ IF pc[t] = "free"
         THEN Return(t)
         ELSE /\ GoTo(t, "alloc")
              /\ block' = [block EXCEPT ![t] = SENTINEL]
              /\ UNCHANGED <<cur, req>>
    /\ UNCHANGED <<free_min, ref_count, boxes, refs, fault>>

(* Mutant: pool ids are 1-based, the slots are not. *)
free_off_by_one(t) ==
    PutInto(t, IF pool_id[block[t]] > 1 THEN pool_id[block[t]] - 1 ELSE 1, block[t])

(* PoolRegistry::free: QMPool::put links the block into its pool. *)
free(t) == PutInto(t, pool_id[block[t]], block[t])

(* Clone borrows a handle, which lives on until the clone is there; the     *)
(* counter is read and replaced in a compare-and-swap loop, whose weak swap *)
(* may fail without reason.                                                 *)
clone(t, b) ==
    /\ At(t, "idle")
    /\ refs[b] > 0
    /\ cur' = [cur EXCEPT ![t] = ref_count[b]]
    /\ block' = [block EXCEPT ![t] = b]
    /\ GoTo(t, "clone")
    /\ UNCHANGED <<pools, handles, req, fault>>

Cloned(t, b) ==
    /\ ref_count' = [ref_count EXCEPT ![b] = cur[t] + 1]
    /\ refs' = [refs EXCEPT ![b] = @ + 1]
    /\ Return(t)
    /\ UNCHANGED fault

Retry(t, b) ==
    /\ cur' = [cur EXCEPT ![t] = ref_count[b]]
    /\ UNCHANGED <<ref_count, refs, pc, block, req, fault>>

(* Mutant: a plain load and store instead of the loop. *)
increment_no_cas(t) ==
    /\ At(t, "clone")
    /\ cur[t] < MAX_COUNT
    /\ Cloned(t, block[t])
    /\ UNCHANGED <<pools, pool_id, boxes>>

(* DisAtomicU16::increment: overflow is an error. *)
increment(t) ==
    LET b == block[t]
    IN  /\ At(t, "clone")
        /\ \/ /\ cur[t] = MAX_COUNT
              /\ fault' = "overflow"
              /\ UNCHANGED <<ref_count, refs, threads>>
           \/ cur[t] < MAX_COUNT /\ cur[t] = ref_count[b] /\ Cloned(t, b)
           \/ cur[t] < MAX_COUNT /\ Retry(t, b)
        /\ UNCHANGED <<pools, pool_id, boxes>>

(* Drop of a PoolArc: the handle is gone when the call starts.  One that is *)
(* being cloned from cannot be dropped.                                     *)
drop(t, b) ==
    /\ At(t, "idle")
    /\ refs[b] > 0
    /\ refs[b] > 1 \/ \A u \in Threads : ~(pc[u] = "clone" /\ block[u] = b)
    /\ refs' = [refs EXCEPT ![b] = @ - 1]
    /\ cur' = [cur EXCEPT ![t] = ref_count[b]]
    /\ block' = [block EXCEPT ![t] = b]
    /\ GoTo(t, "drop")
    /\ UNCHANGED <<pools, ref_count, pool_id, boxes, req, fault>>

Decrement(t, last) ==
    LET b == block[t]
    IN  /\ At(t, "drop")
        /\ \/ /\ cur[t] = 0
              /\ fault' = "underflow"
              /\ UNCHANGED <<ref_count, refs, threads>>
           \/ /\ cur[t] > 0 /\ cur[t] = ref_count[b]
              /\ ref_count' = [ref_count EXCEPT ![b] = cur[t] - 1]
              /\ IF last THEN GoTo(t, "free") /\ UNCHANGED <<block, cur, req>>
                         ELSE Return(t)
              /\ UNCHANGED <<refs, fault>>
           \/ cur[t] > 0 /\ Retry(t, b)
        /\ UNCHANGED <<pools, pool_id, boxes>>

(* DisAtomicU16::decrement, and what PoolArc::drop does with its result:    *)
(* the last reference drops the value and frees the block.                  *)
decrement(t) == Decrement(t, cur[t] = 1)

-----------------------------------------------------------------------------
(* init_pool has registered the pools: each free list runs through its      *)
(* storage.                                                                 *)
Init ==
    /\ free_head = storage
    /\ free_cnt = num_blocks
    /\ free_min = num_blocks
    /\ next = [b \in Blocks |-> IF \E i \in Pools : {b, b + 1} \subseteq Addr(i)
                                THEN b + 1 ELSE SENTINEL]
    /\ ref_count = [b \in Blocks |-> 0]
    /\ pool_id = [b \in Blocks |-> 0]
    /\ boxes = {}
    /\ refs = [b \in Blocks |-> 0]
    /\ pc = [t \in Threads |-> "idle"]
    /\ block = [t \in Threads |-> SENTINEL]
    /\ cur = [t \in Threads |-> 0]
    /\ req = [t \in Threads |-> NoRequest]
    /\ fault = "none"

Call(t) ==
    \/ q_new_x(t)
    \/ from_value(t)
    \/ \E b \in Blocks : into_dyn(t, b) \/ drop_box(t, b) \/ clone(t, b) \/ drop(t, b)

Step(t) ==
    \/ alloc_skip(t) \/ alloc_get(t) \/ alloc_none(t) \/ write(t)
    \/ free(t)
    \/ increment(t)
    \/ decrement(t)

(* on_error never returns. *)
halted == fault # "none" /\ UNCHANGED vars

Next == halted \/ \E t \in Threads : Call(t) \/ Step(t)

Spec == Init /\ [][Next]_vars

-----------------------------------------------------------------------------
(* Properties *)

TypeOK ==
    /\ free_head \in [Pools -> Blocks \cup {SENTINEL}]
    /\ free_cnt \in [Pools -> Nat]
    /\ free_min \in [Pools -> Nat]
    /\ next \in [Blocks -> Blocks \cup {SENTINEL, Data}]
    /\ ref_count \in [Blocks -> 0..MAX_COUNT]
    /\ pool_id \in [Blocks -> 0..NPools]
    /\ boxes \in SUBSET Blocks
    /\ refs \in [Blocks -> Nat]
    /\ pc \in [Threads -> PCs]
    /\ block \in [Threads -> Blocks \cup {SENTINEL}]
    /\ cur \in [Threads -> 0..MAX_COUNT]
    /\ req \in [Threads -> Request]
    /\ fault \in {"none", "exhausted", "overflow", "underflow", "corrupt"}

(* Threads that own b themselves: they have taken it and not yet made a     *)
(* handle of it, or given up a handle and not yet freed it.                 *)
Holding(b) == {t \in Threads : pc[t] \in {"write", "free", "rehome"} /\ block[t] = b}

(* Threads that drop a reference to b and have not decremented its count.   *)
Dropping(b) == {t \in Threads : pc[t] = "drop" /\ block[t] = b}

Unowned(b) == b \notin boxes /\ refs[b] = 0 /\ Dropping(b) = {} /\ Holding(b) = {}

(* The free list of every pool is intact whatever was allocated and freed   *)
(* in whatever order: from free_head it runs through exactly free_cnt       *)
(* different blocks to the sentinel, and these are the blocks of the pool   *)
(* that nobody owns: none lost, none still in use.                          *)
IsFreeList(i, l) ==
    /\ \A k, m \in 1..free_cnt[i] : l[k] = l[m] => k = m
    /\ free_head[i] = IF free_cnt[i] = 0 THEN SENTINEL ELSE l[1]
    /\ \A k \in 1..free_cnt[i] :
        next[l[k]] = IF k = free_cnt[i] THEN SENTINEL ELSE l[k + 1]
    /\ \A b \in Addr(i) : Unowned(b) <=> \E k \in 1..free_cnt[i] : l[k] = b

FreeListIntact ==
    \A i \in Pools : \E l \in [1..free_cnt[i] -> Addr(i)] : IsFreeList(i, l)

(* A block has one owner: a box, a thread at work on it, or its counted     *)
(* references, whose number is the count, dropping threads included.        *)
OneOwner(b) ==
    /\ ref_count[b] = refs[b] + Cardinality(Dropping(b))
    /\ b \in boxes => ref_count[b] = 0 /\ Holding(b) = {}
    /\ Holding(b) # {} => ref_count[b] = 0
    /\ \A t, u \in Holding(b) : t = u

CountIsReferences == \A b \in Blocks : OneOwner(b)

(* The integrity checks never fire: no count underflows ("a decrement at    *)
(* zero indicates a double-free"), no free list runs into a used block.     *)
NoFalseFault == fault \notin {"underflow", "corrupt"}

(* The pools implement PoolAbs. *)
holders ==
    [b \in Blocks |-> (IF b \in boxes THEN 1 ELSE 0) + refs[b]
                        + Cardinality(Dropping(b) \cup Holding(b))]

Abs == INSTANCE PoolAbs

HandsOutFreeBlocks == Abs!Spec
=============================================================================
