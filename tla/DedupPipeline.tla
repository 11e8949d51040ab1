--------------------------- MODULE DedupPipeline ---------------------------
(***************************************************************************)
(* The write path of VeratyFS.py with the rocksdb backend: dedup and        *)
(* update_index on the thread that serves requests (here "main"), the       *)
(* writer threads (write_new_blocks), the garbage collector thread, and the *)
(* reading of a block (get_file_data).  They share hash_table, write_buffer,*)
(* write_read_cache, the datastores and GC.remove_uses without a lock, so   *)
(* an action is the code between two accesses another thread can tell apart.*)
(*                                                                          *)
(* Block objects have identity: dedup puts one object of class Block in     *)
(* hash_table when it queues a block ("adv", in advance), the writer        *)
(* another one when the block is on disk ("fin").  A thread that fetched    *)
(* one of them goes on using it after the table holds the other.            *)
(*                                                                          *)
(* Left out: what WriteBuffer (the wait in append) and WriteBackMap (the    *)
(* pending entries and commit) model; the mirror datastore, which no read   *)
(* uses; free_blocks, which only the mmap backend reads; read_cache and     *)
(* small_block_read_cache, which hold the right content when they hold any  *)
(* and can lose any block at any time: a read they serve changes nothing.   *)
(***************************************************************************)
EXTENDS Integers, Sequences, FiniteSets

CONSTANTS
    Hashes,         \* blocks, named by the hash of their content
    Workers,        \* writer threads
    Stores,         \* datastores
    FirstStore,     \* datastore 0, where a new Block says it is
    Small,          \* blocks of at most small_block_limit bytes
    SmallDbOpens,   \* small_block_db_path names one database, not a list
    WritesMayFail,  \* the datastores can be full or broken
    MaxDedups       \* bound: how many blocks clients write

ASSUME DedupAssumption ==
    /\ Hashes # {}
    /\ FirstStore \in Stores
    /\ Small \subseteq Hashes
    /\ SmallDbOpens \in BOOLEAN
    /\ WritesMayFail \in BOOLEAN
    /\ MaxDedups \in Nat

VARIABLES
    table,              \* hash_table.d: which Block object each hash has
    block,              \* the Block objects
    write_buffer,       \* blocks to write, oldest first
    write_read_cache,   \* blocks kept in memory until they are written
    store,              \* the blocks each datastore has
    remove_uses,        \* GC.remove_uses
    main, worker, gc,   \* where each thread is, with its local variables
    refs,               \* history: FileBlocks handed to files, not released
    dedups              \* bound: calls of dedup so far

vars == <<table, block, write_buffer, write_read_cache, store, remove_uses,
          main, worker, gc, refs, dedups>>

Objects == {"adv", "fin"}
Block == [uses : Int, chunk : Stores, DELETED : BOOLEAN, timed : BOOLEAN]

(* Block(): no use, datastore 0 until told otherwise, no DELETION_TIME.     *)
NewBlock(chunk) == [uses |-> 0, chunk |-> chunk, DELETED |-> FALSE, timed |-> FALSE]

MainSteps == {"idle", "append", "register", "bump", "put", "mark", "unput",
              "fetch", "ioerror"}
WorkerSteps == {"poll", "commit", "uncache", "publish", "load", "bump", "put"}
GcSteps == {"sleep", "scan", "load", "store", "check", "dead"}

MainState == [pc : MainSteps, h : Hashes, obj : Objects, n : Int]
WorkerState ==
    [pc : WorkerSteps, h : Hashes, obj : Objects, n : Int, chunk : Stores]
GcState == [pc : GcSteps, h : Hashes, n : Int]

InTable(h) == table[h] # "none"
OnDisk(h) == \E s \in Stores : h \in store[s]
Held(h) == h \in write_read_cache \/ OnDisk(h)
Entry(h) == block[h][table[h]]

TypeOK ==
    /\ table \in [Hashes -> Objects \union {"none"}]
    /\ block \in [Hashes -> [Objects -> Block]]
    /\ write_buffer \in Seq(Hashes)
    /\ write_read_cache \subseteq Hashes
    /\ store \in [Stores -> SUBSET Hashes]
    /\ remove_uses \in Seq(Hashes)
    /\ main \in MainState
    /\ worker \in [Workers -> WorkerState]
    /\ gc \in GcState
    /\ refs \in [Hashes -> Nat]
    /\ dedups \in Nat

(* A thread at a step, with the values of its local variables; those that   *)
(* it does not need there have a fixed one.                                 *)
AnyHash == CHOOSE h \in Hashes : TRUE
MainAt(pc, h, obj, n) == [pc |-> pc, h |-> h, obj |-> obj, n |-> n]
WorkerAt(pc, h, obj, n, chunk) ==
    [pc |-> pc, h |-> h, obj |-> obj, n |-> n, chunk |-> chunk]
GcAt(pc, h, n) == [pc |-> pc, h |-> h, n |-> n]
IdleMain == MainAt("idle", AnyHash, "adv", 0)
IdleWorker == WorkerAt("poll", AnyHash, "adv", 0, FirstStore)
IdleGc(pc) == GcAt(pc, AnyHash, 0)

(* A Block with some of its attributes set. *)
WithUses(b, n) ==
    [uses |-> n, chunk |-> b.chunk, DELETED |-> b.DELETED, timed |-> b.timed]
Marked(b, timed) ==
    [uses |-> b.uses, chunk |-> b.chunk, DELETED |-> TRUE, timed |-> timed]

Init ==
    /\ table = [h \in Hashes |-> "none"]
    /\ block = [h \in Hashes |-> [o \in Objects |-> NewBlock(FirstStore)]]
    /\ write_buffer = << >>
    /\ write_read_cache = {}
    /\ store = [s \in Stores |-> {}]
    /\ remove_uses = << >>
    /\ main = IdleMain
    /\ worker = [w \in Workers |-> IdleWorker]
    /\ gc = IdleGc("sleep")
    /\ refs = [h \in Hashes |-> 0]
    /\ dedups = 0

(* hash_table[h] = obj *)
SetEntry(h, obj) == table' = [table EXCEPT ![h] = obj]

-----------------------------------------------------------------------------
(* Main: dedup of a block the table does not know.                          *)

(* Mutant: dedup writes a block again when its entry is DELETED. *)
DedupMissDeleted(h) ==
    /\ main.pc = "idle"
    /\ dedups < MaxDedups
    /\ InTable(h) => Entry(h).DELETED
    /\ write_read_cache' = write_read_cache \union {h}
    /\ main' = MainAt("append", h, "adv", 0)
    /\ dedups' = dedups + 1
    /\ UNCHANGED <<table, block, write_buffer, store, remove_uses, worker,
                   gc, refs>>

DedupMiss(h) ==
    /\ main.pc = "idle"
    /\ dedups < MaxDedups
    /\ ~ InTable(h)
    /\ write_read_cache' = write_read_cache \union {h}
    /\ main' = MainAt("append", h, "adv", 0)
    /\ dedups' = dedups + 1
    /\ UNCHANGED <<table, block, write_buffer, store, remove_uses, worker,
                   gc, refs>>

(* write_buffer.append(q), once it is done waiting for room. *)
AppendWrite ==
    /\ main.pc = "append"
    /\ write_buffer' = Append(write_buffer, main.h)
    /\ main' = MainAt("register", main.h, "adv", 0)
    /\ UNCHANGED <<table, block, write_read_cache, store, remove_uses,
                   worker, gc, refs, dedups>>

(* The entry "in advance", whatever the writers did meanwhile; the FileBlock *)
(* goes to the file.                                                        *)
Register ==
    /\ main.pc = "register"
    /\ SetEntry(main.h, "adv")
    /\ block' = [block EXCEPT ![main.h]["adv"] = NewBlock(FirstStore)]
    /\ refs' = [refs EXCEPT ![main.h] = @ + 1]
    /\ main' = IdleMain
    /\ UNCHANGED <<write_buffer, write_read_cache, store, remove_uses,
                   worker, gc, dedups>>

(* Main: dedup of a block the table knows; update_index(add=True) fetches   *)
(* the entry, writes uses + 1 into it and puts it back.                     *)

DedupHit(h) ==
    /\ main.pc = "idle"
    /\ dedups < MaxDedups
    /\ InTable(h)
    /\ main' = MainAt("bump", h, table[h], Entry(h).uses + 1)
    /\ dedups' = dedups + 1
    /\ UNCHANGED <<table, block, write_buffer, write_read_cache, store,
                   remove_uses, worker, gc, refs>>

HitBump ==
    /\ main.pc = "bump"
    /\ block' = [block EXCEPT ![main.h][main.obj] = WithUses(@, main.n)]
    /\ main' = MainAt("put", main.h, main.obj, 0)
    /\ UNCHANGED <<table, write_buffer, write_read_cache, store, remove_uses,
                   worker, gc, refs, dedups>>

HitPut ==
    /\ main.pc = "put"
    /\ SetEntry(main.h, main.obj)
    /\ refs' = [refs EXCEPT ![main.h] = @ + 1]
    /\ main' = IdleMain
    /\ UNCHANGED <<block, write_buffer, write_read_cache, store, remove_uses,
                   worker, gc, dedups>>

(* Main: update_index(add=False) for a block of a file that goes away.  The *)
(* test uses - uses <= 0 holds whatever uses is.                            *)

(* Mutant: an inode is removed twice. *)
ReleaseTwice(h) ==
    /\ main.pc = "idle"
    /\ InTable(h)
    /\ remove_uses' = Append(remove_uses, h)
    /\ main' = MainAt("mark", h, "adv", 0)
    /\ UNCHANGED <<table, block, write_buffer, write_read_cache, store,
                   worker, gc, refs, dedups>>

Release(h) ==
    /\ main.pc = "idle"
    /\ refs[h] > 0
    /\ InTable(h)
    /\ remove_uses' = Append(remove_uses, h)
    /\ main' = MainAt("mark", h, "adv", 0)
    /\ UNCHANGED <<table, block, write_buffer, write_read_cache, store,
                   worker, gc, refs, dedups>>

ReleaseMark ==
    /\ main.pc = "mark"
    /\ block' = [block EXCEPT ![main.h][table[main.h]] = Marked(@, TRUE)]
    /\ main' = MainAt("unput", main.h, table[main.h], 0)
    /\ UNCHANGED <<table, write_buffer, write_read_cache, store, remove_uses,
                   worker, gc, refs, dedups>>

ReleasePut ==
    /\ main.pc = "unput"
    /\ SetEntry(main.h, main.obj)
    /\ refs' = [refs EXCEPT ![main.h] = @ - 1]
    /\ main' = IdleMain
    /\ UNCHANGED <<block, write_buffer, write_read_cache, store, remove_uses,
                   worker, gc, dedups>>

(* Main: get_file_data of a block of a file that is in no cache.            *)

ReadMiss(h) ==
    /\ main.pc = "idle"
    /\ refs[h] > 0
    /\ h \notin write_read_cache
    /\ main' = MainAt("fetch", h, "adv", 0)
    /\ UNCHANGED <<table, block, write_buffer, write_read_cache, store,
                   remove_uses, worker, gc, refs, dedups>>

(* read_data from the datastore the entry names; a missing block comes back *)
(* as no bytes, whose hash is not the one asked for.                        *)
ReadFetch ==
    /\ main.pc = "fetch"
    /\ \/ /\ main.h \in store[Entry(main.h).chunk]
          /\ main' = IdleMain
       \/ /\ main.h \notin store[Entry(main.h).chunk]
          /\ main' = MainAt("ioerror", main.h, "adv", 0)
    /\ UNCHANGED <<table, block, write_buffer, write_read_cache, store,
                   remove_uses, worker, gc, refs, dedups>>

Main ==
    \/ \E h \in Hashes : DedupMiss(h) \/ DedupHit(h) \/ Release(h) \/ ReadMiss(h)
    \/ AppendWrite \/ Register \/ HitBump \/ HitPut
    \/ ReleaseMark \/ ReleasePut \/ ReadFetch

-----------------------------------------------------------------------------
(* A writer thread: one iteration of write_new_blocks.                      *)

At(w, pc, obj, n, chunk) ==
    worker' = [worker EXCEPT ![w] = WorkerAt(pc, worker[w].h, obj, n, chunk)]

(* Mutant: the block leaves memory when the writer takes it. *)
PopWriteUncaches(w) ==
    /\ worker[w].pc = "poll"
    /\ write_buffer # << >>
    /\ worker' = [worker EXCEPT
                    ![w] = WorkerAt("commit", Head(write_buffer), "adv", 0, FirstStore)]
    /\ write_buffer' = Tail(write_buffer)
    /\ write_read_cache' = write_read_cache \ {Head(write_buffer)}
    /\ UNCHANGED <<table, block, store, remove_uses, main, gc, refs, dedups>>

PopWrite(w) ==
    /\ worker[w].pc = "poll"
    /\ write_buffer # << >>
    /\ worker' = [worker EXCEPT
                    ![w] = WorkerAt("commit", Head(write_buffer), "adv", 0, FirstStore)]
    /\ write_buffer' = Tail(write_buffer)
    /\ UNCHANGED <<table, block, write_read_cache, store, remove_uses, main,
                   gc, refs, dedups>>

(* commit_data picks a datastore and puts the block. *)
CommitData(w) ==
    /\ worker[w].pc = "commit"
    /\ \E s \in Stores :
        /\ store' = [store EXCEPT ![s] = @ \union {worker[w].h}]
        /\ At(w, "uncache", "adv", 0, s)
    /\ UNCHANGED <<table, block, write_buffer, write_read_cache, remove_uses,
                   main, gc, refs, dedups>>

(* Mutant: a failed write leaves memory as a successful one does. *)
CommitFailsUncaches(w) ==
    /\ worker[w].pc = "commit"
    /\ WritesMayFail
    /\ write_read_cache' = write_read_cache \ {worker[w].h}
    /\ worker' = [worker EXCEPT ![w] = IdleWorker]
    /\ UNCHANGED <<table, block, write_buffer, store, remove_uses, main, gc,
                   refs, dedups>>

(* commit_data raises: no datastore has room, or the first copy is written  *)
(* and the mirror is full.  The exception is logged and the block dropped.  *)
CommitFails(w) ==
    /\ worker[w].pc = "commit"
    /\ WritesMayFail
    /\ \/ UNCHANGED store
       \/ \E s \in Stores : store' = [store EXCEPT ![s] = @ \union {worker[w].h}]
    /\ worker' = [worker EXCEPT ![w] = IdleWorker]
    /\ UNCHANGED <<table, block, write_buffer, write_read_cache, remove_uses,
                   main, gc, refs, dedups>>

Uncache(w) ==
    /\ worker[w].pc = "uncache"
    /\ write_read_cache' = write_read_cache \ {worker[w].h}
    /\ At(w, "publish", "adv", 0, worker[w].chunk)
    /\ UNCHANGED <<table, block, write_buffer, store, remove_uses, main, gc,
                   refs, dedups>>

(* hash_table[q['hash']] = b, a new Block with the datastore of the block.  *)
Publish(w) ==
    /\ worker[w].pc = "publish"
    /\ SetEntry(worker[w].h, "fin")
    /\ block' = [block EXCEPT ![worker[w].h]["fin"] = NewBlock(worker[w].chunk)]
    /\ At(w, "load", "adv", 0, FirstStore)
    /\ UNCHANGED <<write_buffer, write_read_cache, store, remove_uses, main,
                   gc, refs, dedups>>

(* update_index(add=True), as in DedupHit. *)
WorkerLoad(w) ==
    /\ worker[w].pc = "load"
    /\ At(w, "bump", table[worker[w].h], Entry(worker[w].h).uses + 1, FirstStore)
    /\ UNCHANGED <<table, block, write_buffer, write_read_cache, store,
                   remove_uses, main, gc, refs, dedups>>

WorkerBump(w) ==
    /\ worker[w].pc = "bump"
    /\ block' = [block EXCEPT ![worker[w].h][worker[w].obj] = WithUses(@, worker[w].n)]
    /\ At(w, "put", worker[w].obj, 0, FirstStore)
    /\ UNCHANGED <<table, write_buffer, write_read_cache, store, remove_uses,
                   main, gc, refs, dedups>>

WorkerPut(w) ==
    /\ worker[w].pc = "put"
    /\ SetEntry(worker[w].h, worker[w].obj)
    /\ worker' = [worker EXCEPT ![w] = IdleWorker]
    /\ UNCHANGED <<block, write_buffer, write_read_cache, store, remove_uses,
                   main, gc, refs, dedups>>

Worker(w) ==
    \/ PopWrite(w) \/ CommitData(w) \/ CommitFails(w) \/ Uncache(w)
    \/ Publish(w) \/ WorkerLoad(w) \/ WorkerBump(w) \/ WorkerPut(w)

-----------------------------------------------------------------------------
(* The persist thread: garbage_collector, again and again.                  *)

GcWake ==
    /\ gc.pc = "sleep"
    /\ gc' = IdleGc("scan")
    /\ UNCHANGED <<table, block, write_buffer, write_read_cache, store,
                   remove_uses, main, worker, refs, dedups>>

GcPop ==
    /\ gc.pc = "scan"
    /\ remove_uses # << >>
    /\ remove_uses' = Tail(remove_uses)
    /\ gc' = GcAt("load", Head(remove_uses), 0)
    /\ UNCHANGED <<table, block, write_buffer, write_read_cache, store, main,
                   worker, refs, dedups>>

(* hash_table[remove].uses = hash_table[remove].uses - 1 looks the entry up *)
(* to read and again to write.                                              *)
GcLoad ==
    /\ gc.pc = "load"
    /\ gc' = GcAt("store", gc.h, Entry(gc.h).uses - 1)
    /\ UNCHANGED <<table, block, write_buffer, write_read_cache, store,
                   remove_uses, main, worker, refs, dedups>>

GcStore ==
    /\ gc.pc = "store"
    /\ block' = [block EXCEPT ![gc.h][table[gc.h]] = WithUses(@, gc.n)]
    /\ gc' = GcAt("check", gc.h, 0)
    /\ UNCHANGED <<table, write_buffer, write_read_cache, store, remove_uses,
                   main, worker, refs, dedups>>

(* uses is above -1: nothing to reclaim. *)
GcKeep ==
    /\ gc.pc = "check"
    /\ Entry(gc.h).uses > -1
    /\ gc' = IdleGc("scan")
    /\ UNCHANGED <<table, block, write_buffer, write_read_cache, store,
                   remove_uses, main, worker, refs, dedups>>

(* The block is marked; if it was released less than five seconds ago, or   *)
(* has no DELETION_TIME and gets one now, that is all.                      *)
GcMark ==
    /\ gc.pc = "check"
    /\ Entry(gc.h).uses <= -1
    /\ block' = [block EXCEPT ![gc.h][table[gc.h]] = Marked(@, TRUE)]
    /\ gc' = IdleGc("scan")
    /\ UNCHANGED <<table, write_buffer, write_read_cache, store, remove_uses,
                   main, worker, refs, dedups>>

(* Mutant: reclaiming deletes the block from its datastore. *)
GcReclaimDeletes ==
    /\ gc.pc = "check"
    /\ Entry(gc.h).uses <= -1
    /\ Entry(gc.h).timed
    /\ store' = [s \in Stores |-> store[s] \ {gc.h}]
    /\ gc' = IdleGc("scan")
    /\ UNCHANGED <<table, block, write_buffer, write_read_cache, remove_uses,
                   main, worker, refs, dedups>>

(* The block was released more than five seconds ago.  A small one is       *)
(* deleted from the small block database, where the rocksdb backend never   *)
(* puts one; opening that database with the list of the shipped config, or  *)
(* the arithmetic on a method for a large block, raises TypeError and ends  *)
(* the thread before anything is deleted from a datastore.                  *)
GcReclaim ==
    /\ gc.pc = "check"
    /\ Entry(gc.h).uses <= -1
    /\ Entry(gc.h).timed
    /\ block' = [block EXCEPT ![gc.h][table[gc.h]] = Marked(@, @.timed)]
    /\ gc' = IdleGc(IF gc.h \in Small /\ SmallDbOpens THEN "scan" ELSE "dead")
    /\ UNCHANGED <<table, write_buffer, write_read_cache, store, remove_uses,
                   main, worker, refs, dedups>>

(* The queue is empty: hash_table.commit(), which WriteBackMap models. *)
GcCommit ==
    /\ gc.pc = "scan"
    /\ remove_uses = << >>
    /\ gc' = IdleGc("sleep")
    /\ UNCHANGED <<table, block, write_buffer, write_read_cache, store,
                   remove_uses, main, worker, refs, dedups>>

Gc == GcWake \/ GcPop \/ GcLoad \/ GcStore \/ GcKeep \/ GcMark \/ GcReclaim
      \/ GcCommit

-----------------------------------------------------------------------------
Next == Main \/ (\E w \in Workers : Worker(w)) \/ Gc

SafetySpec == Init /\ [][Next]_vars

(* What the main thread has begun it ends. *)
MainGoesOn == AppendWrite \/ Register \/ HitBump \/ HitPut \/ ReleaseMark
              \/ ReleasePut \/ ReadFetch

(* Python schedules every thread again and again; nothing obliges a client  *)
(* to write, read or delete.                                                *)
Fairness ==
    /\ WF_vars(MainGoesOn)
    /\ \A w \in Workers : WF_vars(Worker(w))
    /\ WF_vars(Gc)

Spec == SafetySpec /\ Fairness

-----------------------------------------------------------------------------
(* Safety.                                                                  *)

Queue == 1..Len(write_buffer)
QueuePositions(h) == {i \in Queue : write_buffer[i] = h}
Busy(w) == worker[w].pc # "poll"
Unwritten(w) == worker[w].pc \in {"commit", "uncache"}

(* dedup queues a block once in the life of the process, though it tests    *)
(* the table before it fills it in: no two writers ever work on the same    *)
(* block, and none works on a block that is queued again.                   *)
OneWriterPerBlock ==
    \A h \in Hashes :
        /\ \A i, j \in QueuePositions(h) : i = j
        /\ \A v, w \in Workers :
             Busy(v) /\ Busy(w) /\ worker[v].h = h /\ worker[w].h = h => v = w
        /\ \A w \in Workers :
             Busy(w) /\ worker[w].h = h => QueuePositions(h) = {}

(* A block that waits to be written is still in write_read_cache, so        *)
(* deleting it there never fails ("cache error" at write_new_blocks).       *)
WriterFindsBlock ==
    /\ \A i \in Queue : write_buffer[i] \in write_read_cache
    /\ \A w \in Workers : Unwritten(w) => worker[w].h \in write_read_cache

(* A block some file refers to is in write_read_cache or in a datastore,    *)
(* also when its write failed, when other files that share it are deleted   *)
(* and whatever the garbage collector makes of its use count.               *)
NoBlockLost == \A h \in Hashes : refs[h] > 0 => Held(h)

(* No read of a block that a file refers to ends in IOError: between the    *)
(* moment the writer drops the block from memory and the moment its final   *)
(* entry names the datastore, the entry made in advance must do.            *)
ReadSucceeds == main.pc # "ioerror"

BS == INSTANCE BlockStore WITH held <- {h \in Hashes : Held(h)}

(* The pipeline keeps the promise of the abstract block store.              *)
ImplementsBlockStore == BS!Spec

-----------------------------------------------------------------------------
(* What comments, tests and the config say and the code does not keep.      *)

(* Above update_index: "when it reaches zero, it must be removed or         *)
(* overwritten".                                                            *)
UnusedIsReclaimed ==
    \A h \in Hashes : OnDisk(h) /\ refs[h] = 0 ~> ~ OnDisk(h) \/ refs[h] > 0
=============================================================================
