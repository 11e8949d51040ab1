------------------------- MODULE DedupPipelineProofs -------------------------
(***************************************************************************)
(* Safety of the write path for every set of blocks, writer threads and     *)
(* datastores.  The invariants of DedupPipeline are not inductive: they     *)
(* rest on what each thread may rely on at each of its steps, stated below. *)
(***************************************************************************)
EXTENDS DedupPipeline, TLAPS

(* The main thread has the block in its hands but not yet in the table.     *)
Registering(h) == main.pc = "register" /\ main.h = h

(* No writer has seen the block or will.                                    *)
Untouched(h) ==
    /\ QueuePositions(h) = {}
    /\ \A w \in Workers : Busy(w) => worker[w].h # h

MainInv ==
    /\ main.pc = "append" =>
        /\ main.h \in write_read_cache
        /\ ~ InTable(main.h)
        /\ Untouched(main.h)
    /\ main.pc = "register" => Held(main.h)
    /\ main.pc \in {"bump", "put", "mark", "unput", "fetch"} => InTable(main.h)
    /\ main.pc \in {"mark", "unput"} => refs[main.h] > 0
    /\ main.pc = "fetch" => OnDisk(main.h)

(* What a writer works on is in the table or on its way there: this is why  *)
(* dedup never queues it again.                                             *)
WriterInv ==
    /\ \A i \in Queue : InTable(write_buffer[i]) \/ Registering(write_buffer[i])
    /\ \A w \in Workers :
        /\ Busy(w) => InTable(worker[w].h) \/ Registering(worker[w].h)
        /\ worker[w].pc \in {"uncache", "publish"} => OnDisk(worker[w].h)
        /\ worker[w].pc \in {"load", "bump", "put"} => InTable(worker[w].h)

GcInv ==
    /\ \A i \in 1..Len(remove_uses) : InTable(remove_uses[i])
    /\ gc.pc \in {"load", "store", "check"} => InTable(gc.h)

(* The table only knows blocks that are held, files only refer to blocks    *)
(* the table knows.                                                         *)
TableInv ==
    \A h \in Hashes :
        /\ InTable(h) => Held(h)
        /\ refs[h] > 0 => InTable(h)

IInv ==
    /\ TypeOK
    /\ OneWriterPerBlock
    /\ WriterFindsBlock
    /\ MainInv
    /\ WriterInv
    /\ GcInv
    /\ TableInv

-----------------------------------------------------------------------------
(* The states of the threads and the Block objects have their types.        *)

(* There is a block for the idle states to name.                            *)
LEMMA AnyHashType == AnyHash \in Hashes
  BY DedupAssumption DEF AnyHash

(* A thread between two pieces of work is in a state of its type.           *)
LEMMA IdleTypes ==
  /\ IdleMain \in MainState
  /\ IdleWorker \in WorkerState
  /\ \A pc \in GcSteps : IdleGc(pc) \in GcState
<1>1. FirstStore \in Stores
  BY DedupAssumption
<1>2. IdleMain \in MainState
  BY AnyHashType DEF IdleMain, MainAt, MainState, MainSteps, Objects
<1>3. IdleWorker \in WorkerState
  BY <1>1, AnyHashType DEF IdleWorker, WorkerAt, WorkerState, WorkerSteps, Objects
<1>4. ASSUME NEW pc \in GcSteps PROVE IdleGc(pc) \in GcState
  BY <1>4, AnyHashType DEF IdleGc, GcAt, GcState
<1>5. QED
  BY <1>2, <1>3, <1>4

(* A new Block, and one whose count or marks are written, is a Block.       *)
LEMMA BlockTypes ==
  /\ \A s \in Stores : NewBlock(s) \in Block
  /\ \A b \in Block, n \in Int : WithUses(b, n) \in Block
  /\ \A b \in Block, t \in BOOLEAN : Marked(b, t) \in Block
  /\ \A b \in Block : b.uses \in Int /\ b.chunk \in Stores /\ b.timed \in BOOLEAN
<1>1. ASSUME NEW s \in Stores PROVE NewBlock(s) \in Block
  BY <1>1 DEF NewBlock, Block
<1>2. ASSUME NEW b \in Block, NEW n \in Int PROVE WithUses(b, n) \in Block
  BY <1>2 DEF WithUses, Block
<1>3. ASSUME NEW b \in Block, NEW t \in BOOLEAN PROVE Marked(b, t) \in Block
  BY <1>3 DEF Marked, Block
<1>4. ASSUME NEW b \in Block
      PROVE  b.uses \in Int /\ b.chunk \in Stores /\ b.timed \in BOOLEAN
  BY <1>4 DEF Block
<1>5. QED
  BY <1>1, <1>2, <1>3, <1>4

(* Writing one object keeps the others.                                     *)
LEMMA SetBlock ==
  ASSUME NEW h \in Hashes, NEW o \in Objects, NEW b \in Block,
         block \in [Hashes -> [Objects -> Block]]
  PROVE  [block EXCEPT ![h][o] = b] \in [Hashes -> [Objects -> Block]]
  OBVIOUS

(* A block in the table has an entry.                                       *)
LEMMA EntryType ==
  ASSUME TypeOK, NEW h \in Hashes, InTable(h)
  PROVE  table[h] \in Objects /\ Entry(h) \in Block
  BY DEF TypeOK, InTable, Entry

(* Each step keeps the types: its thread goes to a state of its type and it *)
(* writes Blocks into entries.                                              *)
LEMMA TypeStep == IInv /\ [Next]_vars => TypeOK'
<1> SUFFICES ASSUME IInv, [Next]_vars PROVE TypeOK'
  OBVIOUS
<1> TypeOK /\ MainInv /\ WriterInv /\ GcInv
  BY DEF IInv
<1>a. main.h \in Hashes /\ main.obj \in Objects /\ main.n \in Int
  BY DEF TypeOK, MainState
<1>b. gc.h \in Hashes /\ gc.n \in Int
  BY DEF TypeOK, GcState
<1>c. ASSUME NEW w \in Workers
      PROVE  /\ worker[w].h \in Hashes /\ worker[w].obj \in Objects
             /\ worker[w].n \in Int /\ worker[w].chunk \in Stores
  BY <1>c DEF TypeOK, WorkerState
<1>d. Objects = {"adv", "fin"}
  BY DEF Objects
<1>e. FirstStore \in Stores
  BY DedupAssumption
<1>1. ASSUME NEW h \in Hashes, DedupMiss(h) PROVE TypeOK'
  <2>1. main' \in MainState
    BY <1>1, <1>d DEF DedupMiss, MainAt, MainState, MainSteps
  <2>2. QED
    BY <1>1, <2>1 DEF DedupMiss, TypeOK
<1>2. CASE AppendWrite
  <2>1. main' \in MainState
    BY <1>2, <1>a, <1>d DEF AppendWrite, MainAt, MainState, MainSteps
  <2>2. QED
    BY <1>2, <2>1, <1>a DEF AppendWrite, TypeOK
<1>3. CASE Register
  <2>1. block' \in [Hashes -> [Objects -> Block]]
    BY <1>3, <1>a, <1>d, <1>e, BlockTypes, SetBlock DEF Register, TypeOK
  <2>2. QED
    BY <1>3, <2>1, <1>a, <1>d, IdleTypes DEF Register, SetEntry, TypeOK
<1>4. ASSUME NEW h \in Hashes, DedupHit(h) PROVE TypeOK'
  <2>1. table[h] \in Objects /\ Entry(h).uses \in Int
    BY <1>4, EntryType, BlockTypes DEF DedupHit
  <2>2. main' \in MainState
    BY <1>4, <2>1 DEF DedupHit, MainAt, MainState, MainSteps
  <2>3. QED
    BY <1>4, <2>2 DEF DedupHit, TypeOK
<1>5. CASE HitBump
  <2>1. main' \in MainState
    BY <1>5, <1>a DEF HitBump, MainAt, MainState, MainSteps
  <2>2. block[main.h][main.obj] \in Block
    BY <1>a DEF TypeOK
  <2>3. block' \in [Hashes -> [Objects -> Block]]
    BY <1>5, <1>a, <2>2, BlockTypes, SetBlock DEF HitBump, TypeOK
  <2>4. QED
    BY <1>5, <2>1, <2>3 DEF HitBump, TypeOK
<1>6. CASE HitPut
  BY <1>6, <1>a, IdleTypes DEF HitPut, SetEntry, TypeOK
<1>7. ASSUME NEW h \in Hashes, Release(h) PROVE TypeOK'
  <2>1. main' \in MainState
    BY <1>7, <1>d DEF Release, MainAt, MainState, MainSteps
  <2>2. QED
    BY <1>7, <2>1 DEF Release, TypeOK
<1>8. CASE ReleaseMark
  <2>1. table[main.h] \in Objects /\ Entry(main.h) \in Block
    BY <1>8, <1>a, EntryType DEF ReleaseMark, MainInv
  <2>2. main' \in MainState
    BY <1>8, <1>a, <2>1 DEF ReleaseMark, MainAt, MainState, MainSteps
  <2>3. block' \in [Hashes -> [Objects -> Block]]
    BY <1>8, <1>a, <2>1, BlockTypes, SetBlock DEF ReleaseMark, Entry, TypeOK
  <2>4. QED
    BY <1>8, <2>2, <2>3 DEF ReleaseMark, TypeOK
<1>9. CASE ReleasePut
  <2>0. refs[main.h] > 0
    BY <1>9 DEF ReleasePut, MainInv
  <2>1. refs' \in [Hashes -> Nat]
    BY <1>9, <1>a, <2>0 DEF ReleasePut, TypeOK
  <2>2. QED
    BY <1>9, <1>a, <2>1, IdleTypes DEF ReleasePut, SetEntry, TypeOK
<1>10. ASSUME NEW h \in Hashes, ReadMiss(h) PROVE TypeOK'
  <2>1. main' \in MainState
    BY <1>10, <1>d DEF ReadMiss, MainAt, MainState, MainSteps
  <2>2. QED
    BY <1>10, <2>1 DEF ReadMiss, TypeOK
<1>11. CASE ReadFetch
  <2>1. main' \in MainState
    BY <1>11, <1>a, <1>d, IdleTypes DEF ReadFetch, MainAt, MainState, MainSteps
  <2>2. QED
    BY <1>11, <2>1 DEF ReadFetch, TypeOK
<1>12. ASSUME NEW w \in Workers, PopWrite(w) PROVE TypeOK'
  <2>1. Head(write_buffer) \in Hashes /\ Tail(write_buffer) \in Seq(Hashes)
    BY <1>12 DEF PopWrite, TypeOK
  <2>2. WorkerAt("commit", Head(write_buffer), "adv", 0, FirstStore) \in WorkerState
    BY <1>e, <2>1, <1>d DEF WorkerAt, WorkerState, WorkerSteps
  <2>3. QED
    BY <1>12, <2>1, <2>2 DEF PopWrite, TypeOK
<1>13. ASSUME NEW w \in Workers, CommitData(w) PROVE TypeOK'
  <2>1. PICK s \in Stores :
          /\ store' = [store EXCEPT ![s] = @ \union {worker[w].h}]
          /\ At(w, "uncache", "adv", 0, s)
    BY <1>13 DEF CommitData
  <2>2. WorkerAt("uncache", worker[w].h, "adv", 0, s) \in WorkerState
    BY <1>e, <1>c, <1>d DEF WorkerAt, WorkerState, WorkerSteps
  <2>3. QED
    BY <1>13, <1>c, <2>1, <2>2 DEF CommitData, At, TypeOK
<1>14. ASSUME NEW w \in Workers, CommitFails(w) PROVE TypeOK'
  <2>1. store' \in [Stores -> SUBSET Hashes]
    <3>1. CASE UNCHANGED store
      BY <3>1 DEF TypeOK
    <3>2. CASE \E s \in Stores : store' = [store EXCEPT ![s] = @ \union {worker[w].h}]
      BY <1>c, <3>2 DEF TypeOK
    <3>3. QED
      BY <1>14, <3>1, <3>2 DEF CommitFails
  <2>2. QED
    BY <1>14, <2>1, IdleTypes DEF CommitFails, TypeOK
<1>15. ASSUME NEW w \in Workers, Uncache(w) PROVE TypeOK'
  <2>1. WorkerAt("publish", worker[w].h, "adv", 0, worker[w].chunk) \in WorkerState
    BY <1>e, <1>c, <1>d DEF WorkerAt, WorkerState, WorkerSteps
  <2>2. QED
    BY <1>15, <2>1 DEF Uncache, At, TypeOK
<1>16. ASSUME NEW w \in Workers, Publish(w) PROVE TypeOK'
  <2>1. WorkerAt("load", worker[w].h, "adv", 0, FirstStore) \in WorkerState
    BY <1>e, <1>c, <1>d DEF WorkerAt, WorkerState, WorkerSteps
  <2>2. block' \in [Hashes -> [Objects -> Block]]
    BY <1>16, <1>c, <1>d, BlockTypes, SetBlock DEF Publish, TypeOK
  <2>3. QED
    BY <1>16, <1>c, <1>d, <2>1, <2>2 DEF Publish, SetEntry, At, TypeOK
<1>17. ASSUME NEW w \in Workers, WorkerLoad(w) PROVE TypeOK'
  <2>1. table[worker[w].h] \in Objects /\ Entry(worker[w].h).uses \in Int
    BY <1>17, <1>c, EntryType, BlockTypes DEF WorkerLoad, WriterInv
  <2>2. WorkerAt("bump", worker[w].h, table[worker[w].h],
                 Entry(worker[w].h).uses + 1, FirstStore) \in WorkerState
    BY <1>e, <1>c, <2>1 DEF WorkerAt, WorkerState, WorkerSteps
  <2>3. QED
    BY <1>17, <2>2 DEF WorkerLoad, At, TypeOK
<1>18. ASSUME NEW w \in Workers, WorkerBump(w) PROVE TypeOK'
  <2>1. WorkerAt("put", worker[w].h, worker[w].obj, 0, FirstStore) \in WorkerState
    BY <1>e, <1>c DEF WorkerAt, WorkerState, WorkerSteps
  <2>2. block[worker[w].h][worker[w].obj] \in Block
    BY <1>c DEF TypeOK
  <2>3. block' \in [Hashes -> [Objects -> Block]]
    BY <1>18, <1>c, <2>2, BlockTypes, SetBlock DEF WorkerBump, TypeOK
  <2>4. QED
    BY <1>18, <2>1, <2>3 DEF WorkerBump, At, TypeOK
<1>19. ASSUME NEW w \in Workers, WorkerPut(w) PROVE TypeOK'
  BY <1>19, <1>c, IdleTypes DEF WorkerPut, SetEntry, TypeOK
<1>20. CASE GcWake
  BY <1>20, IdleTypes DEF GcWake, GcSteps, TypeOK
<1>21. CASE GcPop
  <2>1. Head(remove_uses) \in Hashes /\ Tail(remove_uses) \in Seq(Hashes)
    BY <1>21 DEF GcPop, TypeOK
  <2>2. gc' \in GcState
    BY <1>21, <2>1 DEF GcPop, GcAt, GcState, GcSteps
  <2>3. QED
    BY <1>21, <2>1, <2>2 DEF GcPop, TypeOK
<1>22. CASE GcLoad
  <2>1. Entry(gc.h).uses \in Int
    BY <1>22, <1>b, EntryType, BlockTypes DEF GcLoad, GcInv
  <2>2. gc' \in GcState
    BY <1>22, <1>b, <2>1 DEF GcLoad, GcAt, GcState, GcSteps
  <2>3. QED
    BY <1>22, <2>2 DEF GcLoad, TypeOK
<1>23. CASE GcStore
  <2>1. table[gc.h] \in Objects /\ Entry(gc.h) \in Block
    BY <1>23, <1>b, EntryType DEF GcStore, GcInv
  <2>2. gc' \in GcState
    BY <1>23, <1>b DEF GcStore, GcAt, GcState, GcSteps
  <2>3. block' \in [Hashes -> [Objects -> Block]]
    BY <1>23, <1>b, <2>1, BlockTypes, SetBlock DEF GcStore, Entry, TypeOK
  <2>4. QED
    BY <1>23, <2>2, <2>3 DEF GcStore, TypeOK
<1>24. CASE GcKeep
  BY <1>24, IdleTypes DEF GcKeep, GcSteps, TypeOK
<1>25. ASSUME GcMark \/ GcReclaim PROVE TypeOK'
  <2>1. table[gc.h] \in Objects /\ Entry(gc.h) \in Block
    BY <1>25, <1>b, EntryType DEF GcMark, GcReclaim, GcInv
  <2>2. block' \in [Hashes -> [Objects -> Block]]
    <3>1. PICK t \in BOOLEAN : block' = [block EXCEPT ![gc.h][table[gc.h]] =
                                            Marked(Entry(gc.h), t)]
      BY <1>25, <2>1, BlockTypes DEF GcMark, GcReclaim, Entry
    <3>2. QED
      BY <1>b, <2>1, <3>1, BlockTypes, SetBlock DEF TypeOK
  <2>3. gc' \in GcState
    BY <1>25, IdleTypes DEF GcMark, GcReclaim, GcSteps
  <2>4. QED
    BY <1>25, <2>2, <2>3 DEF GcMark, GcReclaim, TypeOK
<1>26. CASE GcCommit
  BY <1>26, IdleTypes DEF GcCommit, GcSteps, TypeOK
<1>27. CASE UNCHANGED vars
  BY <1>27 DEF vars, TypeOK
<1>28. QED
  BY <1>1, <1>2, <1>3, <1>4, <1>5, <1>6, <1>7, <1>8, <1>9, <1>10, <1>11, <1>12,
     <1>13, <1>14, <1>15, <1>16, <1>17, <1>18, <1>19, <1>20, <1>21, <1>22, <1>23,
     <1>24, <1>25, <1>26, <1>27 DEF Next, Main, Worker, Gc

-----------------------------------------------------------------------------
(* What never goes back: an entry stays in the table, a block stays on disk *)
(* and, since a writer drops it from memory only then, stays held.          *)

(* A step of any thread sets at most one entry, and never to nothing.       *)
LEMMA TableGrows ==
  ASSUME TypeOK, [Next]_vars
  PROVE  \/ table' = table
         \/ \E h \in Hashes, o \in Objects : table' = [table EXCEPT ![h] = o]
<1>1. "adv" \in Objects /\ "fin" \in Objects
  BY DEF Objects
<1>2. main.h \in Hashes /\ main.obj \in Objects
  BY DEF TypeOK, MainState
<1>3. \A w \in Workers : worker[w].h \in Hashes /\ worker[w].obj \in Objects
  BY DEF TypeOK, WorkerState
<1>4. CASE Main
  BY <1>1, <1>2, <1>4 DEF Main, SetEntry, DedupMiss, DedupHit, Release, ReadMiss, AppendWrite,
     Register, HitBump, HitPut, ReleaseMark, ReleasePut, ReadFetch
<1>5. ASSUME NEW w \in Workers, Worker(w)
      PROVE  \/ table' = table
             \/ \E h \in Hashes, o \in Objects : table' = [table EXCEPT ![h] = o]
  BY <1>1, <1>3, <1>5 DEF Worker, SetEntry, PopWrite, CommitData, CommitFails, Uncache,
     Publish, WorkerLoad, WorkerBump, WorkerPut
<1>6. CASE Gc
  BY <1>6 DEF Gc, GcWake, GcPop, GcLoad, GcStore, GcKeep, GcMark, GcReclaim, GcCommit
<1>7. QED
  BY <1>4, <1>5, <1>6 DEF Next, vars

(* No step deletes a block from a datastore: the garbage collector stops    *)
(* before it would.                                                         *)
LEMMA StoreGrows ==
  ASSUME TypeOK, [Next]_vars
  PROVE  \A s \in Stores : store[s] \subseteq store'[s]
<1>1. CASE Main
  BY <1>1 DEF Main, DedupMiss, DedupHit, Release, ReadMiss, AppendWrite,
     Register, HitBump, HitPut, ReleaseMark, ReleasePut, ReadFetch
<1>2. ASSUME NEW w \in Workers, Worker(w)
      PROVE  \A s \in Stores : store[s] \subseteq store'[s]
  <2>1. ASSUME NEW t \in Stores,
               store' = [store EXCEPT ![t] = @ \union {worker[w].h}]
        PROVE  \A s \in Stores : store[s] \subseteq store'[s]
    BY <2>1 DEF TypeOK
  <2>2. \/ store' = store
        \/ \E t \in Stores : store' = [store EXCEPT ![t] = @ \union {worker[w].h}]
    BY <1>2 DEF Worker, PopWrite, CommitData, CommitFails, Uncache,
       Publish, WorkerLoad, WorkerBump, WorkerPut
  <2>3. QED
    BY <2>1, <2>2
<1>3. CASE Gc
  BY <1>3 DEF Gc, GcWake, GcPop, GcLoad, GcStore, GcKeep, GcMark, GcReclaim, GcCommit
<1>4. QED
  BY <1>1, <1>2, <1>3 DEF Next, vars

(* Only the writer that has put a block on disk takes it out of memory.     *)
LEMMA CacheShrinks ==
  ASSUME TypeOK, [Next]_vars
  PROVE  \/ write_read_cache \subseteq write_read_cache'
         \/ \E w \in Workers : worker[w].pc = "uncache"
                /\ write_read_cache' = write_read_cache \ {worker[w].h}
<1>1. CASE Main
  BY <1>1 DEF Main, DedupMiss, DedupHit, Release, ReadMiss, AppendWrite,
     Register, HitBump, HitPut, ReleaseMark, ReleasePut, ReadFetch
<1>2. ASSUME NEW w \in Workers, Worker(w)
      PROVE  \/ write_read_cache \subseteq write_read_cache'
             \/ /\ worker[w].pc = "uncache"
                /\ write_read_cache' = write_read_cache \ {worker[w].h}
  BY <1>2 DEF Worker, PopWrite, CommitData, CommitFails, Uncache,
     Publish, WorkerLoad, WorkerBump, WorkerPut
<1>3. CASE Gc
  BY <1>3 DEF Gc, GcWake, GcPop, GcLoad, GcStore, GcKeep, GcMark, GcReclaim, GcCommit
<1>4. QED
  BY <1>1, <1>2, <1>3 DEF Next, vars

(* So what is in the table, on disk or held remains so.                     *)
LEMMA Growth ==
  ASSUME IInv, [Next]_vars, NEW h \in Hashes
  PROVE  /\ InTable(h) => InTable(h)'
         /\ OnDisk(h) => OnDisk(h)'
         /\ Held(h) => Held(h)'
<1> TypeOK /\ WriterInv
  BY DEF IInv
<1>1. InTable(h) => InTable(h)'
  <2>1. \A o \in Objects : o # "none"
    BY DEF Objects
  <2>2. QED
    BY <2>1, TableGrows DEF InTable, TypeOK
<1>2. OnDisk(h) => OnDisk(h)'
  BY StoreGrows DEF OnDisk
<1>3. Held(h) => Held(h)'
  <2>1. ASSUME NEW w \in Workers, worker[w].pc = "uncache" PROVE OnDisk(worker[w].h)
    BY <2>1 DEF WriterInv
  <2>2. QED
    BY <1>2, <2>1, CacheShrinks DEF Held
<1>4. QED
  BY <1>1, <1>2, <1>3

-----------------------------------------------------------------------------
(* The garbage collector only meets blocks that are in the table.           *)
LEMMA GcStep == IInv /\ [Next]_vars => GcInv'
<1> SUFFICES ASSUME IInv, [Next]_vars PROVE GcInv'
  OBVIOUS
<1> TypeOK /\ GcInv
  BY DEF IInv
<1>1. \A h \in Hashes : InTable(h) => InTable(h)'
  BY Growth
<1>2. gc.h \in Hashes /\ \A i \in 1..Len(remove_uses) : remove_uses[i] \in Hashes
  BY DEF TypeOK, GcState
<1>3. CASE UNCHANGED <<remove_uses, gc>>
  BY <1>1, <1>2, <1>3 DEF GcInv
<1>4. ASSUME NEW h \in Hashes, Release(h) PROVE GcInv'
  <2>1. InTable(h) /\ remove_uses' = Append(remove_uses, h) /\ gc' = gc
    BY <1>4 DEF Release
  <2>2. ASSUME NEW i \in 1..Len(remove_uses') PROVE InTable(remove_uses[i])'
    <3>0. i \in 1..Len(remove_uses) + 1
      BY <2>1 DEF TypeOK
    <3>1. remove_uses'[i] = h \/ (i \in 1..Len(remove_uses) /\ remove_uses'[i] = remove_uses[i])
      BY <2>1, <3>0 DEF TypeOK
    <3>2. InTable(h)' /\ (i \in 1..Len(remove_uses) => InTable(remove_uses[i]))
      BY <1>1, <2>1 DEF GcInv
    <3>3. table'[remove_uses'[i]] # "none"
      BY <1>1, <1>2, <3>1, <3>2 DEF InTable
    <3>4. QED
      BY <3>3 DEF InTable
  <2>3. QED
    BY <1>1, <1>2, <2>1, <2>2 DEF GcInv
<1>5. CASE GcPop
  <2>1. /\ remove_uses # << >>
        /\ remove_uses' = Tail(remove_uses)
        /\ gc' = GcAt("load", Head(remove_uses), 0)
    BY <1>5 DEF GcPop
  <2>2. gc'.h = remove_uses[1] /\ 1 \in 1..Len(remove_uses)
    BY <2>1 DEF GcAt, TypeOK
  <2>3. ASSUME NEW i \in 1..Len(remove_uses') PROVE InTable(remove_uses[i])'
    <3>1. i + 1 \in 1..Len(remove_uses) /\ remove_uses'[i] = remove_uses[i + 1]
      BY <2>1 DEF TypeOK
    <3>2. table'[remove_uses[i + 1]] # "none"
      BY <1>1, <1>2, <3>1 DEF GcInv, InTable
    <3>3. QED
      BY <3>1, <3>2 DEF InTable
  <2>4. QED
    BY <1>1, <1>2, <2>2, <2>3 DEF GcInv
<1>6. ASSUME UNCHANGED remove_uses,
             gc'.pc \notin {"load", "store", "check"}
               \/ (gc.pc \in {"load", "store", "check"} /\ gc'.h = gc.h)
      PROVE  GcInv'
  BY <1>1, <1>2, <1>6 DEF GcInv
<1>7. CASE Main
  BY <1>3, <1>4, <1>7 DEF Main, DedupMiss, DedupHit, ReadMiss, AppendWrite,
     Register, HitBump, HitPut, ReleaseMark, ReleasePut, ReadFetch
<1>8. ASSUME NEW w \in Workers, Worker(w) PROVE GcInv'
  BY <1>3, <1>8 DEF Worker, PopWrite, CommitData, CommitFails, Uncache,
     Publish, WorkerLoad, WorkerBump, WorkerPut
<1>9. CASE Gc
  BY <1>5, <1>6, <1>9 DEF Gc, GcWake, GcLoad, GcStore, GcKeep, GcMark, GcReclaim, GcCommit,
     IdleGc, GcAt
<1>10. QED
  BY <1>3, <1>7, <1>8, <1>9 DEF Next, vars

(* An entry comes into the table for a block that is held.                  *)
LEMMA NewEntryHeld ==
  ASSUME IInv, [Next]_vars, NEW h \in Hashes, ~ InTable(h), InTable(h)'
  PROVE  Held(h)
<1> TypeOK /\ MainInv /\ WriterInv
  BY DEF IInv
<1>1. CASE Register
  BY <1>1 DEF Register, SetEntry, InTable, MainInv, TypeOK
<1>2. ASSUME NEW w \in Workers, Publish(w) PROVE Held(h)
  BY <1>2 DEF Publish, SetEntry, InTable, WriterInv, Held, TypeOK
<1>3. CASE HitPut \/ ReleasePut
  <2>1. InTable(main.h) /\ table' = [table EXCEPT ![main.h] = main.obj]
    BY <1>3 DEF HitPut, ReleasePut, SetEntry, MainInv
  <2>2. QED
    BY <2>1 DEF InTable, TypeOK
<1>4. ASSUME NEW w \in Workers, WorkerPut(w) PROVE Held(h)
  <2>1. InTable(worker[w].h) /\ table' = [table EXCEPT ![worker[w].h] = worker[w].obj]
    BY <1>4 DEF WorkerPut, SetEntry, WriterInv
  <2>2. QED
    BY <2>1 DEF InTable, TypeOK
<1>5. table' # table
  BY DEF InTable
<1>6. CASE Main
  BY <1>1, <1>3, <1>5, <1>6 DEF Main, DedupMiss, DedupHit, Release, ReadMiss, AppendWrite,
     HitBump, ReleaseMark, ReadFetch
<1>7. ASSUME NEW w \in Workers, Worker(w) PROVE Held(h)
  BY <1>2, <1>4, <1>5, <1>7 DEF Worker, PopWrite, CommitData, CommitFails, Uncache,
     WorkerLoad, WorkerBump
<1>8. CASE Gc
  BY <1>5, <1>8 DEF Gc, GcWake, GcPop, GcLoad, GcStore, GcKeep, GcMark, GcReclaim, GcCommit
<1>9. QED
  BY <1>5, <1>6, <1>7, <1>8 DEF Next, vars

(* Files refer to blocks in the table, and these are held.                  *)
LEMMA TableStep == IInv /\ [Next]_vars => TableInv'
<1> SUFFICES ASSUME IInv, [Next]_vars, NEW h \in Hashes
             PROVE  /\ InTable(h)' => Held(h)'
                    /\ refs'[h] > 0 => InTable(h)'
  BY DEF TableInv
<1> TypeOK /\ TableInv /\ MainInv
  BY DEF IInv
<1>1. InTable(h)' => Held(h)'
  BY Growth, NewEntryHeld DEF TableInv
<1>2. refs[h] > 0 => InTable(h)'
  BY Growth DEF TableInv
<1>3. ASSUME refs'[h] > refs[h] PROVE InTable(h)'
  <2>1. (Register \/ HitPut) /\ main.h = h
    <3>1. CASE Main
      BY <1>3, <3>1 DEF Main, DedupMiss, DedupHit, Release, ReadMiss, AppendWrite, Register,
         HitBump, HitPut, ReleaseMark, ReleasePut, ReadFetch, TypeOK
    <3>2. ASSUME NEW w \in Workers, Worker(w) PROVE UNCHANGED refs
      BY <3>2 DEF Worker, PopWrite, CommitData, CommitFails, Uncache,
         Publish, WorkerLoad, WorkerBump, WorkerPut
    <3>3. CASE Gc
      BY <1>3, <3>3 DEF Gc, GcWake, GcPop, GcLoad, GcStore, GcKeep, GcMark, GcReclaim,
         GcCommit, TypeOK
    <3>4. refs[h] \in Nat
      BY DEF TypeOK
    <3>5. QED
      BY <1>3, <3>1, <3>2, <3>3, <3>4 DEF Next, vars
  <2>2. CASE Register
    BY <2>1, <2>2 DEF Register, SetEntry, InTable, TypeOK
  <2>3. CASE HitPut
    <3>1. InTable(h)
      BY <2>1, <2>3 DEF HitPut, MainInv
    <3>2. QED
      BY <3>1, Growth
  <2>4. QED
    BY <2>1, <2>2, <2>3
<1>4. ASSUME ~ (refs'[h] > refs[h]), refs'[h] > 0 PROVE InTable(h)'
  <2>1. refs[h] \in Nat /\ refs'[h] \in Nat
    BY TypeStep DEF TypeOK
  <2>2. QED
    BY <1>2, <1>4, <2>1
<1>5. QED
  BY <1>1, <1>3, <1>4, <1>2

-----------------------------------------------------------------------------
(* What a thread has in its hands is in the table or about to be, and stays *)
(* so: Registering ends with the entry.                                     *)
LEMMA KnownStays ==
  ASSUME IInv, [Next]_vars, NEW h \in Hashes, InTable(h) \/ Registering(h)
  PROVE  (InTable(h) \/ Registering(h))'
<1> TypeOK
  BY DEF IInv
<1>1. CASE InTable(h)
  BY <1>1, Growth
<1>2. CASE Registering(h)
  <2>1. CASE Register
    BY <1>2, <2>1 DEF Register, SetEntry, InTable, Registering, TypeOK
  <2>2. CASE UNCHANGED main
    BY <1>2, <2>2 DEF Registering
  <2>3. CASE Main
    BY <1>2, <2>1, <2>3 DEF Main, Registering, DedupMiss, DedupHit, Release, ReadMiss,
       AppendWrite, HitBump, HitPut, ReleaseMark, ReleasePut, ReadFetch
  <2>4. ASSUME NEW w \in Workers, Worker(w) PROVE UNCHANGED main
    BY <2>4 DEF Worker, PopWrite, CommitData, CommitFails, Uncache,
       Publish, WorkerLoad, WorkerBump, WorkerPut
  <2>5. CASE Gc
    BY <2>2, <2>5 DEF Gc, GcWake, GcPop, GcLoad, GcStore, GcKeep, GcMark, GcReclaim, GcCommit
  <2>6. QED
    BY <2>2, <2>3, <2>4, <2>5 DEF Next, vars
<1>3. QED
  BY <1>1, <1>2

(* The queue changes when the main thread appends a block or a writer takes *)
(* the first.                                                               *)
LEMMA QueueMoves ==
  ASSUME [Next]_vars
  PROVE  \/ UNCHANGED write_buffer
         \/ AppendWrite
         \/ \E w \in Workers : PopWrite(w)
<1>1. CASE Main
  BY <1>1 DEF Main, DedupMiss, DedupHit, Release, ReadMiss,
     Register, HitBump, HitPut, ReleaseMark, ReleasePut, ReadFetch
<1>2. ASSUME NEW w \in Workers, Worker(w) PROVE UNCHANGED write_buffer \/ PopWrite(w)
  BY <1>2 DEF Worker, CommitData, CommitFails, Uncache, Publish, WorkerLoad,
     WorkerBump, WorkerPut
<1>3. CASE Gc
  BY <1>3 DEF Gc, GcWake, GcPop, GcLoad, GcStore, GcKeep, GcMark, GcReclaim, GcCommit
<1>4. QED
  BY <1>1, <1>2, <1>3 DEF Next, vars

(* A writer gets a block from the queue and keeps it until it is done: it   *)
(* has it on disk before it forgets it, and in the table before it counts   *)
(* it.                                                                      *)
WriterMove(v) ==
    \/ worker'[v] = worker[v]
    \/ worker'[v].pc = "poll"
    \/ PopWrite(v) /\ worker'[v].pc = "commit" /\ worker'[v].h = Head(write_buffer)
    \/ /\ Busy(v)
       /\ worker'[v].h = worker[v].h
       /\ \/ CommitData(v) /\ worker'[v].pc = "uncache"
          \/ worker[v].pc = "uncache" /\ worker'[v].pc = "publish"
          \/ Publish(v) /\ worker'[v].pc = "load"
          \/ worker[v].pc \in {"load", "bump"} /\ worker'[v].pc \in {"bump", "put"}

(* Every thread's step moves every writer that way, or not at all.          *)
LEMMA WriterMoves ==
  ASSUME TypeOK, [Next]_vars, NEW v \in Workers
  PROVE  WriterMove(v)
<1>1. CASE Main
  BY <1>1 DEF WriterMove, Main, DedupMiss, DedupHit, Release, ReadMiss, AppendWrite,
     Register, HitBump, HitPut, ReleaseMark, ReleasePut, ReadFetch
<1>2. ASSUME NEW w \in Workers, Worker(w) PROVE WriterMove(v)
  <2>1. ASSUME NEW s, worker' = [worker EXCEPT ![w] = s]
        PROVE  worker'[w] = s /\ (v # w => worker'[v] = worker[v])
    BY <2>1 DEF TypeOK
  <2>2. CASE PopWrite(w)
    BY <2>1, <2>2 DEF WriterMove, PopWrite, WorkerAt
  <2>3. CASE CommitData(w)
    <3>1. PICK s \in Stores : At(w, "uncache", "adv", 0, s)
      BY <2>3 DEF CommitData
    <3>2. Busy(w)
      BY <2>3 DEF CommitData, Busy
    <3>3. QED
      BY <2>1, <2>3, <3>1, <3>2 DEF WriterMove, At, WorkerAt
  <2>4. CASE CommitFails(w)
    BY <2>1, <2>4 DEF WriterMove, CommitFails, IdleWorker, WorkerAt
  <2>5. CASE Uncache(w)
    BY <2>1, <2>5 DEF WriterMove, Uncache, At, WorkerAt, Busy
  <2>6. CASE Publish(w)
    BY <2>1, <2>6 DEF WriterMove, Publish, At, WorkerAt, Busy
  <2>7. CASE WorkerLoad(w)
    BY <2>1, <2>7 DEF WriterMove, WorkerLoad, At, WorkerAt, Busy
  <2>8. CASE WorkerBump(w)
    BY <2>1, <2>8 DEF WriterMove, WorkerBump, At, WorkerAt, Busy
  <2>9. CASE WorkerPut(w)
    BY <2>1, <2>9 DEF WriterMove, WorkerPut, IdleWorker, WorkerAt
  <2>10. QED
    BY <1>2, <2>2, <2>3, <2>4, <2>5, <2>6, <2>7, <2>8, <2>9 DEF Worker
<1>3. CASE Gc
  BY <1>3 DEF WriterMove, Gc, GcWake, GcPop, GcLoad, GcStore, GcKeep, GcMark, GcReclaim,
     GcCommit
<1>4. QED
  BY <1>1, <1>2, <1>3 DEF WriterMove, Next, vars

(* The queue as a set of positions, before and after.                       *)
LEMMA QueueAppend ==
  ASSUME TypeOK, AppendWrite
  PROVE  \A i \in Queue' :
            \/ i \in Queue /\ write_buffer'[i] = write_buffer[i]
            \/ i = Len(write_buffer) + 1 /\ write_buffer'[i] = main.h
<1>1. write_buffer' = Append(write_buffer, main.h) /\ main.h \in Hashes
  BY DEF AppendWrite, TypeOK, MainState
<1>2. Len(write_buffer') = Len(write_buffer) + 1 /\ Len(write_buffer) \in Nat
  BY <1>1 DEF TypeOK
<1>3. \A i \in 1..Len(write_buffer) : write_buffer'[i] = write_buffer[i]
  BY <1>1 DEF TypeOK
<1>4. write_buffer'[Len(write_buffer) + 1] = main.h
  BY <1>1 DEF TypeOK
<1>5. Queue' = 1..(Len(write_buffer) + 1) /\ Queue = 1..Len(write_buffer)
  BY <1>2 DEF Queue
<1>6. ASSUME NEW i \in Queue'
      PROVE  \/ i \in Queue /\ write_buffer'[i] = write_buffer[i]
             \/ i = Len(write_buffer) + 1 /\ write_buffer'[i] = main.h
  <2>1. CASE i = Len(write_buffer) + 1
    BY <1>4, <2>1
  <2>2. CASE i # Len(write_buffer) + 1
    <3>1. i \in 1..Len(write_buffer)
      BY <1>2, <1>5, <1>6, <2>2
    <3>2. QED
      BY <1>3, <1>5, <3>1
  <2>3. QED
    BY <2>1, <2>2
<1>7. QED
  BY <1>6

(* A writer that takes the oldest block moves the others up by one.         *)
LEMMA QueuePop ==
  ASSUME TypeOK, NEW w \in Workers, PopWrite(w)
  PROVE  /\ 1 \in Queue /\ Head(write_buffer) = write_buffer[1]
         /\ \A i \in Queue' : /\ i + 1 \in Queue /\ i + 1 # 1
                              /\ write_buffer'[i] = write_buffer[i + 1]
  BY DEF PopWrite, Queue, TypeOK

-----------------------------------------------------------------------------
(* Writers work on blocks that are in the table or about to be.             *)
LEMMA WriterStep == IInv /\ [Next]_vars => WriterInv'
<1> SUFFICES ASSUME IInv, [Next]_vars PROVE WriterInv'
  OBVIOUS
<1> TypeOK /\ WriterInv
  BY DEF IInv
<1>1. \A i \in Queue : write_buffer[i] \in Hashes
  BY DEF Queue, TypeOK
<1>2. \A w \in Workers : worker[w].h \in Hashes
  BY DEF TypeOK, WorkerState
<1>3. ASSUME NEW h \in Hashes, InTable(h) \/ Registering(h)
      PROVE  table'[h] # "none" \/ (main'.pc = "register" /\ main'.h = h)
  BY <1>3, KnownStays DEF InTable, Registering
<1>4. ASSUME NEW i \in Queue'
      PROVE  \/ table'[write_buffer'[i]] # "none"
             \/ main'.pc = "register" /\ main'.h = write_buffer'[i]
  <2>1. CASE UNCHANGED write_buffer
    BY <1>1, <1>3, <1>4, <2>1 DEF WriterInv, Queue
  <2>2. CASE AppendWrite
    <3>1. main'.pc = "register" /\ main'.h = main.h
      BY <2>2 DEF AppendWrite, MainAt
    <3>2. QED
      BY <1>1, <1>3, <1>4, <2>2, <3>1, QueueAppend DEF WriterInv
  <2>3. ASSUME NEW w \in Workers, PopWrite(w)
        PROVE  \/ table'[write_buffer'[i]] # "none"
               \/ main'.pc = "register" /\ main'.h = write_buffer'[i]
    BY <1>1, <1>3, <1>4, <2>3, QueuePop DEF WriterInv
  <2>4. QED
    BY <2>1, <2>2, <2>3, QueueMoves
<1>5. ASSUME NEW w \in Workers
      PROVE  /\ Busy(w)' => \/ table'[worker'[w].h] # "none"
                            \/ main'.pc = "register" /\ main'.h = worker'[w].h
             /\ worker'[w].pc \in {"uncache", "publish"} =>
                    \E s \in Stores : worker'[w].h \in store'[s]
             /\ worker'[w].pc \in {"load", "bump", "put"} => table'[worker'[w].h] # "none"
  <2> \A h \in Hashes : OnDisk(h) => \E s \in Stores : h \in store'[s]
    BY Growth DEF OnDisk
  <2> \A h \in Hashes : InTable(h) => table'[h] # "none"
    BY Growth DEF InTable
  <2>1. CASE worker'[w] = worker[w]
    BY <1>2, <1>3, <2>1 DEF WriterInv, Busy
  <2>2. CASE worker'[w].pc = "poll"
    BY <2>2 DEF Busy
  <2>3. CASE PopWrite(w) /\ worker'[w].pc = "commit" /\ worker'[w].h = Head(write_buffer)
    BY <1>1, <1>3, <2>3, QueuePop DEF WriterInv, Busy
  <2>4. CASE /\ Busy(w)
             /\ worker'[w].h = worker[w].h
             /\ CommitData(w) /\ worker'[w].pc = "uncache"
    <3>1. \E s \in Stores : worker[w].h \in store'[s]
      BY <1>2, <2>4 DEF CommitData, TypeOK
    <3>2. QED
      BY <1>2, <1>3, <2>4, <3>1 DEF WriterInv
  <2>5. CASE /\ Busy(w)
             /\ worker'[w].h = worker[w].h
             /\ worker[w].pc = "uncache" /\ worker'[w].pc = "publish"
    BY <1>2, <1>3, <2>5 DEF WriterInv
  <2>6. CASE /\ Busy(w)
             /\ worker'[w].h = worker[w].h
             /\ Publish(w) /\ worker'[w].pc = "load"
    <3>1. table'[worker[w].h] = "fin"
      BY <1>2, <2>6 DEF Publish, SetEntry, TypeOK
    <3>2. QED
      BY <2>6, <3>1
  <2>7. CASE /\ Busy(w)
             /\ worker'[w].h = worker[w].h
             /\ worker[w].pc \in {"load", "bump"} /\ worker'[w].pc \in {"bump", "put"}
    BY <1>2, <1>3, <2>7 DEF WriterInv
  <2>8. QED
    BY <2>1, <2>2, <2>3, <2>4, <2>5, <2>6, <2>7, WriterMoves DEF WriterMove
<1>6. QED
  BY <1>4, <1>5 DEF WriterInv, InTable, Registering, OnDisk

(* No block is queued or written twice at a time.                           *)
LEMMA OneWriterStep == IInv /\ [Next]_vars => OneWriterPerBlock'
<1> SUFFICES ASSUME IInv, [Next]_vars, NEW h \in Hashes
             PROVE  /\ \A i, j \in Queue' :
                          write_buffer'[i] = h /\ write_buffer'[j] = h => i = j
                    /\ \A v, w \in Workers :
                          Busy(v)' /\ Busy(w)' /\ worker'[v].h = h /\ worker'[w].h = h => v = w
                    /\ \A w \in Workers, i \in Queue' :
                          Busy(w)' /\ worker'[w].h = h => write_buffer'[i] # h
  BY DEF OneWriterPerBlock, QueuePositions
<1> TypeOK /\ OneWriterPerBlock /\ MainInv
  BY DEF IInv
<1>1. /\ \A i, j \in Queue : write_buffer[i] = h /\ write_buffer[j] = h => i = j
      /\ \A v, w \in Workers :
            Busy(v) /\ Busy(w) /\ worker[v].h = h /\ worker[w].h = h => v = w
      /\ \A w \in Workers, i \in Queue : Busy(w) /\ worker[w].h = h => write_buffer[i] # h
  BY DEF OneWriterPerBlock, QueuePositions
<1>2. \A w \in Workers : \/ Busy(w)' => Busy(w) /\ worker'[w].h = worker[w].h
                         \/ PopWrite(w) /\ worker'[w].h = Head(write_buffer)
  BY WriterMoves DEF WriterMove, Busy
<1>3. ASSUME UNCHANGED write_buffer
      PROVE  \A w \in Workers : Busy(w)' => Busy(w) /\ worker'[w].h = worker[w].h
  <2>1. \A w \in Workers : ~ PopWrite(w)
    BY <1>3 DEF PopWrite, TypeOK
  <2>2. QED
    BY <1>2, <2>1
<1>4. CASE UNCHANGED write_buffer
  BY <1>1, <1>3, <1>4 DEF Queue
<1>5. CASE AppendWrite
  <2>1. UNCHANGED worker /\ Untouched(main.h)
    BY <1>5 DEF AppendWrite, MainInv
  <2>2. /\ \A i \in Queue : write_buffer[i] # main.h
        /\ \A w \in Workers : Busy(w) => worker[w].h # main.h
    BY <2>1 DEF Untouched, QueuePositions
  <2>3. QED
    BY <1>1, <1>5, <2>1, <2>2, QueueAppend DEF Busy
<1>6. ASSUME NEW w \in Workers, PopWrite(w)
      PROVE  /\ \A i, j \in Queue' :
                   write_buffer'[i] = h /\ write_buffer'[j] = h => i = j
             /\ \A u, v \in Workers :
                   Busy(u)' /\ Busy(v)' /\ worker'[u].h = h /\ worker'[v].h = h => u = v
             /\ \A v \in Workers, i \in Queue' :
                   Busy(v)' /\ worker'[v].h = h => write_buffer'[i] # h
  <2>1. /\ worker'[w].h = write_buffer[1] /\ 1 \in Queue
        /\ \A v \in Workers : v # w => worker'[v] = worker[v]
    BY <1>6, QueuePop DEF PopWrite, WorkerAt, TypeOK
  <2>2. \A v \in Workers : v # w => (Busy(v)' <=> Busy(v))
    BY <2>1 DEF Busy
  <2>3. \A i, j \in Queue' : i \in Int /\ j \in Int /\ (i + 1 = j + 1 => i = j)
    BY DEF Queue
  <2>4. QED
    BY <1>1, <1>6, <2>1, <2>2, <2>3, QueuePop
<1>7. QED
  BY <1>4, <1>5, <1>6, QueueMoves

(* A block that a writer still has to write is in write_read_cache: only    *)
(* the one writer it has deletes it there, after writing it.                *)
LEMMA FindsStep == IInv /\ [Next]_vars => WriterFindsBlock'
<1> SUFFICES ASSUME IInv, [Next]_vars PROVE WriterFindsBlock'
  OBVIOUS
<1> TypeOK /\ WriterFindsBlock /\ OneWriterPerBlock /\ MainInv
  BY DEF IInv
<1>1. ASSUME NEW h \in write_read_cache,
             \A w \in Workers : Unwritten(w) /\ worker[w].h = h => Unwritten(w)' /\ worker'[w].h = h
      PROVE  h \in write_read_cache'
  <2>1. CASE write_read_cache \subseteq write_read_cache'
    BY <1>1, <2>1
  <2>2. ASSUME NEW w \in Workers, Uncache(w) PROVE h \in write_read_cache'
    <3>1. worker'[w].pc = "publish" /\ Unwritten(w) /\ worker'[w].h = worker[w].h
      BY <2>2 DEF Uncache, At, WorkerAt, Unwritten, TypeOK
    <3>2. h # worker[w].h
      BY <1>1, <3>1 DEF Unwritten
    <3>3. QED
      BY <1>1, <2>2, <3>2 DEF Uncache
  <2>3. CASE Main
    BY <2>1, <2>3 DEF Main, DedupMiss, DedupHit, Release, ReadMiss, AppendWrite,
       Register, HitBump, HitPut, ReleaseMark, ReleasePut, ReadFetch
  <2>4. ASSUME NEW w \in Workers, Worker(w) PROVE h \in write_read_cache'
    BY <1>1, <2>2, <2>4 DEF Worker, PopWrite, CommitData, CommitFails, Publish, WorkerLoad,
       WorkerBump, WorkerPut
  <2>5. CASE Gc
    BY <2>1, <2>5 DEF Gc, GcWake, GcPop, GcLoad, GcStore, GcKeep, GcMark, GcReclaim, GcCommit
  <2>6. QED
    BY <2>1, <2>3, <2>4, <2>5 DEF Next, vars
<1>2. ASSUME NEW i \in Queue PROVE write_buffer[i] \in write_read_cache'
  <2>1. write_buffer[i] \in write_read_cache /\ write_buffer[i] \in Hashes
    BY <1>2 DEF WriterFindsBlock, Queue, TypeOK
  <2>2. \A w \in Workers : Busy(w) => worker[w].h # write_buffer[i]
    BY <1>2, <2>1 DEF OneWriterPerBlock, QueuePositions
  <2>3. QED
    BY <1>1, <2>1, <2>2 DEF Busy, Unwritten
<1>3. ASSUME NEW i \in Queue' PROVE write_buffer'[i] \in write_read_cache'
  <2>1. CASE UNCHANGED write_buffer
    BY <1>2, <1>3, <2>1 DEF Queue
  <2>2. CASE AppendWrite
    <3>1. main.h \in write_read_cache'
      BY <2>2 DEF AppendWrite, MainInv
    <3>2. QED
      BY <1>2, <1>3, <2>2, <3>1, QueueAppend
  <2>3. ASSUME NEW w \in Workers, PopWrite(w) PROVE write_buffer'[i] \in write_read_cache'
    BY <1>2, <1>3, <2>3, QueuePop
  <2>4. QED
    BY <2>1, <2>2, <2>3, QueueMoves
<1>4. ASSUME NEW w \in Workers, Unwritten(w)' PROVE worker'[w].h \in write_read_cache'
  <2>1. CASE PopWrite(w) /\ worker'[w].h = Head(write_buffer)
    BY <1>2, <2>1, QueuePop
  <2>2. CASE Unwritten(w) /\ worker'[w].h = worker[w].h
    <3>1. worker[w].h \in write_read_cache /\ worker[w].h \in Hashes
      BY <2>2 DEF WriterFindsBlock, TypeOK, WorkerState
    <3>2. \A v \in Workers : Unwritten(v) /\ worker[v].h = worker[w].h => v = w
      BY <2>2, <3>1 DEF OneWriterPerBlock, Busy, Unwritten
    <3>3. QED
      BY <1>1, <1>4, <2>2, <3>1, <3>2
  <2>3. QED
    BY <1>4, <2>1, <2>2, WriterMoves DEF WriterMove, Unwritten, CommitData
<1>5. QED
  BY <1>3, <1>4 DEF WriterFindsBlock

(* Nobody touches a block that dedup is about to queue.                     *)
LEMMA AppendStays ==
  ASSUME IInv, [Next]_vars, main.pc = "append", UNCHANGED main
  PROVE  main.h \in write_read_cache' /\ ~ InTable(main.h)' /\ Untouched(main.h)'
<1> TypeOK /\ MainInv
  BY DEF IInv
<1>1. main.h \in Hashes /\ main.h \in write_read_cache /\ ~ InTable(main.h)
  BY DEF MainInv, TypeOK, MainState
<1>2. \A i \in Queue : write_buffer[i] # main.h
  BY DEF MainInv, Untouched, QueuePositions
<1>3. \A w \in Workers : Busy(w) => worker[w].h # main.h
  BY DEF MainInv, Untouched
<1>4. ~ AppendWrite
  BY DEF AppendWrite, MainAt
<1>5. \A i \in Queue' : write_buffer'[i] # main.h
  BY <1>2, <1>4, QueueMoves, QueuePop DEF Queue
<1>6. \A w \in Workers : Busy(w)' => worker'[w].h # main.h
  <2>1. ASSUME NEW w \in Workers, PopWrite(w) PROVE Head(write_buffer) # main.h
    BY <1>2, <2>1, QueuePop
  <2>2. QED
    BY <1>3, <2>1, WriterMoves DEF WriterMove, Busy
<1>7. main.h \in write_read_cache'
  BY <1>1, <1>3, CacheShrinks DEF Busy
<1>8. table'[main.h] = table[main.h]
  <2>1. ASSUME NEW w \in Workers, Publish(w) \/ WorkerPut(w) PROVE table'[main.h] = table[main.h]
    <3>1. worker[w].h # main.h
      BY <1>3, <2>1 DEF Publish, WorkerPut, Busy
    <3>2. QED
      BY <1>1, <2>1, <3>1 DEF Publish, WorkerPut, SetEntry, TypeOK
  <2>2. CASE Main
    BY <1>4, <2>2 DEF Main, DedupMiss, DedupHit, Release, ReadMiss,
       Register, HitBump, HitPut, ReleaseMark, ReleasePut, ReadFetch
  <2>3. ASSUME NEW w \in Workers, Worker(w) PROVE table'[main.h] = table[main.h]
    BY <2>1, <2>3 DEF Worker, PopWrite, CommitData, CommitFails, Uncache,
       WorkerLoad, WorkerBump
  <2>4. CASE Gc
    BY <2>4 DEF Gc, GcWake, GcPop, GcLoad, GcStore, GcKeep, GcMark, GcReclaim, GcCommit
  <2>5. QED
    BY <2>2, <2>3, <2>4 DEF Next, vars
<1>9. QED
  BY <1>1, <1>5, <1>6, <1>7, <1>8 DEF InTable, Untouched, QueuePositions

(* The main thread can rely on what it knew when its step was enabled.      *)
LEMMA MainStep == IInv /\ [Next]_vars => MainInv'
<1> SUFFICES ASSUME IInv, [Next]_vars PROVE MainInv'
  OBVIOUS
<1> TypeOK /\ MainInv /\ WriterInv /\ TableInv
  BY DEF IInv
<1>1. main.h \in Hashes
  BY DEF TypeOK, MainState
<1>2. ASSUME NEW h \in Hashes
      PROVE  /\ InTable(h) => table'[h] # "none"
             /\ OnDisk(h) => OnDisk(h)'
             /\ Held(h) => Held(h)'
  BY <1>2, Growth DEF InTable
<1>3. CASE UNCHANGED main /\ (main.pc \in {"mark", "unput"} => UNCHANGED refs)
  BY <1>1, <1>2, <1>3, AppendStays DEF MainInv, InTable, OnDisk, Held, Untouched
<1>4. ASSUME NEW h \in Hashes, DedupMiss(h) PROVE MainInv'
  <2>1. /\ main' = MainAt("append", h, "adv", 0) /\ ~ InTable(h) /\ ~ Registering(h)
        /\ UNCHANGED <<table, write_buffer, worker>> /\ h \in write_read_cache'
    BY <1>4 DEF DedupMiss, Registering
  <2>2. Untouched(h)
    BY <2>1 DEF WriterInv, Untouched, QueuePositions
  <2>3. main'.pc = "append" /\ main'.h = h
    BY <2>1 DEF MainAt
  <2>4. QED
    BY <2>1, <2>2, <2>3 DEF MainInv, Untouched, QueuePositions, InTable, Queue, Busy
<1>5. CASE AppendWrite
  <2>1. main'.pc = "register" /\ main'.h = main.h /\ Held(main.h)
    BY <1>5 DEF AppendWrite, MainAt, MainInv, Held
  <2>2. QED
    BY <1>1, <1>2, <2>1 DEF MainInv, Held, OnDisk
<1>6. ASSUME NEW h \in Hashes, DedupHit(h) PROVE MainInv'
  <2>1. main'.pc = "bump" /\ main'.h = h /\ InTable(h)
    BY <1>6 DEF DedupHit, MainAt
  <2>2. QED
    BY <1>2, <2>1 DEF MainInv, InTable
<1>7. CASE HitBump
  <2>1. main'.pc = "put" /\ main'.h = main.h /\ InTable(main.h)
    BY <1>7 DEF HitBump, MainAt, MainInv
  <2>2. QED
    BY <1>1, <1>2, <2>1 DEF MainInv, InTable
<1>8. ASSUME NEW h \in Hashes, Release(h) PROVE MainInv'
  <2>1. main'.pc = "mark" /\ main'.h = h /\ InTable(h) /\ refs'[h] > 0
    BY <1>8 DEF Release, MainAt
  <2>2. QED
    BY <1>2, <2>1 DEF MainInv, InTable
<1>9. CASE ReleaseMark
  <2>1. main'.pc = "unput" /\ main'.h = main.h /\ InTable(main.h) /\ refs'[main.h] > 0
    BY <1>9 DEF ReleaseMark, MainAt, MainInv
  <2>2. QED
    BY <1>1, <1>2, <2>1 DEF MainInv, InTable
<1>10. ASSUME NEW h \in Hashes, ReadMiss(h) PROVE MainInv'
  <2>1. main'.pc = "fetch" /\ main'.h = h /\ InTable(h) /\ OnDisk(h)
    BY <1>10 DEF ReadMiss, MainAt, TableInv, Held
  <2>2. QED
    BY <1>2, <2>1 DEF MainInv, InTable, OnDisk
<1>11. CASE main'.pc \in {"idle", "ioerror"}
  BY <1>11 DEF MainInv
<1>12. CASE Main
  BY <1>4, <1>5, <1>6, <1>7, <1>8, <1>9, <1>10, <1>11, <1>12 DEF Main, Register, HitPut,
     ReleasePut, ReadFetch, IdleMain, MainAt
<1>13. ASSUME NEW w \in Workers, Worker(w) PROVE MainInv'
  BY <1>3, <1>13 DEF Worker, PopWrite, CommitData, CommitFails, Uncache,
     Publish, WorkerLoad, WorkerBump, WorkerPut
<1>14. CASE Gc
  BY <1>3, <1>14 DEF Gc, GcWake, GcPop, GcLoad, GcStore, GcKeep, GcMark, GcReclaim, GcCommit
<1>15. QED
  BY <1>3, <1>12, <1>13, <1>14 DEF Next, vars

-----------------------------------------------------------------------------
(* All of it holds at the start.                                            *)
LEMMA InitIInv == Init => IInv
<1> SUFFICES ASSUME Init PROVE IInv
  OBVIOUS
<1>1. \A w \in Workers : worker[w].pc = "poll"
  BY DEF Init, IdleWorker, WorkerAt
<1>2. main.pc = "idle" /\ gc.pc = "sleep"
  BY DEF Init, IdleMain, MainAt, IdleGc, GcAt
<1>3. TypeOK
  BY DedupAssumption, IdleTypes, BlockTypes DEF Init, TypeOK, GcSteps
<1>4. Queue = {} /\ 1..Len(remove_uses) = {}
  BY DEF Init, Queue
<1>5. OneWriterPerBlock /\ WriterFindsBlock
  BY <1>1, <1>4 DEF OneWriterPerBlock, WriterFindsBlock, QueuePositions, Busy, Unwritten
<1>6. MainInv /\ GcInv
  BY <1>2, <1>4 DEF MainInv, GcInv
<1>7. WriterInv
  BY <1>1, <1>4 DEF WriterInv, Busy
<1>8. TableInv
  BY DEF Init, TableInv, InTable
<1>9. QED
  BY <1>3, <1>5, <1>6, <1>7, <1>8 DEF IInv

(* Every step preserves it.                                                 *)
LEMMA StepIInv == IInv /\ [Next]_vars => IInv'
  BY TypeStep, OneWriterStep, FindsStep, MainStep, WriterStep, GcStep, TableStep DEF IInv

(* IInv holds in every state of every behaviour.                            *)
LEMMA Invariance == SafetySpec => []IInv
  BY InitIInv, StepIInv, PTL DEF SafetySpec

(* The variables of the write path keep their types, whatever the threads   *)
(* do between each other's steps.                                           *)
THEOREM TypeCorrect == SafetySpec => []TypeOK
<1>1. IInv => TypeOK
  BY DEF IInv
<1>2. QED
  BY <1>1, Invariance, PTL

(* dedup queues a block once: no two writers ever work on the same one.     *)
THEOREM WritersSafe == SafetySpec => []OneWriterPerBlock
<1>1. IInv => OneWriterPerBlock
  BY DEF IInv
<1>2. QED
  BY <1>1, Invariance, PTL

(* The writer that takes a block from the queue finds it in memory, and no  *)
(* other thread drops it before it is in a datastore.                       *)
THEOREM WriterFinds == SafetySpec => []WriterFindsBlock
<1>1. IInv => WriterFindsBlock
  BY DEF IInv
<1>2. QED
  BY <1>1, Invariance, PTL

(* A block that a file refers to is in memory or in a datastore, also after *)
(* a failed write and whatever becomes of its use count.                    *)
THEOREM BlocksKept == SafetySpec => []NoBlockLost
<1>1. IInv => NoBlockLost
  BY DEF IInv, TableInv, NoBlockLost
<1>2. QED
  BY <1>1, Invariance, PTL

-----------------------------------------------------------------------------
(* With one datastore the entry made in advance names the right one.        *)

(* A read that got past write_read_cache finds the block where its entry    *)
(* says.                                                                    *)
LEMMA FetchFinds ==
  ASSUME Stores = {FirstStore}, IInv, main.pc = "fetch"
  PROVE  main.h \in store[Entry(main.h).chunk]
<1>1. main.h \in Hashes /\ InTable(main.h) /\ OnDisk(main.h)
  BY DEF IInv, TypeOK, MainState, MainInv
<1>2. Entry(main.h).chunk = FirstStore
  BY <1>1, EntryType, BlockTypes DEF IInv
<1>3. QED
  BY <1>1, <1>2 DEF OnDisk

(* So no step of the main thread raises the IOError.                        *)
LEMMA ReadStep ==
  ASSUME Stores = {FirstStore}, IInv, ReadSucceeds, [Next]_vars
  PROVE  ReadSucceeds'
<1>1. CASE Main
  BY <1>1, FetchFinds DEF ReadSucceeds, Main, DedupMiss, DedupHit, Release, ReadMiss,
     AppendWrite, Register, HitBump, HitPut, ReleaseMark, ReleasePut, ReadFetch,
     IdleMain, MainAt
<1>2. ASSUME NEW w \in Workers, Worker(w) PROVE ReadSucceeds'
  BY <1>2 DEF ReadSucceeds, Worker, PopWrite, CommitData, CommitFails, Uncache,
     Publish, WorkerLoad, WorkerBump, WorkerPut
<1>3. CASE Gc
  BY <1>3 DEF ReadSucceeds, Gc, GcWake, GcPop, GcLoad, GcStore, GcKeep, GcMark, GcReclaim, GcCommit
<1>4. QED
  BY <1>1, <1>2, <1>3 DEF Next, vars, ReadSucceeds

(* No read of a block that a file refers to fails when there is one         *)
(* datastore, even between the writer's dropping of the block from memory   *)
(* and its final entry.                                                     *)
THEOREM ReadsSucceed ==
  ASSUME Stores = {FirstStore}
  PROVE  SafetySpec => []ReadSucceeds
<1>1. Init => ReadSucceeds
  BY DEF Init, ReadSucceeds, IdleMain, MainAt
<1>2. IInv /\ ReadSucceeds /\ [Next]_vars => ReadSucceeds'
  BY ReadStep
<1>3. QED
  BY <1>1, <1>2, Invariance, PTL DEF SafetySpec

-----------------------------------------------------------------------------
(* The refinement of BlockStore.                                            *)

HeldBlocks == {h \in Hashes : Held(h)}

(* Only a client that writes a new block adds to what is held: the writer   *)
(* puts on disk what memory holds, and drops from memory what is on disk.   *)
LEMMA HeldMoves ==
  ASSUME IInv, [Next]_vars
  PROVE  \/ UNCHANGED HeldBlocks
         \/ \E h \in Hashes : DedupMiss(h) /\ HeldBlocks' = HeldBlocks \union {h}
<1> TypeOK /\ WriterInv /\ WriterFindsBlock
  BY DEF IInv
<1>1. ASSUME NEW h \in Hashes, DedupMiss(h)
      PROVE  HeldBlocks' = HeldBlocks \union {h}
  BY <1>1 DEF DedupMiss, HeldBlocks, Held, OnDisk
<1>2. ASSUME UNCHANGED <<write_read_cache, store>> PROVE UNCHANGED HeldBlocks
  BY <1>2 DEF HeldBlocks, Held, OnDisk
<1>3. ASSUME NEW w \in Workers, Unwritten(w), UNCHANGED write_read_cache,
             NEW s \in Stores, store' = [store EXCEPT ![s] = @ \union {worker[w].h}]
      PROVE  UNCHANGED HeldBlocks
  <2>1. worker[w].h \in write_read_cache
    BY <1>3 DEF WriterFindsBlock
  <2>2. \A t \in Stores : \A h \in Hashes :
          h \in store'[t] <=> h \in store[t] \/ (t = s /\ h = worker[w].h)
    BY <1>3 DEF TypeOK
  <2>3. ASSUME NEW h \in Hashes PROVE Held(h)' <=> Held(h)
    BY <1>3, <2>1, <2>2 DEF Held, OnDisk
  <2>4. QED
    BY <2>3 DEF HeldBlocks
<1>4. ASSUME NEW w \in Workers, Uncache(w) PROVE UNCHANGED HeldBlocks
  <2>1. OnDisk(worker[w].h)
    BY <1>4 DEF Uncache, WriterInv
  <2>2. ASSUME NEW h \in Hashes PROVE Held(h)' <=> Held(h)
    BY <1>4, <2>1 DEF Uncache, Held, OnDisk
  <2>3. QED
    BY <2>2 DEF HeldBlocks
<1>5. CASE Main
  BY <1>1, <1>2, <1>5 DEF Main, DedupHit, Release, ReadMiss, AppendWrite,
     Register, HitBump, HitPut, ReleaseMark, ReleasePut, ReadFetch
<1>6. ASSUME NEW w \in Workers, Worker(w) PROVE UNCHANGED HeldBlocks
  <2>1. CASE CommitData(w) \/ CommitFails(w)
    BY <1>2, <1>3, <2>1 DEF CommitData, CommitFails, Unwritten
  <2>2. CASE ~ (CommitData(w) \/ CommitFails(w) \/ Uncache(w))
    BY <1>2, <1>6, <2>2 DEF Worker, PopWrite, Publish, WorkerLoad, WorkerBump, WorkerPut
  <2>3. QED
    BY <1>4, <1>6, <2>1, <2>2 DEF Worker
<1>7. CASE Gc
  BY <1>2, <1>7 DEF Gc, GcWake, GcPop, GcLoad, GcStore, GcKeep, GcMark, GcReclaim, GcCommit
<1>8. QED
  BY <1>2, <1>5, <1>6, <1>7 DEF Next, vars

(* Files come to refer to a block in Register and HitPut and cease to in    *)
(* ReleasePut; nothing else touches refs.                                   *)
LEMMA RefsMove ==
  ASSUME IInv, [Next]_vars
  PROVE  \/ UNCHANGED refs
         \/ \E h \in HeldBlocks : refs' = [refs EXCEPT ![h] = @ + 1]
         \/ \E h \in Hashes : refs[h] > 0 /\ refs' = [refs EXCEPT ![h] = @ - 1]
<1> TypeOK /\ MainInv /\ TableInv
  BY DEF IInv
<1>1. main.h \in Hashes
  BY DEF TypeOK, MainState
<1>2. CASE Register \/ HitPut
  <2>1. Held(main.h)
    BY <1>1, <1>2 DEF Register, HitPut, MainInv, TableInv
  <2>2. QED
    BY <1>1, <1>2, <2>1 DEF Register, HitPut, HeldBlocks
<1>3. CASE ReleasePut
  BY <1>1, <1>3 DEF ReleasePut, MainInv
<1>4. CASE Main
  BY <1>2, <1>3, <1>4 DEF Main, DedupMiss, DedupHit, Release, ReadMiss, AppendWrite,
     HitBump, ReleaseMark, ReadFetch
<1>5. ASSUME NEW w \in Workers, Worker(w) PROVE UNCHANGED refs
  BY <1>5 DEF Worker, PopWrite, CommitData, CommitFails, Uncache,
     Publish, WorkerLoad, WorkerBump, WorkerPut
<1>6. CASE Gc
  BY <1>6 DEF Gc, GcWake, GcPop, GcLoad, GcStore, GcKeep, GcMark, GcReclaim, GcCommit
<1>7. QED
  BY <1>4, <1>5, <1>6 DEF Next, vars

(* A client that writes a new block does not yet refer to it.               *)
LEMMA OneAtATime ==
  ASSUME [Next]_vars, ~ UNCHANGED refs
  PROVE  UNCHANGED <<write_read_cache, store>>
<1>1. CASE Main
  BY <1>1 DEF Main, DedupMiss, DedupHit, Release, ReadMiss, AppendWrite,
     Register, HitBump, HitPut, ReleaseMark, ReleasePut, ReadFetch
<1>2. ASSUME NEW w \in Workers, Worker(w) PROVE FALSE
  BY <1>2 DEF Worker, PopWrite, CommitData, CommitFails, Uncache,
     Publish, WorkerLoad, WorkerBump, WorkerPut
<1>3. CASE Gc
  BY <1>3 DEF Gc, GcWake, GcPop, GcLoad, GcStore, GcKeep, GcMark, GcReclaim, GcCommit
<1>4. QED
  BY <1>1, <1>2, <1>3 DEF Next, vars

(* Every step of a thread is a step of the abstract store, or none.         *)
LEMMA RefinementStep == IInv /\ [Next]_vars => [BS!Next]_(BS!vars)
<1> SUFFICES ASSUME IInv, [Next]_vars PROVE [BS!Next]_(BS!vars)
  OBVIOUS
<1>1. CASE ~ UNCHANGED refs
  <2>1. UNCHANGED HeldBlocks
    BY <1>1, OneAtATime DEF HeldBlocks, Held, OnDisk
  <2>2. CASE \E h \in HeldBlocks : refs' = [refs EXCEPT ![h] = @ + 1]
    BY <2>1, <2>2 DEF HeldBlocks, BS!Next, BS!Refer
  <2>3. CASE \E h \in Hashes : refs[h] > 0 /\ refs' = [refs EXCEPT ![h] = @ - 1]
    BY <2>1, <2>3 DEF HeldBlocks, BS!Next, BS!Drop
  <2>4. QED
    BY <1>1, <2>2, <2>3, RefsMove
<1>2. CASE UNCHANGED refs
  <2>1. CASE UNCHANGED HeldBlocks
    BY <1>2, <2>1 DEF HeldBlocks, BS!vars
  <2>2. ASSUME NEW h \in Hashes, HeldBlocks' = HeldBlocks \union {h}
        PROVE  BS!Next
    BY <1>2, <2>2 DEF HeldBlocks, BS!Next, BS!Accept
  <2>3. QED
    BY <2>1, <2>2, HeldMoves
<1>3. QED
  BY <1>1, <1>2

(* dedup, the writer threads, the garbage collector and the readers         *)
(* together keep the promise of the abstract block store.                   *)
THEOREM Refinement == SafetySpec => ImplementsBlockStore
<1>1. Init => BS!Init
  BY DEF Init, BS!Init, Held, OnDisk
<1>2. QED
  BY <1>1, RefinementStep, Invariance, PTL DEF SafetySpec, BS!Spec, ImplementsBlockStore
=============================================================================
