----------------------------- MODULE Durability -----------------------------
(***************************************************************************)
(* What is left of blocks and files when the process ends and starts again: *)
(* the block pipeline (dedup, the writers), the hash table with its pending *)
(* entries and its two committers (flush on the main thread, the collector),*)
(* the inodes, and the four things on disk.  The process can be killed      *)
(* between any two steps.  An unmount ends the main loop; the other threads *)
(* are daemons, go on while the process waits for stat_sender, and die with *)
(* it.                                                                      *)
(*                                                                          *)
(* An entry of the hash table counts here as what a restart can tell of it: *)
(* made in advance or final, and the datastore it names.  Blocks of bytes,  *)
(* use counts and caches (DedupPipeline), mirrors (WriteBackMap) and names  *)
(* (Namespace) are left out.  The order in which writers take blocks makes  *)
(* no difference, so write_buffer is a set: no block is in it twice         *)
(* (OneWriterPerBlock of DedupPipeline).                                    *)
(***************************************************************************)
EXTENDS Naturals

CONSTANTS
    Hashes,         \* blocks, named by the hash of their content
    Files,
    Workers,        \* writer threads
    Main, Gc,       \* the thread that serves requests, the persist thread
    Stores,         \* datastores
    FirstStore      \* datastore 0, where a new Block says it is

ASSUME DurabilityAssumption ==
    /\ Hashes # {}
    /\ FirstStore \in Stores
    /\ Main # Gc /\ Main \notin Workers /\ Gc \notin Workers

VARIABLES
    phase,      \* whether the file system is mounted
    table,      \* hash_table.d
    pending,    \* hash_table.pending
    queued,     \* the blocks in write_buffer
    file,       \* the blocks of each file, in memory
    step,       \* where each thread is; then its locals there:
    hand,       \* the block it works on
    entry,      \* the entry it puts into the table
    cp,         \* the entries it commits
    tdisk,      \* the hash table on disk
    fdisk,      \* the blocks of each file on disk
    store,      \* the blocks in each datastore
    settled,    \* history: blocks that were read back whole by some mount
    dropped     \* history: blocks whose write failed or was cut off by the end

memory == <<table, pending, queued, file>>
locals == <<step, hand, entry, cp>>
disks == <<tdisk, fdisk, store>>
history == <<settled, dropped>>
vars == <<phase, table, pending, queued, file, step, hand, entry, cp, tdisk,
          fdisk, store, settled, dropped>>

Threads == Workers \union {Main, Gc}
Phases == {"up", "unmounting", "unmounted", "crashed"}
Steps == {"idle", "commit", "set", "pend", "load", "reset", "repend", "swap", "write"}

(* The entries of a block: none, the one in advance, a final one. *)
None == [kind |-> "none", chunk |-> FirstStore]
Advance == [kind |-> "advance", chunk |-> FirstStore]
Final(s) == [kind |-> "final", chunk |-> s]
Entries == [kind : {"none", "advance", "final"}, chunk : Stores]
Map == [Hashes -> Entries]
Empty == [h \in Hashes |-> None]

AnyHash == CHOOSE h \in Hashes : TRUE

Putting(t) == step[t] \in {"set", "pend", "reset", "repend"}

TypeOK ==
    /\ phase \in Phases
    /\ table \in Map /\ pending \in Map /\ tdisk \in Map
    /\ queued \subseteq Hashes
    /\ file \in [Files -> SUBSET Hashes]
    /\ fdisk \in [Files -> SUBSET Hashes]
    /\ step \in [Threads -> Steps]
    /\ hand \in [Threads -> Hashes]
    /\ entry \in [Threads -> Entries]
    /\ cp \in [Threads -> Map]
    /\ store \in [Stores -> SUBSET Hashes]
    /\ settled \subseteq Hashes
    /\ dropped \subseteq Hashes
    /\ \A t \in Threads : Putting(t) => entry[t] # None

Init ==
    /\ phase = "up"
    /\ table = Empty /\ pending = Empty /\ queued = {}
    /\ file = [f \in Files |-> {}]
    /\ step = [t \in Threads |-> "idle"]
    /\ hand = [t \in Threads |-> AnyHash]
    /\ entry = [t \in Threads |-> None]
    /\ cp = [t \in Threads |-> Empty]
    /\ tdisk = Empty
    /\ fdisk = [f \in Files |-> {}]
    /\ store = [s \in Stores |-> {}]
    /\ settled = {} /\ dropped = {}

InTable(h) == table[h] # None
Committing(h) == \E w \in Workers : step[w] = "commit" /\ hand[w] = h
OnDisk(h) == \E s \in Stores : h \in store[s]
Running == phase \in {"up", "unmounting"}

(* A thread goes to a step with a block and an entry. *)
Goto(t, s, h, e) ==
    /\ step' = [step EXCEPT ![t] = s]
    /\ hand' = [hand EXCEPT ![t] = h]
    /\ entry' = [entry EXCEPT ![t] = e]
    /\ UNCHANGED cp

GoIdle(t) == Goto(t, "idle", AnyHash, None)

-----------------------------------------------------------------------------
(* hash_table[h] = e, in two steps that another thread can come between.    *)

SetDict(t) ==
    /\ step[t] \in {"set", "reset"}
    /\ table' = [table EXCEPT ![hand[t]] = entry[t]]
    /\ Goto(t, IF step[t] = "set" THEN "pend" ELSE "repend", hand[t], entry[t])
    /\ UNCHANGED <<phase, pending, queued, file>> /\ UNCHANGED history /\ UNCHANGED disks

MakePending(t) == pending' = [pending EXCEPT ![hand[t]] = entry[t]]

-----------------------------------------------------------------------------
(* Main. *)

(* Mutant: dedup writes a block again that the table knows. *)
DedupAgain(h) ==
    /\ phase = "up" /\ step[Main] = "idle"
    /\ queued' = queued \union {h}
    /\ Goto(Main, "set", h, Advance)
    /\ UNCHANGED <<phase, table, pending, file>> /\ UNCHANGED history /\ UNCHANGED disks

(* Mutant: dedup makes the entry and forgets to queue the block. *)
DedupMissUnqueued(h) ==
    /\ phase = "up" /\ step[Main] = "idle"
    /\ ~ InTable(h)
    /\ Goto(Main, "set", h, Advance)
    /\ UNCHANGED phase /\ UNCHANGED history /\ UNCHANGED memory /\ UNCHANGED disks

(* dedup queues a block the table does not know, to go on with its entry in *)
(* advance.                                                                 *)
DedupMiss(h) ==
    /\ phase = "up" /\ step[Main] = "idle"
    /\ ~ InTable(h)
    /\ queued' = queued \union {h}
    /\ Goto(Main, "set", h, Advance)
    /\ UNCHANGED <<phase, table, pending, file>> /\ UNCHANGED history /\ UNCHANGED disks

(* Mutant: update_index does not find that the block is unknown. *)
FetchUnknown(h) ==
    /\ phase = "up" /\ step[Main] = "idle"
    /\ Goto(Main, "reset", h, table[h])
    /\ UNCHANGED phase /\ UNCHANGED history /\ UNCHANGED memory /\ UNCHANGED disks

(* update_index fetches the entry of a known block, which is used once more *)
(* or once less, and will put it back.                                      *)
Fetch(h) ==
    /\ phase = "up" /\ step[Main] = "idle"
    /\ InTable(h)
    /\ Goto(Main, "reset", h, table[h])
    /\ UNCHANGED phase /\ UNCHANGED history /\ UNCHANGED memory /\ UNCHANGED disks

(* The entry is in the table; a file gets the block, or one that had it     *)
(* does without one of its uses.                                            *)
FileStep ==
    /\ step[Main] \in {"pend", "repend"}
    /\ MakePending(Main)
    /\ \E f \in Files :
        \/ file' = [file EXCEPT ![f] = @ \union {hand[Main]}]
        \/ /\ step[Main] = "repend"
           /\ hand[Main] \in file[f]
           /\ file' \in {file, [file EXCEPT ![f] = @ \ {hand[Main]}]}
    /\ GoIdle(Main)
    /\ UNCHANGED <<phase, table, queued>> /\ UNCHANGED history /\ UNCHANGED disks

(* inodes.commit, which most handlers end with; flush goes on with          *)
(* hash_table.commit.                                                       *)
CommitInodes ==
    /\ phase = "up" /\ step[Main] = "idle"
    /\ fdisk' = file
    /\ UNCHANGED <<phase, tdisk, store>> /\ UNCHANGED history /\ UNCHANGED memory
    /\ UNCHANGED locals

CopyPending(t) ==
    /\ cp' = [cp EXCEPT ![t] = pending]
    /\ step' = [step EXCEPT ![t] = "swap"]
    /\ UNCHANGED <<hand, entry>>

Flush ==
    /\ phase = "up" /\ step[Main] = "idle"
    /\ fdisk' = file
    /\ CopyPending(Main)
    /\ UNCHANGED <<phase, tdisk, store>> /\ UNCHANGED history /\ UNCHANGED memory

(* The kernel unmounts when no request is left; pyfuse3's main loop ends.   *)
(* A flush need not have come before: truncate(2) extends a file, through   *)
(* dedup, without opening it; and a flush does not wait for the writers.    *)
Unmount ==
    /\ phase = "up" /\ step[Main] = "idle"
    /\ phase' = "unmounting"
    /\ UNCHANGED history /\ UNCHANGED memory /\ UNCHANGED locals /\ UNCHANGED disks

-----------------------------------------------------------------------------
(* A writer: write_new_blocks. *)

Take(w) ==
    /\ step[w] = "idle"
    /\ \E h \in queued :
        /\ queued' = queued \ {h}
        /\ Goto(w, "commit", h, None)
    /\ UNCHANGED <<phase, table, pending, file>> /\ UNCHANGED history /\ UNCHANGED disks

(* Mutant: the final entry is made before the block is written. *)
CommitDataLate(w) ==
    /\ step[w] = "commit"
    /\ \E s \in Stores : Goto(w, "set", hand[w], Final(s))
    /\ UNCHANGED phase /\ UNCHANGED history /\ UNCHANGED memory /\ UNCHANGED disks

CommitData(w) ==
    /\ step[w] = "commit"
    /\ \E s \in Stores :
        /\ store' = [store EXCEPT ![s] = @ \union {hand[w]}]
        /\ Goto(w, "set", hand[w], Final(s))
    /\ UNCHANGED <<phase, tdisk, fdisk>> /\ UNCHANGED history /\ UNCHANGED memory

(* Mutant: a block that could not be written is queued again. *)
CommitFailsRequeues(w) ==
    /\ step[w] = "commit"
    /\ queued' = queued \union {hand[w]}
    /\ GoIdle(w)
    /\ UNCHANGED <<phase, table, pending, file>> /\ UNCHANGED history /\ UNCHANGED disks

(* No room, or the mirror fails after the block was put: logged, dropped.   *)
CommitFails(w) ==
    /\ step[w] = "commit"
    /\ \/ UNCHANGED store
       \/ \E s \in Stores : store' = [store EXCEPT ![s] = @ \union {hand[w]}]
    /\ GoIdle(w)
    /\ dropped' = dropped \union {hand[w]}
    /\ UNCHANGED <<phase, tdisk, fdisk, settled>> /\ UNCHANGED memory

(* The final entry is made; update_index fetches the entry and puts it back.*)
Published(w) ==
    /\ step[w] = "pend"
    /\ MakePending(w)
    /\ Goto(w, "load", hand[w], None)
    /\ UNCHANGED <<phase, table, queued, file>> /\ UNCHANGED history /\ UNCHANGED disks

Load(w) ==
    /\ step[w] = "load"
    /\ Goto(w, "reset", hand[w], table[hand[w]])
    /\ UNCHANGED phase /\ UNCHANGED history /\ UNCHANGED memory /\ UNCHANGED disks

Written(w) ==
    /\ step[w] = "repend"
    /\ MakePending(w)
    /\ GoIdle(w)
    /\ UNCHANGED <<phase, table, queued, file>> /\ UNCHANGED history /\ UNCHANGED disks

Work(w) ==
    \/ Take(w) \/ CommitData(w) \/ CommitFails(w) \/ SetDict(w) \/ Published(w)
    \/ Load(w) \/ Written(w)

-----------------------------------------------------------------------------
(* hash_table.commit, by the collector or by flush. *)

(* persist goes on as long as RUNNING. *)
Collect ==
    /\ phase = "up" /\ step[Gc] = "idle"
    /\ CopyPending(Gc)
    /\ UNCHANGED phase /\ UNCHANGED history /\ UNCHANGED memory /\ UNCHANGED disks

CommitSwap(t) ==
    /\ step[t] = "swap"
    /\ pending' = Empty
    /\ step' = [step EXCEPT ![t] = "write"]
    /\ UNCHANGED <<hand, entry, cp>>
    /\ UNCHANGED <<phase, table, queued, file>> /\ UNCHANGED history /\ UNCHANGED disks

CommitWrite(t) ==
    /\ step[t] = "write"
    /\ tdisk' = [h \in Hashes |-> IF cp[t][h] # None THEN cp[t][h] ELSE tdisk[h]]
    /\ step' = [step EXCEPT ![t] = "idle"]
    /\ cp' = [cp EXCEPT ![t] = Empty]
    /\ UNCHANGED <<hand, entry>>
    /\ UNCHANGED <<phase, fdisk, store>> /\ UNCHANGED history /\ UNCHANGED memory

-----------------------------------------------------------------------------
(* The process ends: killed, or by itself after an unmount.  What was in    *)
(* memory is gone.                                                          *)
Stop(end) ==
    /\ phase' = end
    /\ table' = Empty /\ pending' = Empty /\ queued' = {}
    /\ file' = [f \in Files |-> {}]
    /\ step' = [t \in Threads |-> "idle"]
    /\ hand' = [t \in Threads |-> AnyHash]
    /\ entry' = [t \in Threads |-> None]
    /\ cp' = [t \in Threads |-> Empty]
    /\ dropped' = dropped \union queued \union {h \in Hashes : Committing(h)}
    /\ UNCHANGED settled /\ UNCHANGED disks

Exit == phase = "unmounting" /\ Stop("unmounted")
Crash == Running /\ Stop("crashed")

(* The entry on disk names a datastore that has the block. *)
Has(e, h) == e # None /\ h \in store[e.chunk]
Durable(h) == Has(tdisk[h], h)

(* init_from_disk of both maps. *)
Mount ==
    /\ ~ Running
    /\ phase' = "up"
    /\ table' = tdisk
    /\ file' = fdisk
    /\ settled' = settled \union {h \in Hashes : Durable(h)}
    /\ UNCHANGED <<pending, queued, dropped>> /\ UNCHANGED locals /\ UNCHANGED disks

Next ==
    \/ \E h \in Hashes : DedupMiss(h) \/ Fetch(h)
    \/ SetDict(Main) \/ FileStep \/ CommitInodes \/ Flush \/ Unmount
    \/ \E t \in {Main, Gc} : CommitSwap(t) \/ CommitWrite(t)
    \/ Collect
    \/ \E w \in Workers : Work(w)
    \/ Exit \/ Crash \/ Mount

Spec == Init /\ [][Next]_vars

(* Every writer thread is scheduled again and again while the process runs. *)
FairSpec == Spec /\ \A w \in Workers : WF_vars(Work(w))

-----------------------------------------------------------------------------
(* A final entry, in memory or on disk, never names a datastore without the *)
(* block: commit_data comes before the entry, and a crash in between leaves *)
(* a block without an entry, not an entry without a block.                  *)
FinalEntryHasBlock ==
    \A h \in Hashes : \A e \in {table[h], pending[h], tdisk[h]} :
        e.kind = "final" => h \in store[e.chunk]

(* A block that has an entry, in memory or on disk, is in a datastore, or   *)
(* is still to be written; no other way leads to an entry without a block   *)
(* than a write that failed or that the end of the process cut off.         *)
KnownBlockExists ==
    \A h \in Hashes :
        table[h] # None \/ tdisk[h] # None =>
            OnDisk(h) \/ h \in queued \/ Committing(h) \/ h \in dropped

(* A block that a mount found whole stays readable in every later life of   *)
(* the file system, whatever is written, committed by two threads at once,  *)
(* overtaken or cut off by a crash: dedup never writes it again, so no      *)
(* entry in advance ever takes the place of the one that was read back.     *)
SettledStays ==
    \A h \in settled : Durable(h) /\ (Running => Has(table[h], h))

(* A queued block reaches a datastore, unless its write fails or the end of *)
(* the process cuts it off: it waits neither for a writer that failed nor   *)
(* for the committers.                                                      *)
QueueDrains == \A h \in Hashes : h \in queued ~> OnDisk(h) \/ h \in dropped

-----------------------------------------------------------------------------
(* At the unmount: "Flushing data to disk. This can take some time, please  *)
(* wait. Forcing termination can cause data loss!!!".                       *)
UnmountFlushes ==
    phase = "unmounted" => \A f \in Files : \A h \in fdisk[f] : Durable(h)
=============================================================================
