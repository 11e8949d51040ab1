---------------------------- MODULE WriteBackMap ----------------------------
(***************************************************************************)
(* The dictionaries kept in memory and written back to RocksDB: HashTable   *)
(* (hash_table, shared by the main thread, the writers and the persist      *)
(* thread, which set and commit entries without a lock) and FSMeta (the     *)
(* inodes, used by the main thread alone, which also deletes).  The classes *)
(* have the same fields and the same commit; one instance of this module    *)
(* for each says which threads there are and whether they delete.           *)
(*                                                                          *)
(* A value is the number of the assignment that made it; 0 is no value.     *)
(* Values are taken as immutable: what a thread changes in an object that   *)
(* is already in the dictionary is not modelled here.                       *)
(***************************************************************************)
EXTENDS Naturals

CONSTANTS
    Keys,
    Threads,        \* the threads that use the map
    Committers,     \* those of them that commit it
    Deletes,        \* whether entries are deleted (FSMeta)
    Replicated,     \* replicate_metadata
    Crashes,        \* whether the process can be killed and started again
    MaxSets         \* bound: assignments

ASSUME MapAssumption ==
    /\ Committers \subseteq Threads
    /\ Deletes \in BOOLEAN
    /\ Deletes => \E t \in Threads : Threads = {t}  \* no await in a delete
    /\ Replicated \in BOOLEAN
    /\ Crashes \in BOOLEAN
    /\ MaxSets \in Nat

VARIABLES
    d,          \* the entries in memory
    pending,    \* entries set since the last commit
    disk,       \* ht
    mirror,     \* the second RocksDB, when replicated
    thread,     \* where each thread is, with its key, value and cp
    sets,       \* bound: assignments so far
    torn        \* history: the keys a crash has caught between disk and mirror

vars == <<d, pending, disk, mirror, thread, sets, torn>>

Values == 0..MaxSets
Map == [Keys -> Values]
Empty == [k \in Keys |-> 0]

Steps == {"idle", "pend", "swap", "write", "copy", "undisk", "unmirror", "undict"}
Idle == [pc |-> "idle", keys |-> {}, cp |-> Empty]

TypeOK ==
    /\ d \in Map /\ pending \in Map /\ disk \in Map /\ mirror \in Map
    /\ thread \in [Threads -> [pc : Steps, keys : SUBSET Keys, cp : Map]]
    /\ \A t \in Threads : thread[t].pc = "idle" => thread[t] = Idle
    /\ sets \in 0..MaxSets
    /\ torn \subseteq Keys

Init ==
    /\ d = Empty /\ pending = Empty /\ disk = Empty /\ mirror = Empty
    /\ thread = [t \in Threads |-> Idle]
    /\ sets = 0
    /\ torn = {}

(* What m becomes when the entries of cp are put into it. *)
Updated(m, cp) == [k \in Keys |-> IF cp[k] # 0 THEN cp[k] ELSE m[k]]

At(t, pc, keys, cp) ==
    thread' = [thread EXCEPT ![t] = [pc |-> pc, keys |-> keys, cp |-> cp]]

-----------------------------------------------------------------------------
(* map[k] = v: self.d[k] = v, then self.pending[k] = v. *)

SetDict(t, k) ==
    /\ thread[t].pc = "idle"
    /\ sets < MaxSets
    /\ sets' = sets + 1
    /\ d' = [d EXCEPT ![k] = sets + 1]
    /\ At(t, "pend", {k}, [Empty EXCEPT ![k] = sets + 1])
    /\ UNCHANGED <<pending, disk, mirror, torn>>

SetPending(t) ==
    /\ thread[t].pc = "pend"
    /\ pending' = Updated(pending, thread[t].cp)
    /\ At(t, "idle", {}, Empty)
    /\ UNCHANGED <<d, disk, mirror, sets, torn>>

-----------------------------------------------------------------------------
(* commit: cp = self.pending.copy(), self.pending = {}, then the entries of *)
(* cp go to disk and to the mirror, each in one batch.                      *)

CommitCopy(t) ==
    /\ t \in Committers
    /\ thread[t].pc = "idle"
    /\ At(t, "swap", {}, pending)
    /\ UNCHANGED <<d, pending, disk, mirror, sets, torn>>

CommitSwap(t) ==
    /\ thread[t].pc = "swap"
    /\ pending' = Empty
    /\ At(t, "write", {}, thread[t].cp)
    /\ UNCHANGED <<d, disk, mirror, sets, torn>>

CommitWrite(t) ==
    /\ thread[t].pc = "write"
    /\ disk' = Updated(disk, thread[t].cp)
    /\ IF Replicated THEN At(t, "copy", {}, thread[t].cp) ELSE At(t, "idle", {}, Empty)
    /\ UNCHANGED <<d, pending, mirror, sets, torn>>

(* Mutant: the copy outlives the commit. *)
CommitMirrorKeeps(t) ==
    /\ thread[t].pc = "copy"
    /\ mirror' = Updated(mirror, thread[t].cp)
    /\ At(t, "idle", {}, thread[t].cp)
    /\ torn' = torn \ {k \in Keys : thread[t].cp[k] # 0}
    /\ UNCHANGED <<d, pending, disk, sets>>

(* Mutant: the batch is gone by the time the mirror would get it. *)
CommitMirrorSkips(t) ==
    /\ thread[t].pc = "copy"
    /\ At(t, "idle", {}, Empty)
    /\ UNCHANGED <<d, pending, disk, mirror, sets, torn>>

CommitMirror(t) ==
    /\ thread[t].pc = "copy"
    /\ mirror' = Updated(mirror, thread[t].cp)
    /\ At(t, "idle", {}, Empty)
    /\ torn' = torn \ {k \in Keys : thread[t].cp[k] # 0}
    /\ UNCHANGED <<d, pending, disk, sets>>

-----------------------------------------------------------------------------
(* del map[k] (FSMeta): from disk and the mirror at once, then from pending *)
(* and from memory.                                                         *)

Without(m, keys) == [k \in Keys |-> IF k \in keys THEN 0 ELSE m[k]]

DeleteDisk(t, k) ==
    /\ Deletes
    /\ thread[t].pc = "idle"
    /\ d[k] # 0
    /\ disk' = Without(disk, {k})
    /\ At(t, IF Replicated THEN "unmirror" ELSE "undict", {k}, Empty)
    /\ UNCHANGED <<d, pending, mirror, sets, torn>>

DeleteMirror(t) ==
    /\ thread[t].pc = "unmirror"
    /\ mirror' = Without(mirror, thread[t].keys)
    /\ At(t, "undict", thread[t].keys, Empty)
    /\ torn' = torn \ thread[t].keys
    /\ UNCHANGED <<d, pending, disk, sets>>

(* Mutant: a deleted entry stays pending, as HashTable.__delitem__ has it. *)
DeleteDictOnly(t) ==
    /\ thread[t].pc = "undict"
    /\ d' = Without(d, thread[t].keys)
    /\ At(t, "idle", {}, Empty)
    /\ UNCHANGED <<pending, disk, mirror, sets, torn>>

DeleteDict(t) ==
    /\ thread[t].pc = "undict"
    /\ pending' = Without(pending, thread[t].keys)
    /\ d' = Without(d, thread[t].keys)
    /\ At(t, "idle", {}, Empty)
    /\ UNCHANGED <<disk, mirror, sets, torn>>

-----------------------------------------------------------------------------
(* What a thread has written to disk, or deleted there, and not yet in the mirror. *)
Torn(t, k) ==
    \/ thread[t].pc = "copy" /\ thread[t].cp[k] # 0
    \/ thread[t].pc = "unmirror" /\ k \in thread[t].keys

(* The process dies, between any two steps; init_from_disk reads the disk.  *)
Restart ==
    /\ Crashes
    /\ d' = disk
    /\ pending' = Empty
    /\ thread' = [t \in Threads |-> Idle]
    /\ torn' = torn \union {k \in Keys : \E t \in Threads : Torn(t, k)}
    /\ UNCHANGED <<disk, mirror, sets>>

Step(t) ==
    \/ \E k \in Keys : SetDict(t, k) \/ DeleteDisk(t, k)
    \/ SetPending(t)
    \/ CommitCopy(t) \/ CommitSwap(t) \/ CommitWrite(t) \/ CommitMirror(t)
    \/ DeleteMirror(t) \/ DeleteDict(t)

Next == (\E t \in Threads : Step(t)) \/ Restart

Spec == Init /\ [][Next]_vars

-----------------------------------------------------------------------------
(* What a thread has in its hands. *)
InHand(k) ==
    \E t \in Threads : thread[t].cp[k] # 0 \/ k \in thread[t].keys

(* An entry that differs from its copy on disk is pending or in the hands   *)
(* of a thread that will write it: the next commit makes up for it.  In     *)
(* particular a deleted inode does not come back from pending.              *)
Tracked == \A k \in Keys : d[k] # disk[k] => pending[k] # 0 \/ InHand(k)

(* The disk never has a newer value than memory, which every reader and     *)
(* every test "in hash_table" goes by; nor has the mirror, which a crash    *)
(* may leave with what the disk has lost.                                   *)
NeverAhead ==
    \A k \in Keys : disk[k] <= d[k] /\ (~ Crashes => mirror[k] <= d[k])

(* replicate_metadata: "an additional copy of the metadata.  Writes will be *)
(* done in sync."  Only the keys that a crash has caught between disk and   *)
(* mirror can differ when no call is under way, each until its next commit  *)
(* or deletion.                                                             *)
Quiet == \A t \in Threads : thread[t].pc = "idle"
MirrorIsCopy ==
    Quiet /\ Replicated => \A k \in Keys \ torn : mirror[k] = disk[k]
=============================================================================
