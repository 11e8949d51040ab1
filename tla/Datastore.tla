----------------------------- MODULE Datastore -----------------------------
(***************************************************************************)
(* How a writer thread stores a block with the rocksdb backend (commit_data,*)
(* rocksdb_commit, write_data and pick_datastore), composed with the write  *)
(* buffer it takes the block from.  A writer measures a store, leaves the   *)
(* size in next_write_position, an attribute that all writers share, reads  *)
(* it back from there to compare it with the limit of the store, and puts   *)
(* the block: nothing keeps another writer out in between.                  *)
(*                                                                          *)
(* Blocks take one unit of space each.  Nothing is deleted from a store, so *)
(* the stores fill up and then every write fails: the behaviours are        *)
(* unbounded, the states are not.  The size of a directory is what the      *)
(* blocks in it take and at most Slack of RocksDB's own files.              *)
(***************************************************************************)
EXTENDS WriteBuffer, FiniteSets

CONSTANTS
    NumStores,      \* datastores
    NumMirrors,     \* mirror datastores
    Limit,          \* the size each store may have
    Slack,          \* what RocksDB adds to the blocks of a store, at most
    WriteSpread,    \* write_spread
    Replicate       \* replicate_data

(* The datastores and then the mirrors, numbered as persistence.py does. *)
Datastores == 0 .. NumStores - 1
MirrorStores == NumStores .. NumStores + NumMirrors - 1
Stores == 0 .. NumStores + NumMirrors - 1

ASSUME DatastoreAssumption ==
    /\ IsFiniteSet(Workers) /\ Workers # {}
    /\ NumStores \in Nat \ {0}
    /\ NumMirrors \in Nat
    /\ Replicate => NumMirrors > 0
    /\ Limit \in [Stores -> Nat]
    /\ Slack \in Nat
    /\ WriteSpread \in BOOLEAN
    /\ Replicate \in BOOLEAN

VARIABLES
    bytes,      \* what the blocks of each store take
    position,   \* next_write_position of each store
    step,       \* where each writer is in commit_data; then its locals there:
    replica,    \* whether it writes the copy for a mirror
    l,          \* the stores it has not found full yet
    store,      \* the store it looks at
    pos,        \* the size it measured
    chunk,      \* q['chunk']
    written     \* the stores it has put its block in

dsVars == <<bytes, position, step, replica, l, store, pos, chunk, written>>
allVars == <<size, producer, worker, bytes, position, step, replica, l, store,
             pos, chunk, written>>

Steps == {"none", "pick", "measured", "compare", "put", "nospace", "done"}

(* q['chunk'] before it is set. *)
NoChunk == NumStores + NumMirrors

(* The stores that a write chooses from. *)
List(isReplica) == IF isReplica THEN MirrorStores ELSE Datastores

DSTypeOK ==
    /\ TypeOK
    /\ bytes \in [Stores -> Nat]
    /\ position \in [Stores -> Nat]
    /\ step \in [Workers -> Steps]
    /\ replica \in [Workers -> BOOLEAN]
    /\ l \in [Workers -> SUBSET Stores]
    /\ store \in [Workers -> Stores]
    /\ pos \in [Workers -> Nat]
    /\ chunk \in [Workers -> Nat]
    /\ written \in [Workers -> SUBSET Stores]
    /\ \A w \in Workers :
        /\ step[w] = "none" <=> worker[w] # "busy"
        /\ l[w] \subseteq List(replica[w])
        /\ step[w] = "none" => ~ replica[w]

DSInit ==
    /\ Init
    /\ bytes = [s \in Stores |-> 0]
    /\ position = [s \in Stores |-> 0]
    /\ step = [w \in Workers |-> "none"]
    /\ replica = [w \in Workers |-> FALSE]
    /\ l = [w \in Workers |-> {}]
    /\ store = [w \in Workers |-> 0]
    /\ pos = [w \in Workers |-> 0]
    /\ chunk = [w \in Workers |-> NoChunk]
    /\ written = [w \in Workers |-> {}]

(* A writer goes on in commit_data. *)
Goto(w, s) == step' = [step EXCEPT ![w] = s] /\ UNCHANGED vars

-----------------------------------------------------------------------------
(* The thread that serves requests, and a writer that finds no block. *)
Serve ==
    /\ Produce
    /\ UNCHANGED dsVars

FindNothing(w) ==
    /\ PopEmpty(w) \/ (worker[w] = "nap" /\ PollAgain(w))
    /\ UNCHANGED dsVars

(* Mutant: the mirrors are among the datastores to choose from. *)
TakeBlockForAll(w) ==
    /\ PopLeft(w)
    /\ step' = [step EXCEPT ![w] = "pick"]
    /\ l' = [l EXCEPT ![w] = Stores]
    /\ UNCHANGED <<bytes, position, replica, store, pos, chunk, written>>

(* The writer takes a block and calls commit_data: pick_datastore fills l.  *)
TakeBlock(w) ==
    /\ PopLeft(w)
    /\ step' = [step EXCEPT ![w] = "pick"]
    /\ l' = [l EXCEPT ![w] = Datastores]
    /\ UNCHANGED <<bytes, position, replica, store, pos, chunk, written>>

(* pick_datastore, one round of its loop: any store that is left with       *)
(* write_spread, else the first that is left; then get_dir_size.            *)

(* Mutant: the last store that is left. *)
CandidatesFromTheEnd(left) ==
    {s \in left : WriteSpread \/ \A t \in left : t <= s}

Candidates(left) == {s \in left : WriteSpread \/ \A t \in left : s <= t}

Measure(w) ==
    /\ step[w] = "pick"
    /\ \E s \in Candidates(l[w]), extra \in 0..Slack :
        /\ store' = [store EXCEPT ![w] = s]
        /\ pos' = [pos EXCEPT ![w] = bytes[s] + extra]
    /\ Goto(w, "measured")
    /\ UNCHANGED <<bytes, position, replica, l, chunk, written>>

SetPosition(w) ==
    /\ step[w] = "measured"
    /\ position' = [position EXCEPT ![store[w]] = pos[w]]
    /\ pos' = [pos EXCEPT ![w] = 0]
    /\ Goto(w, "compare")
    /\ UNCHANGED <<bytes, replica, l, store, chunk, written>>

(* Mutant: a store that is exactly at its limit takes one more. *)
HasRoomAtLimit(s) == position[s] <= Limit[s]

(* By the size that some writer left there last. *)
HasRoom(s) == position[s] < Limit[s]

(* Mutant: the write of the replica sets q['chunk'] too. *)
AcceptReplica(w) ==
    /\ step[w] = "compare"
    /\ HasRoom(store[w])
    /\ chunk' = [chunk EXCEPT ![w] = store[w]]
    /\ Goto(w, "put")
    /\ UNCHANGED <<bytes, position, replica, l, store, pos, written>>

(* The store has room: write_data sets q['chunk'] unless it writes a        *)
(* replica.                                                                 *)
Accept(w) ==
    /\ step[w] = "compare"
    /\ HasRoom(store[w])
    /\ chunk' = [chunk EXCEPT ![w] = IF replica[w] THEN @ ELSE store[w]]
    /\ Goto(w, "put")
    /\ UNCHANGED <<bytes, position, replica, l, store, pos, written>>

(* Mutant: the first store without room ends the search. *)
RejectAll(w) ==
    /\ step[w] = "compare"
    /\ ~ HasRoom(store[w])
    /\ l' = [l EXCEPT ![w] = {}]
    /\ Goto(w, "nospace")
    /\ UNCHANGED <<bytes, position, replica, store, pos, chunk, written>>

(* The store is full: the next one, or none is left. *)
Reject(w) ==
    /\ step[w] = "compare"
    /\ ~ HasRoom(store[w])
    /\ l' = [l EXCEPT ![w] = @ \ {store[w]}]
    /\ Goto(w, IF l[w] = {store[w]} THEN "nospace" ELSE "pick")
    /\ UNCHANGED <<bytes, position, replica, store, pos, chunk, written>>

(* db.put; rocksdb_commit goes on with the mirror when data is replicated.  *)
Put(w) ==
    /\ step[w] = "put"
    /\ bytes' = [bytes EXCEPT ![store[w]] = @ + 1]
    /\ written' = [written EXCEPT ![w] = @ \union {store[w]}]
    /\ \/ /\ Replicate /\ ~ replica[w]
          /\ replica' = [replica EXCEPT ![w] = TRUE]
          /\ l' = [l EXCEPT ![w] = MirrorStores]
          /\ Goto(w, "pick")
       \/ /\ ~ Replicate \/ replica[w]
          /\ Goto(w, "done")
          /\ UNCHANGED <<replica, l>>
    /\ UNCHANGED <<position, store, pos, chunk>>

(* The locals go when the writer polls again. *)
Return(w) ==
    /\ step' = [step EXCEPT ![w] = "none"]
    /\ replica' = [replica EXCEPT ![w] = FALSE]
    /\ l' = [l EXCEPT ![w] = {}]
    /\ store' = [store EXCEPT ![w] = 0]
    /\ pos' = [pos EXCEPT ![w] = 0]
    /\ chunk' = [chunk EXCEPT ![w] = NoChunk]
    /\ written' = [written EXCEPT ![w] = {}]
    /\ UNCHANGED <<bytes, position>>

(* db.put raises IOError, or no store has room (ENOSPC): the exception is   *)
(* logged, the block is dropped and the writer polls again.                 *)
GiveUp(w) ==
    /\ step[w] \in {"put", "nospace"}
    /\ PollAgain(w)
    /\ Return(w)

(* commit_data returns and the block is entered in hash_table. *)
Finish(w) ==
    /\ step[w] = "done"
    /\ PollAgain(w)
    /\ Return(w)

Write(w) ==
    \/ FindNothing(w) \/ TakeBlock(w)
    \/ Measure(w) \/ SetPosition(w) \/ Accept(w) \/ Reject(w)
    \/ Put(w) \/ GiveUp(w) \/ Finish(w)

DSNext == Serve \/ \E w \in Workers : Write(w)

(* As in WriteBuffer: every writer is scheduled again and again. *)
DSFairness ==
    /\ \A w \in Workers : WF_allVars(Write(w))
    /\ WF_allVars(StallOver /\ UNCHANGED dsVars)
    /\ WF_allVars(Enqueue /\ UNCHANGED dsVars)

DSSafetySpec == DSInit /\ [][DSNext]_allVars
DSSpec == DSSafetySpec /\ DSFairness

-----------------------------------------------------------------------------
(* A store can be at its limit, for all that was ever measured of it. *)
MayBeFull(s) == bytes[s] + Slack >= Limit[s]

(* README, "Data Distribution": with the contiguous spread a new media is   *)
(* used only when the current one has reached its limit, though a writer    *)
(* compares the size another writer may have left in next_write_position.   *)
FillsInOrder ==
    ~ WriteSpread =>
        \A isReplica \in BOOLEAN : \A s, t \in List(isReplica) :
            s < t /\ bytes[t] > 0 => MayBeFull(s)

(* A write is refused for want of space only when no store of its list has  *)
(* any, whichever sizes the other writers leave in next_write_position.     *)
NoSpaceOnlyWhenFull ==
    \A w \in Workers :
        step[w] = "nospace" => \A s \in List(replica[w]) : MayBeFull(s)

(* How far a store outgrows its limit.  Each writer can hold one size from  *)
(* before the store was full; when it stores it in next_write_position, it  *)
(* lets in not only itself but every writer that has used up its own and    *)
(* compares just then: at most 1 + 2 + ... + n blocks for n writers.        *)
OvershootBounded ==
    LET n == Cardinality(Workers) IN
    \A s \in Stores : bytes[s] < Limit[s] + (n * (n + 1)) \div 2

(* When commit_data returns, the datastore named in q['chunk'], where every *)
(* read of the block will go, has the block, and so has a mirror when data  *)
(* is replicated.                                                           *)
CommittedWhereItSays ==
    \A w \in Workers :
        step[w] = "done" =>
            /\ chunk[w] \in written[w] \intersect Datastores
            /\ Replicate => written[w] \intersect MirrorStores # {}

(* StallEnds, of WriteBuffer, is checked here again: a waiting append goes  *)
(* on although the stores fill up and fail.                                 *)
=============================================================================
