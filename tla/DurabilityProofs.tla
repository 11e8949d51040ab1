-------------------------- MODULE DurabilityProofs --------------------------
(***************************************************************************)
(* What Durability guarantees whatever the blocks, files, writers and       *)
(* datastores.  The core is Sound: of every block, the entries that may be  *)
(* about.  No step but Mount, when nothing is in memory, takes an entry out *)
(* of Sound, and an entry can only come from one that is in it.             *)
(***************************************************************************)
EXTENDS Durability, TLAPS

(* What became of a block that was queued. *)
Accounted(h) == OnDisk(h) \/ h \in queued \/ Committing(h) \/ h \in dropped

(* The entries of a block that do not lie. *)
Sound == [h \in Hashes |->
    {e \in Entries :
        /\ e.kind = "final" => h \in store[e.chunk]
        /\ e # None => Accounted(h)
        /\ e # None /\ h \in settled => h \in store[e.chunk]}]

MapsSound == \A h \in Hashes :
    /\ table[h] \in Sound[h]
    /\ pending[h] \in Sound[h]
    /\ tdisk[h] \in Sound[h]

CopiesSound == \A t \in Threads : \A h \in Hashes : cp[t][h] \in Sound[h]

HandsSound == \A t \in Threads : entry[t] \in Sound[hand[t]]

(* A thread that has put an entry into the table finds one there. *)
LoadsKnown == \A t \in Threads : step[t] \in {"pend", "load"} => InTable(hand[t])

SettledKnown == \A h \in Hashes :
    h \in settled => tdisk[h] # None /\ (Running => InTable(h))

(* Nothing is in memory while the file system is not mounted. *)
Clean == ~ Running =>
    /\ queued = {}
    /\ \A h \in Hashes : pending[h] = None
    /\ \A t \in Threads : entry[t] = None /\ step[t] = "idle"
    /\ \A t \in Threads : \A h \in Hashes : cp[t][h] = None

IInv == /\ TypeOK /\ MapsSound /\ CopiesSound /\ HandsSound
        /\ LoadsKnown /\ SettledKnown /\ Clean

-----------------------------------------------------------------------------
(* The entries are entries, the empty map is a map.                         *)
LEMMA EntryTypes ==
  /\ None \in Entries /\ Advance \in Entries
  /\ \A s \in Stores : Final(s) \in Entries /\ Final(s) # None
  /\ Advance # None
  /\ \A e \in Entries : e.chunk \in Stores
  /\ Empty \in Map
  /\ \A h \in Hashes : Empty[h] = None
  BY DurabilityAssumption DEF None, Advance, Final, Entries, Empty, Map

(* A thread that goes to a step leaves the others where they are.           *)
LEMMA GotoThreads ==
  ASSUME TypeOK, NEW t \in Threads, NEW s \in Steps, NEW h \in Hashes,
         NEW e \in Entries, Goto(t, s, h, e)
  PROVE  /\ step' \in [Threads -> Steps]
         /\ hand' \in [Threads -> Hashes]
         /\ entry' \in [Threads -> Entries]
         /\ cp' = cp
         /\ step'[t] = s /\ hand'[t] = h /\ entry'[t] = e
         /\ \A u \in Threads : u # t =>
              step'[u] = step[u] /\ hand'[u] = hand[u] /\ entry'[u] = entry[u]
  BY DEF Goto, TypeOK

(* No entry is sound only as long as nothing is written.                    *)
LEMMA NoneSound ==
  /\ \A h \in Hashes : None \in Sound[h]
  /\ \A h \in Hashes : None \in Sound'[h]
<1>1. None \in Entries /\ None.kind # "final"
  BY EntryTypes DEF None
<1> QED
  BY <1>1 DEF Sound

-----------------------------------------------------------------------------
(* No block that was accounted for is lost from view: the steps that take   *)
(* one from the queue give it to a writer, those that take one from a       *)
(* writer put it into a datastore or drop it.                               *)
LEMMA AccountedStays ==
  ASSUME TypeOK, Next, NEW h \in Hashes, Accounted(h)
  PROVE  Accounted(h)'
<1> USE DurabilityAssumption
<1>2. CASE \E g \in Hashes : DedupMiss(g) \/ Fetch(g)
  BY <1>2 DEF DedupMiss, Fetch, Goto, disks, memory, history, Accounted, OnDisk, Committing, TypeOK, Threads
<1>3. CASE SetDict(Main) \/ FileStep
  BY <1>3 DEF SetDict, FileStep, GoIdle, Goto, disks, memory, history, Accounted, OnDisk, Committing, TypeOK, Threads
<1>4. CASE CommitInodes \/ Flush \/ Unmount
  BY <1>4 DEF CommitInodes, Flush, CopyPending, Unmount, disks, memory, history, locals, Accounted, OnDisk, Committing, TypeOK, Threads
<1>5. CASE \E t \in {Main, Gc} : CommitSwap(t) \/ CommitWrite(t)
  BY <1>5 DEF CommitSwap, CommitWrite, disks, memory, history, Accounted, OnDisk, Committing, TypeOK, Threads
<1>6. CASE Collect
  BY <1>6 DEF Collect, CopyPending, disks, memory, history, Accounted, OnDisk, Committing, TypeOK, Threads
<1>7. ASSUME NEW w \in Workers, Work(w) PROVE Accounted(h)'
  <2>0. w \in Threads /\ \A u \in Workers : u \in Threads
    BY DEF Threads
  <2>1. CASE Take(w)
    BY <2>0, <2>1 DEF Take, Goto, disks, history, Accounted, OnDisk, Committing, TypeOK
  <2>2. CASE CommitData(w)
    BY <2>0, <2>2 DEF CommitData, Goto, memory, history, Accounted, OnDisk, Committing, TypeOK
  <2>3. CASE CommitFails(w)
    BY <2>0, <2>3 DEF CommitFails, GoIdle, Goto, memory, Accounted, OnDisk, Committing, TypeOK
  <2>4. CASE SetDict(w) \/ Published(w) \/ Load(w) \/ Written(w)
    BY <2>0, <2>4 DEF SetDict, Published, Load, Written, GoIdle, Goto, disks, memory, history, Accounted, OnDisk, Committing, TypeOK
  <2> QED
    BY <1>7, <2>1, <2>2, <2>3, <2>4 DEF Work
<1>8. CASE Exit \/ Crash
  BY <1>8 DEF Exit, Crash, Stop, disks, Accounted, OnDisk
<1>9. CASE Mount
  BY <1>9 DEF Mount, disks, locals, Accounted, OnDisk, Committing
<1> QED
  BY <1>2, <1>3, <1>4, <1>5, <1>6, <1>7, <1>8, <1>9 DEF Next

(* Blocks stay in datastores; settled blocks change with a mount only.      *)
LEMMA StoresGrow ==
  ASSUME TypeOK, Next
  PROVE  /\ \A s \in Stores : store[s] \subseteq store'[s]
         /\ settled' = settled \/ Mount
  BY DEF Next, DedupMiss, Fetch, SetDict, FileStep, CommitInodes, Flush, Unmount,
         CommitSwap, CommitWrite, Collect, Work, Take, CommitData, CommitFails,
         Published, Load, Written, Exit, Crash, Stop, Mount, disks, history, TypeOK

(* What was sound stays sound.                                              *)
LEMMA SoundStays ==
  ASSUME TypeOK, Next, settled' = settled, NEW h \in Hashes
  PROVE  Sound[h] \subseteq Sound'[h]
<1>1. \A e \in Entries : e.chunk \in Stores
  BY EntryTypes
<1>2. \A s \in Stores : store[s] \subseteq store'[s]
  BY StoresGrow
<1>3. Accounted(h) => Accounted(h)'
  BY AccountedStays
<1> QED
  BY <1>1, <1>2, <1>3 DEF Sound

-----------------------------------------------------------------------------
(* The initial state has no entries.                                        *)
LEMMA InitIInv == Init => IInv
<1> SUFFICES ASSUME Init PROVE IInv
  OBVIOUS
<1> USE EntryTypes, DurabilityAssumption
<1>0. AnyHash \in Hashes
  BY DEF AnyHash
<1>1. TypeOK
  BY <1>0 DEF Init, TypeOK, Map, Phases, Steps, Putting
<1>2. MapsSound /\ CopiesSound /\ HandsSound
  BY <1>0, NoneSound DEF Init, MapsSound, CopiesSound, HandsSound
<1>3. LoadsKnown /\ SettledKnown
  BY DEF Init, LoadsKnown, SettledKnown
<1>4. Clean
  BY DEF Init, Clean
<1> QED
  BY <1>1, <1>2, <1>3, <1>4 DEF IInv

(* The entry a thread goes on with is one when it is about to put it.       *)
LEMMA GotoTyped ==
  ASSUME TypeOK, NEW t \in Threads, NEW s \in Steps, NEW h \in Hashes,
         NEW e \in Entries, Goto(t, s, h, e),
         s \in {"set", "pend", "reset", "repend"} => e # None
  PROVE  \A u \in Threads : Putting(u)' => entry'[u] # None
<1>1. \A u \in Threads : Putting(u) => entry[u] # None
  BY DEF TypeOK
<1> QED
  BY <1>1, GotoThreads DEF Putting

(* Every step keeps the types.                                              *)
LEMMA TypeStep ==
  ASSUME TypeOK, LoadsKnown, Next
  PROVE  TypeOK'
<1> USE EntryTypes, DurabilityAssumption
<1>0. AnyHash \in Hashes /\ Main \in Threads /\ Gc \in Threads
  BY DEF AnyHash, Threads
<1>1. ASSUME NEW h \in Hashes, DedupMiss(h) PROVE TypeOK'
  <2>1. Goto(Main, "set", h, Advance) /\ "set" \in Steps
    BY <1>1 DEF DedupMiss, Steps
  <2>2. \A u \in Threads : Putting(u)' => entry'[u] # None
    BY <2>1, <1>0, GotoTyped
  <2> QED
    BY <1>0, <1>1, <2>1, <2>2, GotoThreads DEF DedupMiss, TypeOK, disks, history
<1>2. ASSUME NEW h \in Hashes, Fetch(h) PROVE TypeOK'
  <2>1. Goto(Main, "reset", h, table[h]) /\ "reset" \in Steps /\ table[h] \in Entries /\ table[h] # None
    BY <1>2 DEF Fetch, Steps, InTable, TypeOK, Map
  <2>2. \A u \in Threads : Putting(u)' => entry'[u] # None
    BY <2>1, <1>0, GotoTyped
  <2> QED
    BY <1>0, <1>2, <2>1, <2>2, GotoThreads DEF Fetch, TypeOK, disks, history, memory
<1>3. ASSUME NEW t \in Threads, SetDict(t) PROVE TypeOK'
  <2>1. PICK s \in {"pend", "repend"} : Goto(t, s, hand[t], entry[t])
    BY <1>3 DEF SetDict
  <2>2. hand[t] \in Hashes /\ entry[t] \in Entries /\ entry[t] # None /\ s \in Steps
    BY <1>3 DEF SetDict, TypeOK, Putting, Steps
  <2>3. \A u \in Threads : Putting(u)' => entry'[u] # None
    BY <2>1, <2>2, GotoTyped
  <2>4. table' \in Map
    BY <1>3, <2>2 DEF SetDict, TypeOK, Map
  <2> QED
    BY <1>3, <2>1, <2>2, <2>3, <2>4, GotoThreads DEF SetDict, TypeOK, disks, history
<1>4. CASE FileStep
  <2>1. GoIdle(Main) /\ hand[Main] \in Hashes /\ entry[Main] \in Entries
    BY <1>0, <1>4 DEF FileStep, TypeOK
  <2>2. Goto(Main, "idle", AnyHash, None) /\ "idle" \in Steps
    BY <2>1 DEF GoIdle, Steps
  <2>3. \A u \in Threads : Putting(u)' => entry'[u] # None
    BY <1>0, <2>2, GotoTyped
  <2>4. pending' \in Map
    BY <1>4, <2>1 DEF FileStep, MakePending, TypeOK, Map
  <2>5. file' \in [Files -> SUBSET Hashes]
    BY <1>4, <2>1 DEF FileStep, TypeOK
  <2> QED
    BY <1>0, <1>4, <2>2, <2>3, <2>4, <2>5, GotoThreads DEF FileStep, TypeOK, disks, history
<1>5. CASE CommitInodes \/ Unmount
  BY <1>5 DEF CommitInodes, Unmount, TypeOK, Phases, disks, history, memory, locals, Putting
<1>6. ASSUME NEW t \in Threads, CopyPending(t), phase' = phase,
             UNCHANGED memory, UNCHANGED <<tdisk, store>>, UNCHANGED history,
             fdisk' \in [Files -> SUBSET Hashes]
      PROVE  TypeOK'
  <2>1. step' \in [Threads -> Steps] /\ cp' \in [Threads -> Map]
    BY <1>6 DEF CopyPending, TypeOK, Steps
  <2>2. \A u \in Threads : Putting(u)' => Putting(u)
    BY <1>6 DEF CopyPending, TypeOK, Putting
  <2> QED
    BY <1>6, <2>1, <2>2 DEF CopyPending, TypeOK, memory, history
<1>7. CASE Flush
  BY <1>0, <1>6, <1>7 DEF Flush, TypeOK, memory
<1>8. CASE Collect
  BY <1>0, <1>6, <1>8 DEF Collect, TypeOK, memory, disks
<1>9. ASSUME NEW t \in Threads, CommitSwap(t) \/ CommitWrite(t) PROVE TypeOK'
  <2>1. step' \in [Threads -> Steps]
    BY <1>9 DEF CommitSwap, CommitWrite, TypeOK, Steps
  <2>2. \A u \in Threads : Putting(u)' => Putting(u)
    BY <1>9 DEF CommitSwap, CommitWrite, TypeOK, Putting
  <2>3. cp' \in [Threads -> Map]
    BY <1>9 DEF CommitSwap, CommitWrite, TypeOK
  <2>4. pending' \in Map
    BY <1>9 DEF CommitSwap, CommitWrite, TypeOK, memory
  <2>5. tdisk' \in Map
    <3>1. CASE CommitSwap(t)
      BY <3>1 DEF CommitSwap, TypeOK, disks
    <3>2. CASE CommitWrite(t)
      BY <3>2 DEF CommitWrite, TypeOK, Map
    <3> QED
      BY <1>9, <3>1, <3>2
  <2> QED
    BY <1>9, <2>1, <2>2, <2>3, <2>4, <2>5 DEF CommitSwap, CommitWrite, TypeOK, memory, disks, history
<1>10. ASSUME NEW w \in Workers, Work(w) PROVE TypeOK'
  <2>0. w \in Threads /\ hand[w] \in Hashes /\ entry[w] \in Entries
        /\ {"commit", "set", "idle", "load", "reset"} \subseteq Steps
    BY DEF Threads, TypeOK, Steps
  <2>1. CASE Take(w)
    <3>1. PICK h \in queued : queued' = queued \ {h} /\ Goto(w, "commit", h, None)
      BY <2>1 DEF Take
    <3>2. h \in Hashes /\ \A u \in Threads : Putting(u)' => entry'[u] # None
      BY <2>0, <3>1, GotoTyped DEF TypeOK
    <3> QED
      BY <2>0, <2>1, <3>1, <3>2, GotoThreads DEF Take, TypeOK, disks, history
  <2>2. CASE CommitData(w)
    <3>1. PICK s \in Stores :
            store' = [store EXCEPT ![s] = @ \union {hand[w]}] /\ Goto(w, "set", hand[w], Final(s))
      BY <2>2 DEF CommitData
    <3>2. \A u \in Threads : Putting(u)' => entry'[u] # None
      BY <2>0, <3>1, GotoTyped
    <3>3. store' \in [Stores -> SUBSET Hashes]
      BY <2>0, <3>1 DEF TypeOK
    <3> QED
      BY <2>0, <2>2, <3>1, <3>2, <3>3, GotoThreads DEF CommitData, TypeOK, memory, history
  <2>3. CASE CommitFails(w)
    <3>1. Goto(w, "idle", AnyHash, None)
      BY <2>3 DEF CommitFails, GoIdle
    <3>2. \A u \in Threads : Putting(u)' => entry'[u] # None
      BY <1>0, <2>0, <3>1, GotoTyped
    <3>3. store' \in [Stores -> SUBSET Hashes] /\ dropped' \subseteq Hashes
      BY <2>0, <2>3 DEF CommitFails, TypeOK
    <3> QED
      BY <1>0, <2>0, <2>3, <3>1, <3>2, <3>3, GotoThreads DEF CommitFails, TypeOK, memory
  <2>4. CASE SetDict(w)
    BY <1>3, <2>0, <2>4
  <2>5. CASE Published(w) \/ Written(w)
    <3>1. PICK s \in {"load", "idle"}, h \in Hashes : Goto(w, s, h, None)
      BY <1>0, <2>0, <2>5 DEF Published, Written, GoIdle
    <3>2. \A u \in Threads : Putting(u)' => entry'[u] # None
      BY <2>0, <3>1, GotoTyped
    <3>3. pending' \in Map
      BY <2>0, <2>5 DEF Published, Written, MakePending, TypeOK, Map
    <3> QED
      BY <2>0, <2>5, <3>1, <3>2, <3>3, GotoThreads DEF Published, Written, TypeOK, disks, history
  <2>6. CASE Load(w)
    <3>1. Goto(w, "reset", hand[w], table[hand[w]]) /\ table[hand[w]] \in Entries
      BY <2>0, <2>6 DEF Load, TypeOK, Map
    <3>2. table[hand[w]] # None
      BY <2>0, <2>6 DEF Load, LoadsKnown, InTable
    <3>3. \A u \in Threads : Putting(u)' => entry'[u] # None
      BY <2>0, <3>1, <3>2, GotoTyped
    <3> QED
      BY <2>0, <2>6, <3>1, <3>3, GotoThreads DEF Load, TypeOK, memory, disks, history
  <2> QED
    BY <1>10, <2>1, <2>2, <2>3, <2>4, <2>5, <2>6 DEF Work
<1>11. CASE Exit \/ Crash
  <2>1. PICK p \in Phases : Stop(p)
    BY <1>11 DEF Exit, Crash, Phases
  <2>2. {h \in Hashes : Committing(h)} \subseteq Hashes
    OBVIOUS
  <2> QED
    BY <1>0, <2>1, <2>2 DEF Stop, TypeOK, disks, Map, Steps, Putting
<1>12. CASE Mount
  BY <1>12 DEF Mount, TypeOK, Phases, disks, locals, Putting
<1> QED
  BY <1>0, <1>1, <1>2, <1>3, <1>4, <1>5, <1>7, <1>8, <1>9, <1>10, <1>11, <1>12 DEF Next

-----------------------------------------------------------------------------
(* While the file system runs no entry leaves the table or the disk.        *)
LEMMA EntriesKept ==
  ASSUME TypeOK, Next, NEW h \in Hashes
  PROVE  /\ tdisk[h] # None => tdisk'[h] # None
         /\ Running' /\ ~ Mount => Running /\ (InTable(h) => InTable(h)')
<1> USE DurabilityAssumption
<1>1. CASE \E g \in Hashes : DedupMiss(g) \/ Fetch(g)
  BY <1>1 DEF DedupMiss, Fetch, disks, memory, InTable, Running
<1>2. ASSUME NEW t \in Threads, SetDict(t)
      PROVE  tdisk' = tdisk /\ phase' = phase /\ (InTable(h) => InTable(h)')
  <2>1. hand[t] \in Hashes /\ entry[t] # None
    BY <1>2 DEF SetDict, TypeOK, Putting
  <2> QED
    BY <1>2, <2>1 DEF SetDict, disks, InTable, TypeOK, Map
<1>3. CASE FileStep \/ CommitInodes \/ Flush \/ Unmount \/ Collect
  BY <1>3 DEF FileStep, CommitInodes, Flush, Unmount, Collect, disks, memory, InTable, Running
<1>4. CASE \E t \in {Main, Gc} : CommitSwap(t) \/ CommitWrite(t)
  <2>1. PICK t \in {Main, Gc} : CommitSwap(t) \/ CommitWrite(t)
    BY <1>4
  <2>2. table' = table /\ phase' = phase
    BY <2>1 DEF CommitSwap, CommitWrite, memory
  <2>3. tdisk[h] # None => tdisk'[h] # None
    BY <2>1 DEF CommitSwap, CommitWrite, disks
  <2> QED
    BY <2>2, <2>3 DEF InTable, Running
<1>5. ASSUME NEW w \in Workers, Work(w), ~ SetDict(w)
      PROVE  tdisk' = tdisk /\ phase' = phase /\ table' = table
  BY <1>5 DEF Work, Take, CommitData, CommitFails, Published, Load, Written, disks, memory
<1>6. CASE Exit \/ Crash
  BY <1>6 DEF Exit, Crash, Stop, disks, Running
<1>7. CASE Mount
  BY <1>7 DEF Mount, disks
<1>8. Main \in Threads /\ \A w \in Workers : w \in Threads /\ (SetDict(w) => Work(w))
  BY DEF Threads, Work
<1> QED
  BY <1>1, <1>2, <1>3, <1>4, <1>5, <1>6, <1>7, <1>8 DEF Next, InTable, Running

LEMMA SettledStep ==
  ASSUME TypeOK, SettledKnown, Next
  PROVE  SettledKnown'
<1> SUFFICES ASSUME NEW h \in Hashes, h \in settled'
             PROVE  tdisk'[h] # None /\ (Running' => InTable(h)')
  BY DEF SettledKnown
<1>1. CASE Mount
  BY <1>1 DEF Mount, SettledKnown, Durable, Has, disks, InTable
<1>2. CASE ~ Mount
  <2>1. h \in settled
    BY <1>2, StoresGrow
  <2>2. tdisk[h] # None /\ (Running => InTable(h))
    BY <2>1 DEF SettledKnown
  <2> QED
    BY <1>2, <2>2, EntriesKept
<1> QED
  BY <1>1, <1>2

(* A thread goes to "pend" after it set the entry, and from there to "load".*)
LEMMA LoadsStep ==
  ASSUME TypeOK, LoadsKnown, Clean, Next
  PROVE  LoadsKnown'
<1> USE DurabilityAssumption
<1> SUFFICES ASSUME NEW t \in Threads, step'[t] \in {"pend", "load"}
             PROVE  table'[hand'[t]] # None
  BY DEF LoadsKnown, InTable
<1>0. step[t] \in {"pend", "load"} => table[hand[t]] # None
  BY DEF LoadsKnown, InTable
<1>1. CASE \E g \in Hashes : DedupMiss(g) \/ Fetch(g)
  BY <1>0, <1>1 DEF DedupMiss, Fetch, Goto, memory, TypeOK
<1>2. ASSUME NEW u \in Threads, SetDict(u) PROVE table'[hand'[t]] # None
  <2>1. entry[u] # None /\ hand[u] \in Hashes /\ hand[t] \in Hashes /\ hand' = hand
    BY <1>2 DEF SetDict, Goto, TypeOK, Putting
  <2>2. \A h \in Hashes : table'[h] = IF h = hand[u] THEN entry[u] ELSE table[h]
    BY <1>2 DEF SetDict, TypeOK, Map
  <2>3. t # u => step'[t] = step[t]
    BY <1>2 DEF SetDict, Goto, TypeOK
  <2> QED
    BY <1>0, <2>1, <2>2, <2>3
<1>3. CASE FileStep
  BY <1>0, <1>3 DEF FileStep, GoIdle, Goto, TypeOK
<1>4. CASE CommitInodes \/ Flush \/ Unmount \/ Collect
  BY <1>0, <1>4 DEF CommitInodes, Flush, Unmount, Collect, CopyPending, memory, locals, TypeOK
<1>5. CASE \E u \in {Main, Gc} : CommitSwap(u) \/ CommitWrite(u)
  BY <1>0, <1>5 DEF CommitSwap, CommitWrite, memory, TypeOK
<1>6. ASSUME NEW w \in Workers, Work(w), ~ SetDict(w) PROVE table'[hand'[t]] # None
  <2>1. CASE Take(w) \/ CommitData(w) \/ CommitFails(w)
    BY <1>0, <2>1 DEF Take, CommitData, CommitFails, GoIdle, Goto, memory, TypeOK
  <2>2. CASE Published(w) \/ Load(w) \/ Written(w)
    BY <1>0, <2>2 DEF Published, Load, Written, GoIdle, Goto, memory, TypeOK
  <2> QED
    BY <1>6, <2>1, <2>2 DEF Work
<1>7. CASE Exit \/ Crash
  BY <1>7 DEF Exit, Crash, Stop
<1>8. ASSUME Mount PROVE FALSE
  BY <1>8 DEF Mount, Clean, locals
<1>9. Main \in Threads /\ \A w \in Workers : w \in Threads
  BY DEF Threads
<1> QED
  BY <1>1, <1>2, <1>3, <1>4, <1>5, <1>6, <1>7, <1>8, <1>9 DEF Next, Work

-----------------------------------------------------------------------------
(* A thread that goes to a step with a sound entry leaves sound ones.       *)
LEMMA GotoSound ==
  ASSUME TypeOK, HandsSound, \A h \in Hashes : Sound[h] \subseteq Sound'[h],
         NEW t \in Threads, NEW s \in Steps, NEW h \in Hashes,
         NEW e \in Entries, Goto(t, s, h, e), e \in Sound'[h]
  PROVE  HandsSound'
<1>1. \A u \in Threads : entry[u] \in Sound[hand[u]] /\ hand[u] \in Hashes
  BY DEF HandsSound, TypeOK
<1>2. \A u \in Threads : entry'[u] \in Sound'[hand'[u]]
  BY <1>1, GotoThreads
<1> QED
  BY <1>2 DEF HandsSound

(* The two ways to a new entry: dedup makes one in advance of a block that  *)
(* it queues, a writer a final one of a block that it has put.              *)
LEMMA AdvanceSound ==
  ASSUME TypeOK, SettledKnown, NEW h \in Hashes, DedupMiss(h)
  PROVE  Advance \in Sound'[h]
<1>1. h \notin settled'
  BY DEF DedupMiss, history, SettledKnown, Running
<1>2. Accounted(h)'
  BY DEF DedupMiss, Accounted
<1>3. Advance \in Entries /\ Advance.kind # "final"
  BY EntryTypes DEF Advance
<1> QED
  BY <1>1, <1>2, <1>3 DEF Sound

LEMMA FinalSound ==
  ASSUME TypeOK, NEW h \in Hashes, NEW s \in Stores,
         store' = [store EXCEPT ![s] = @ \union {h}]
  PROVE  Final(s) \in Sound'[h]
<1>1. h \in store'[s]
  BY DEF TypeOK
<1>2. Accounted(h)'
  BY <1>1 DEF Accounted, OnDisk
<1>3. Final(s) \in Entries /\ Final(s).chunk = s
  BY EntryTypes DEF Final
<1> QED
  BY <1>1, <1>2, <1>3 DEF Sound

-----------------------------------------------------------------------------
(* What a thread carries to the table, to pending and to the disk, and what *)
(* it takes from there, stays sound.                                        *)
LEMMA HandsStep ==
  ASSUME TypeOK, MapsSound, HandsSound, LoadsKnown, SettledKnown, Next,
         \A h \in Hashes : Sound[h] \subseteq Sound'[h]
  PROVE  HandsSound'
<1> USE DurabilityAssumption, NoneSound
<1>0. AnyHash \in Hashes /\ Main \in Threads /\ Gc \in Threads
      /\ \A w \in Workers : w \in Threads
  BY DEF AnyHash, Threads
<1>1. None \in Entries /\ Steps # {} /\ {"set", "pend", "repend", "reset", "idle", "commit", "load"} \subseteq Steps
  BY EntryTypes DEF Steps
<1>2. \A t \in Threads :
        entry[t] \in Sound[hand[t]] /\ entry[t] \in Entries /\ hand[t] \in Hashes
  BY DEF HandsSound, TypeOK
<1>3. \A h \in Hashes : table[h] \in Sound[h] /\ table[h] \in Entries
  BY DEF MapsSound, TypeOK, Map
<1>4. ASSUME UNCHANGED <<hand, entry>> PROVE HandsSound'
  BY <1>2, <1>4 DEF HandsSound
<1>5. ASSUME NEW t \in Threads, NEW s \in Steps, NEW h \in Hashes, Goto(t, s, h, None)
      PROVE  HandsSound'
  BY <1>1, <1>5, GotoSound
<1>6. ASSUME NEW h \in Hashes, DedupMiss(h) PROVE HandsSound'
  <2>1. Goto(Main, "set", h, Advance) /\ Advance \in Sound'[h] /\ Advance \in Entries
    BY <1>6, AdvanceSound, EntryTypes DEF DedupMiss
  <2> QED
    BY <1>0, <1>1, <2>1, GotoSound
<1>7. ASSUME NEW h \in Hashes, Fetch(h) PROVE HandsSound'
  <2>1. Goto(Main, "reset", h, table[h])
    BY <1>7 DEF Fetch
  <2> QED
    BY <1>0, <1>1, <1>3, <2>1, GotoSound
<1>8. ASSUME NEW t \in Threads, SetDict(t) PROVE HandsSound'
  <2>1. PICK s \in {"pend", "repend"} : Goto(t, s, hand[t], entry[t])
    BY <1>8 DEF SetDict
  <2> QED
    BY <1>1, <1>2, <2>1, GotoSound
<1>9. CASE FileStep
  BY <1>0, <1>1, <1>5, <1>9 DEF FileStep, GoIdle
<1>10. CASE CommitInodes \/ Flush \/ Unmount \/ Collect
  BY <1>4, <1>10 DEF CommitInodes, Flush, Unmount, Collect, CopyPending, locals
<1>11. CASE \E t \in {Main, Gc} : CommitSwap(t) \/ CommitWrite(t)
  BY <1>4, <1>11 DEF CommitSwap, CommitWrite
<1>12. ASSUME NEW w \in Workers, Work(w) PROVE HandsSound'
  <2>1. CASE Take(w)
    BY <1>0, <1>1, <1>5, <2>1 DEF Take, TypeOK
  <2>2. CASE CommitData(w)
    <3>1. PICK s \in Stores :
            store' = [store EXCEPT ![s] = @ \union {hand[w]}] /\ Goto(w, "set", hand[w], Final(s))
      BY <2>2 DEF CommitData
    <3>2. Final(s) \in Sound'[hand[w]] /\ Final(s) \in Entries
      BY <1>0, <1>2, <3>1, FinalSound, EntryTypes
    <3> QED
      BY <1>0, <1>1, <1>2, <3>1, <3>2, GotoSound
  <2>3. CASE CommitFails(w) \/ Published(w) \/ Written(w)
    BY <1>0, <1>1, <1>2, <1>5, <2>3 DEF CommitFails, Published, Written, GoIdle
  <2>4. CASE SetDict(w)
    BY <1>0, <1>8, <2>4
  <2>5. CASE Load(w)
    <3>1. Goto(w, "reset", hand[w], table[hand[w]])
      BY <2>5 DEF Load
    <3> QED
      BY <1>0, <1>1, <1>2, <1>3, <3>1, GotoSound
  <2> QED
    BY <1>12, <2>1, <2>2, <2>3, <2>4, <2>5 DEF Work
<1>13. CASE Exit \/ Crash
  BY <1>0, <1>13 DEF Exit, Crash, Stop, HandsSound
<1>14. CASE Mount
  BY <1>4, <1>14 DEF Mount, locals
<1> QED
  BY <1>0, <1>6, <1>7, <1>8, <1>9, <1>10, <1>11, <1>12, <1>13, <1>14 DEF Next

LEMMA MapsStep ==
  ASSUME TypeOK, MapsSound, CopiesSound, HandsSound, Next, ~ Mount,
         \A h \in Hashes : Sound[h] \subseteq Sound'[h]
  PROVE  MapsSound'
<1> USE DurabilityAssumption
<1> SUFFICES ASSUME NEW h \in Hashes
             PROVE  table'[h] \in Sound'[h] /\ pending'[h] \in Sound'[h] /\ tdisk'[h] \in Sound'[h]
  BY DEF MapsSound
<1>0. Main \in Threads /\ Gc \in Threads /\ \A w \in Workers : w \in Threads
  BY DEF Threads
<1>1. table[h] \in Sound'[h] /\ pending[h] \in Sound'[h] /\ tdisk[h] \in Sound'[h]
      /\ None \in Sound'[h] /\ \A t \in Threads : cp[t][h] \in Sound'[h]
  BY NoneSound DEF MapsSound, CopiesSound
<1>2. \A t \in Threads :
        hand[t] \in Hashes /\ (hand[t] = h => entry[t] \in Sound'[h])
  BY DEF HandsSound, TypeOK
<1>3. Empty[h] = None
  BY EntryTypes
<1>4. ASSUME NEW t \in Threads, MakePending(t) PROVE pending'[h] \in Sound'[h]
  BY <1>1, <1>2, <1>4 DEF MakePending, TypeOK, Map
<1>5. ASSUME NEW t \in Threads, SetDict(t)
      PROVE  table'[h] \in Sound'[h] /\ UNCHANGED <<pending, tdisk>>
  BY <1>1, <1>2, <1>5 DEF SetDict, disks, TypeOK, Map
<1>6. CASE \E g \in Hashes : DedupMiss(g) \/ Fetch(g)
  BY <1>1, <1>6 DEF DedupMiss, Fetch, disks, memory
<1>7. CASE FileStep
  BY <1>0, <1>1, <1>4, <1>7 DEF FileStep, disks
<1>8. CASE CommitInodes \/ Flush \/ Unmount \/ Collect
  BY <1>1, <1>8 DEF CommitInodes, Flush, Unmount, Collect, memory, disks
<1>9. ASSUME NEW t \in Threads, CommitSwap(t)
      PROVE  pending'[h] = None /\ UNCHANGED <<table, tdisk>>
  BY <1>3, <1>9 DEF CommitSwap, disks
<1>10. ASSUME NEW t \in Threads, CommitWrite(t)
       PROVE  tdisk'[h] \in {cp[t][h], tdisk[h]} /\ UNCHANGED <<table, pending>>
  BY <1>10 DEF CommitWrite, memory
<1>11. ASSUME NEW w \in Workers, Work(w), ~ SetDict(w)
       PROVE  UNCHANGED <<table, tdisk>> /\ (pending' = pending \/ MakePending(w))
  BY <1>11 DEF Work, Take, CommitData, CommitFails, Published, Load, Written, disks, memory
<1>12. CASE Exit \/ Crash
  BY <1>1, <1>3, <1>12 DEF Exit, Crash, Stop, disks
<1>13. ASSUME NEW w \in Workers, Work(w)
       PROVE  table'[h] \in Sound'[h] /\ pending'[h] \in Sound'[h] /\ tdisk'[h] \in Sound'[h]
  BY <1>0, <1>1, <1>4, <1>5, <1>11, <1>13
<1> QED
  BY <1>0, <1>1, <1>5, <1>6, <1>7, <1>8, <1>9, <1>10, <1>12, <1>13 DEF Next

LEMMA CopiesStep ==
  ASSUME TypeOK, MapsSound, CopiesSound, Next, ~ Mount,
         \A h \in Hashes : Sound[h] \subseteq Sound'[h]
  PROVE  CopiesSound'
<1> USE DurabilityAssumption
<1> SUFFICES ASSUME NEW t \in Threads, NEW h \in Hashes
             PROVE  cp'[t][h] \in Sound'[h]
  BY DEF CopiesSound
<1>0. Main \in Threads /\ Gc \in Threads
  BY DEF Threads
<1>1. cp[t][h] \in Sound'[h] /\ pending[h] \in Sound'[h] /\ Empty[h] \in Sound'[h]
  BY NoneSound, EntryTypes DEF MapsSound, CopiesSound
<1>2. ASSUME NEW u \in Threads, CopyPending(u) \/ CommitSwap(u) \/ CommitWrite(u)
      PROVE  cp'[t] \in {cp[t], pending, Empty}
  BY <1>2 DEF CopyPending, CommitSwap, CommitWrite, TypeOK
<1>3. cp' = cp \/ cp'[t] \in {cp[t], pending, Empty}
  <2>1. CASE \/ \E g \in Hashes : DedupMiss(g) \/ Fetch(g)
             \/ SetDict(Main) \/ FileStep \/ CommitInodes \/ Unmount
    BY <2>1 DEF DedupMiss, Fetch, SetDict, FileStep, CommitInodes, Unmount, GoIdle, Goto, locals
  <2>2. CASE Flush \/ Collect \/ \E u \in {Main, Gc} : CommitSwap(u) \/ CommitWrite(u)
    BY <1>0, <1>2, <2>2 DEF Flush, Collect
  <2>3. CASE \E w \in Workers : Work(w)
    BY <2>3 DEF Work, Take, CommitData, CommitFails, SetDict, Published, Load, Written, GoIdle, Goto
  <2>4. CASE Exit \/ Crash
    BY <2>4 DEF Exit, Crash, Stop
  <2> QED
    BY <2>1, <2>2, <2>3, <2>4 DEF Next
<1> QED
  BY <1>1, <1>3

(* Memory is empty when the process has ended and until the next mount.     *)
LEMMA CleanStep ==
  ASSUME TypeOK, Clean, Next
  PROVE  Clean'
<1> SUFFICES ASSUME ~ Running' PROVE Clean'
  BY DEF Clean
<1>1. CASE Exit \/ Crash
  BY <1>1, EntryTypes DEF Exit, Crash, Stop, Clean
<1>2. CASE ~ (Exit \/ Crash)
  <2>1. phase' = phase \/ Running'
    BY <1>2 DEF Next, DedupMiss, Fetch, SetDict, FileStep, CommitInodes, Flush, Unmount,
           CommitSwap, CommitWrite, Collect, Work, Take, CommitData, CommitFails,
           Published, Load, Written, Mount, Running
  <2>2. ~ Running
    BY <2>1 DEF Running
  <2>3. queued = {} /\ phase # "up" /\ phase # "unmounting"
        /\ \A t \in Workers \union {Main, Gc} : step[t] = "idle"
    BY <2>2 DEF Clean, Running, Threads
  <2>4. Mount
    BY <1>2, <2>3 DEF Next, DedupMiss, Fetch, SetDict, FileStep, CommitInodes, Flush, Unmount,
           CommitSwap, CommitWrite, Collect, Work, Take, CommitData, CommitFails,
           Published, Load, Written
  <2> QED
    BY <2>4 DEF Mount, Running
<1> QED
  BY <1>1, <1>2

-----------------------------------------------------------------------------
(* A mount reads back what is on disk and finds it settled where a          *)
(* datastore has the block.                                                 *)
LEMMA MountSound ==
  ASSUME IInv, Mount
  PROVE  MapsSound' /\ CopiesSound' /\ HandsSound'
<1>0. ~ Running /\ TypeOK /\ MapsSound /\ Clean
  BY DEF Mount, IInv
<1>1. ASSUME NEW h \in Hashes PROVE tdisk[h] \in Sound'[h]
  <2>1. tdisk[h] \in Sound[h]
    BY <1>0 DEF MapsSound
  <2>2. Accounted(h) => Accounted(h)'
    BY <1>0, AccountedStays DEF Next
  <2>3. store' = store
    BY DEF Mount, disks
  <2>4. h \in settled' /\ tdisk[h] # None => h \in store[tdisk[h].chunk]
    BY <2>1 DEF Mount, Durable, Has, Sound
  <2> QED
    BY <2>1, <2>2, <2>3, <2>4 DEF Sound
<1>2. MapsSound'
  BY <1>0, <1>1, NoneSound DEF Mount, disks, MapsSound, Clean
<1>3. CopiesSound' /\ HandsSound'
  BY <1>0, NoneSound DEF Mount, locals, CopiesSound, HandsSound, Clean, TypeOK
<1> QED
  BY <1>2, <1>3

LEMMA IInvStep == IInv /\ [Next]_vars => IInv'
<1> SUFFICES ASSUME IInv, [Next]_vars PROVE IInv'
  OBVIOUS
<1>1. CASE Next
  <2>1. TypeOK' /\ LoadsKnown' /\ SettledKnown' /\ Clean'
    BY <1>1, TypeStep, LoadsStep, SettledStep, CleanStep DEF IInv
  <2>2. CASE Mount
    BY <2>1, <2>2, MountSound DEF IInv
  <2>3. CASE ~ Mount
    <3>1. \A h \in Hashes : Sound[h] \subseteq Sound'[h]
      BY <1>1, <2>3, StoresGrow, SoundStays DEF IInv
    <3> QED
      BY <1>1, <2>1, <2>3, <3>1, MapsStep, CopiesStep, HandsStep DEF IInv
  <2> QED
    BY <2>2, <2>3
<1>2. CASE UNCHANGED vars
  <2>1. Sound' = Sound
    BY <1>2 DEF vars, Sound, Accounted, OnDisk, Committing
  <2>2. TypeOK' /\ LoadsKnown' /\ SettledKnown' /\ Clean'
    BY <1>2 DEF IInv, vars, TypeOK, Putting, LoadsKnown, InTable, SettledKnown, Running, Clean
  <2>3. MapsSound' /\ CopiesSound' /\ HandsSound'
    BY <1>2, <2>1 DEF IInv, vars, MapsSound, CopiesSound, HandsSound
  <2> QED
    BY <2>2, <2>3 DEF IInv
<1> QED
  BY <1>1, <1>2

LEMMA Invariance == Spec => []IInv
  BY InitIInv, IInvStep, PTL DEF Spec

-----------------------------------------------------------------------------
(* The types hold whatever the blocks, files, writers and datastores: in    *)
(* particular a thread never puts an entry that update_index did not find.  *)
THEOREM TypeCorrect == Spec => []TypeOK
<1>1. IInv => TypeOK
  BY DEF IInv
<1> QED
  BY <1>1, Invariance, PTL

(* No final entry, in memory or on disk, names a datastore without the      *)
(* block, however writers, flush and collector commit and whenever the      *)
(* process is killed.                                                       *)
THEOREM FinalEntriesHold == Spec => []FinalEntryHasBlock
<1>1. IInv => FinalEntryHasBlock
  BY DEF IInv, MapsSound, Sound, FinalEntryHasBlock
<1> QED
  BY <1>1, Invariance, PTL

(* A block with an entry is in a datastore or still to be written, unless   *)
(* its write failed or was cut off by the end of the process.               *)
THEOREM KnownBlocksExist == Spec => []KnownBlockExists
<1>1. IInv => KnownBlockExists
  BY DEF IInv, MapsSound, Sound, Accounted, KnownBlockExists
<1> QED
  BY <1>1, Invariance, PTL

(* What one mount found whole every later one finds whole, and every life   *)
(* in between can read it.                                                  *)
THEOREM SettledBlocksStay == Spec => []SettledStays
<1>1. IInv => SettledStays
  <2>1. SUFFICES ASSUME IInv, NEW h \in settled
                 PROVE  Durable(h) /\ (Running => Has(table[h], h))
    BY DEF SettledStays
  <2>2. h \in Hashes
    BY <2>1 DEF IInv, TypeOK
  <2>3. tdisk[h] # None /\ (Running => table[h] # None)
    BY <2>1, <2>2 DEF IInv, SettledKnown, InTable
  <2>4. tdisk[h] \in Sound[h] /\ table[h] \in Sound[h]
    BY <2>1, <2>2 DEF IInv, MapsSound
  <2> QED
    BY <2>1, <2>2, <2>3, <2>4 DEF Durable, Has, Sound
<1> QED
  BY <1>1, Invariance, PTL
=============================================================================
