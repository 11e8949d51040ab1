------------------------- MODULE WriteBackMapProofs -------------------------
(***************************************************************************)
(* What HashTable and FSMeta guarantee whatever the keys and however many   *)
(* threads set and commit them (NeverAhead), and what FSMeta does because   *)
(* one thread alone uses it (Tracked).                                      *)
(***************************************************************************)
EXTENDS WriteBackMap, TLAPS

Deleting(t) == thread[t].pc \in {"unmirror", "undict"}

(* Nothing on its way to disk is newer than memory, and memory is no newer  *)
(* than the last assignment.                                                *)
MapOrder == \A k \in Keys :
    /\ pending[k] <= d[k] /\ disk[k] <= d[k] /\ d[k] <= sets
    /\ ~ Crashes => mirror[k] <= d[k]
    /\ ~ Replicated => mirror[k] = 0
HandOrder == \A t \in Threads, k \in Keys : thread[t].cp[k] <= d[k]
CopyInv == \A t \in Threads : thread[t].pc = "copy" => Replicated

(* A key that is being deleted, which nobody else can be setting then, has  *)
(* left the disk, and the mirror, before it leaves memory.                  *)
DeleteInv == \A t \in Threads : Deleting(t) =>
    /\ Deletes
    /\ thread[t].cp = Empty
    /\ \A k \in thread[t].keys : disk[k] = 0
    /\ thread[t].pc = "undict" =>
          \A k \in thread[t].keys : Crashes \/ mirror[k] = 0

OrderInv == MapOrder /\ HandOrder /\ CopyInv /\ DeleteInv

IInv == TypeOK /\ OrderInv

-----------------------------------------------------------------------------
(* Putting a copy into a map gives a map, and each of its values is one of  *)
(* theirs.                                                                  *)
LEMMA UpdatedMap ==
  ASSUME NEW m \in Map, NEW cp \in Map
  PROVE  /\ Updated(m, cp) \in Map
         /\ \A k \in Keys : Updated(m, cp)[k] = IF cp[k] # 0 THEN cp[k] ELSE m[k]
  BY DEF Updated, Map

(* Taking keys out of a map gives a map.                                    *)
LEMMA WithoutMap ==
  ASSUME NEW m \in Map, NEW keys
  PROVE  /\ Without(m, keys) \in Map
         /\ \A k \in Keys : Without(m, keys)[k] = IF k \in keys THEN 0 ELSE m[k]
  BY MapAssumption DEF Without, Map, Values

(* The empty map and a map with one entry are maps.                         *)
LEMMA SmallMaps ==
  /\ Empty \in Map
  /\ \A k \in Keys : Empty[k] = 0
  /\ \A k \in Keys, v \in Values : [Empty EXCEPT ![k] = v] \in Map
  BY MapAssumption DEF Empty, Map, Values

(* A thread that goes to a step has the key and the copy it is given.       *)
LEMMA AtType ==
  ASSUME TypeOK, NEW t \in Threads, NEW pc \in Steps, NEW keys \in SUBSET Keys,
         NEW cp \in Map, pc = "idle" => keys = {} /\ cp = Empty, At(t, pc, keys, cp)
  PROVE  /\ thread' \in [Threads -> [pc : Steps, keys : SUBSET Keys, cp : Map]]
         /\ \A u \in Threads : thread'[u].pc = "idle" => thread'[u] = Idle
         /\ thread'[t] = [pc |-> pc, keys |-> keys, cp |-> cp]
         /\ \A u \in Threads \ {t} : thread'[u] = thread[u]
  BY DEF At, TypeOK, Idle

(* Each step keeps the types.                                               *)
LEMMA TypeStep == TypeOK /\ [Next]_vars => TypeOK'
<1> SUFFICES ASSUME TypeOK, [Next]_vars PROVE TypeOK'
  OBVIOUS
<1>a. /\ d \in Map /\ pending \in Map /\ disk \in Map /\ mirror \in Map
      /\ sets \in 0..MaxSets
  BY DEF TypeOK
<1>b. "idle" \in Steps /\ "pend" \in Steps /\ "swap" \in Steps /\ "write" \in Steps
      /\ "copy" \in Steps /\ "unmirror" \in Steps /\ "undict" \in Steps
  BY DEF Steps
<1>1. ASSUME NEW t \in Threads, Step(t) PROVE TypeOK'
  <2>a. thread[t].cp \in Map /\ thread[t].keys \in SUBSET Keys
    BY DEF TypeOK
  <2>1. ASSUME NEW k \in Keys, SetDict(t, k) PROVE TypeOK'
    <3>1. sets + 1 \in Values /\ sets' \in 0..MaxSets
      BY <1>a, <2>1, MapAssumption DEF SetDict, Values
    <3>2. d' \in Map /\ [Empty EXCEPT ![k] = sets + 1] \in Map
      BY <1>a, <2>1, <3>1, SmallMaps DEF SetDict, Map
    <3>3. QED
      BY <1>a, <1>b, <2>1, <3>1, <3>2, AtType DEF SetDict, TypeOK
  <2>2. ASSUME NEW k \in Keys, DeleteDisk(t, k) PROVE TypeOK'
    <3>1. disk' \in Map /\ {k} \in SUBSET Keys
      BY <1>a, <2>2, WithoutMap DEF DeleteDisk
    <3>2. QED
      BY <1>a, <1>b, <2>2, <3>1, SmallMaps, AtType DEF DeleteDisk, TypeOK
  <2>3. CASE SetPending(t)
    BY <1>a, <1>b, <2>a, <2>3, SmallMaps, UpdatedMap, AtType DEF SetPending, TypeOK
  <2>4. CASE CommitCopy(t)
    BY <1>a, <1>b, <2>4, AtType DEF CommitCopy, TypeOK
  <2>5. CASE CommitSwap(t)
    BY <1>a, <1>b, <2>a, <2>5, SmallMaps, AtType DEF CommitSwap, TypeOK
  <2>6. CASE CommitWrite(t)
    BY <1>a, <1>b, <2>a, <2>6, SmallMaps, UpdatedMap, AtType DEF CommitWrite, TypeOK
  <2>7. CASE CommitMirror(t)
    BY <1>a, <1>b, <2>a, <2>7, SmallMaps, UpdatedMap, AtType DEF CommitMirror, TypeOK
  <2>8. CASE DeleteMirror(t)
    <3>1. mirror' \in Map
      BY <1>a, <2>8, WithoutMap DEF DeleteMirror
    <3>2. QED
      BY <1>a, <1>b, <2>a, <2>8, <3>1, SmallMaps, AtType DEF DeleteMirror, TypeOK
  <2>9. CASE DeleteDict(t)
    <3>1. pending' \in Map /\ d' \in Map
      BY <1>a, <2>9, WithoutMap DEF DeleteDict
    <3>2. QED
      BY <1>a, <1>b, <2>9, <3>1, SmallMaps, AtType DEF DeleteDict, TypeOK
  <2>10. QED
    BY <1>1, <2>1, <2>2, <2>3, <2>4, <2>5, <2>6, <2>7, <2>8, <2>9 DEF Step
<1>2. CASE Restart
  BY <1>a, <1>2, SmallMaps DEF Restart, TypeOK, Steps, Idle
<1>3. CASE UNCHANGED vars
  BY <1>3 DEF vars, TypeOK
<1>4. QED
  BY <1>1, <1>2, <1>3 DEF Next

-----------------------------------------------------------------------------
(* A step leaves the threads that do not take it where they were.           *)
LEMMA OthersStay ==
  ASSUME TypeOK, NEW t \in Threads, NEW pc, NEW keys, NEW cp, At(t, pc, keys, cp)
  PROVE  /\ thread'[t].pc = pc /\ thread'[t].keys = keys /\ thread'[t].cp = cp
         /\ \A u \in Threads \ {t} : thread'[u] = thread[u]
  BY DEF At, TypeOK

(* The values of the maps are numbers.                                      *)
LEMMA Numbers ==
  ASSUME TypeOK
  PROVE  /\ \A k \in Keys : d[k] \in Nat /\ pending[k] \in Nat /\ disk[k] \in Nat
                            /\ mirror[k] \in Nat
         /\ \A t \in Threads, k \in Keys : thread[t].cp[k] \in Nat
         /\ \A t \in Threads : thread[t].keys \subseteq Keys
         /\ sets \in Nat
<1>1. \A m \in Map, k \in Keys : m[k] \in Nat
  BY MapAssumption DEF Map, Values
<1>2. QED
  BY <1>1, MapAssumption DEF TypeOK

(* Each step keeps the order: an assignment is the newest value there is,   *)
(* and every other value comes from a place that was no newer than memory.  *)
LEMMA OrderStep == IInv /\ [Next]_vars => OrderInv'
<1> SUFFICES ASSUME IInv, [Next]_vars PROVE OrderInv'
  OBVIOUS
<1> TypeOK /\ MapOrder /\ HandOrder /\ CopyInv /\ DeleteInv
  BY DEF IInv, OrderInv
<1>a. \A k \in Keys : Empty[k] = 0
  BY SmallMaps
<1>1. ASSUME NEW t \in Threads, Step(t) PROVE OrderInv'
  <2>1. ASSUME NEW k \in Keys, SetDict(t, k) PROVE OrderInv'
    <3>1. sets' = sets + 1 /\ d'[k] = sets + 1 /\ \A j \in Keys \ {k} : d'[j] = d[j]
      BY <2>1 DEF SetDict, TypeOK, Map
    <3>2. \A j \in Keys : d[j] <= d'[j] /\ d'[j] <= sets' /\ d'[j] \in Nat
      BY <3>1, Numbers DEF MapOrder
    <3>3. thread'[t].pc = "pend" /\ \A u \in Threads \ {t} : thread'[u] = thread[u]
      BY <2>1, OthersStay DEF SetDict
    <3>4. thread'[t].cp = [Empty EXCEPT ![k] = sets + 1]
      BY <2>1, OthersStay DEF SetDict
    <3>5. \A j \in Keys : thread'[t].cp[j] = (IF j = k THEN sets + 1 ELSE 0)
      BY <1>a, <3>4 DEF Empty
    <3>6. \A u \in Threads : ~ Deleting(u)'
      BY <2>1, <3>3, MapAssumption DEF DeleteInv, Deleting, SetDict
    <3>7. UNCHANGED <<pending, disk, mirror>>
      BY <2>1 DEF SetDict
    <3>8. MapOrder'
      BY <3>1, <3>2, <3>3, <3>4, <3>5, <3>6, <3>7, Numbers DEF MapOrder, HandOrder, DeleteInv, Deleting
    <3>9. HandOrder'
      <4>1. \A j \in Keys : thread'[t].cp[j] <= d'[j]
        BY <3>1, <3>2, <3>5, Numbers
      <4>2. \A u \in Threads \ {t}, j \in Keys : thread'[u].cp[j] <= d'[j]
        <5> SUFFICES ASSUME NEW u \in Threads \ {t}, NEW j \in Keys
                     PROVE  thread'[u].cp[j] <= d'[j]
          OBVIOUS
        <5>1. thread'[u] = thread[u] /\ thread[u].cp[j] <= d[j]
          BY <3>3 DEF HandOrder
        <5>2. QED
          BY <3>2, <5>1, Numbers
      <4>3. QED
        BY <4>1, <4>2 DEF HandOrder
    <3>10. CopyInv'
      BY <3>1, <3>2, <3>3, <3>4, <3>5, <3>6, <3>7, Numbers DEF CopyInv
    <3>11. DeleteInv'
      BY <3>1, <3>2, <3>3, <3>4, <3>5, <3>6, <3>7, Numbers DEF DeleteInv, MapOrder, Deleting
    <3>12. QED
      BY <3>8, <3>9, <3>10, <3>11 DEF OrderInv
  <2>2. ASSUME NEW k \in Keys, DeleteDisk(t, k) PROVE OrderInv'
    <3>1. Threads = {t} /\ Deletes
      BY <2>2, MapAssumption DEF DeleteDisk
    <3>2. disk' = Without(disk, {k}) /\ UNCHANGED <<d, pending, mirror, sets>>
      BY <2>2 DEF DeleteDisk
    <3>3. \A j \in Keys : disk'[j] = IF j = k THEN 0 ELSE disk[j]
      BY <3>2, WithoutMap DEF TypeOK
    <3>4. /\ thread'[t].cp = Empty /\ thread'[t].keys = {k}
          /\ thread'[t].pc = IF Replicated THEN "unmirror" ELSE "undict"
      BY <2>2, OthersStay DEF DeleteDisk
    <3>5. MapOrder'
      <4>1. \A j \in Keys : disk'[j] <= d[j]
        BY <3>3, Numbers DEF MapOrder
      <4>2. QED
        BY <3>2, <4>1 DEF MapOrder
    <3>6. HandOrder'
      BY <1>a, <3>1, <3>2, <3>3, <3>4, Numbers DEF MapOrder, HandOrder
    <3>7. CopyInv'
      BY <1>a, <3>1, <3>2, <3>3, <3>4, Numbers DEF CopyInv
    <3>8. DeleteInv'
      BY <1>a, <3>1, <3>2, <3>3, <3>4, Numbers DEF DeleteInv, MapOrder, Deleting
    <3>9. QED
      BY <3>5, <3>6, <3>7, <3>8 DEF OrderInv
  <2>3. CASE SetPending(t)
    <3>1. \A k \in Keys : pending'[k] = pending[k] \/ pending'[k] = thread[t].cp[k]
      BY <2>3, UpdatedMap DEF SetPending, TypeOK
    <3>2. UNCHANGED <<d, disk, mirror, sets>>
      BY <2>3 DEF SetPending
    <3>3. /\ thread'[t].pc = "idle" /\ thread'[t].cp = Empty
          /\ \A u \in Threads \ {t} : thread'[u] = thread[u]
      BY <2>3, OthersStay DEF SetPending
    <3>4. MapOrder'
      BY <1>a, <3>1, <3>2, <3>3, Numbers DEF MapOrder, HandOrder, DeleteInv, Deleting
    <3>5. HandOrder'
      BY <1>a, <3>1, <3>2, <3>3, Numbers DEF MapOrder, HandOrder
    <3>6. CopyInv'
      BY <1>a, <3>1, <3>2, <3>3, Numbers DEF CopyInv
    <3>7. DeleteInv'
      BY <1>a, <3>1, <3>2, <3>3, Numbers DEF DeleteInv, MapOrder, Deleting
    <3>8. QED
      BY <3>4, <3>5, <3>6, <3>7 DEF OrderInv
  <2>4. CASE CommitCopy(t)
    <3>1. UNCHANGED <<d, pending, disk, mirror, sets>>
      BY <2>4 DEF CommitCopy
    <3>2. /\ thread'[t].pc = "swap" /\ thread'[t].cp = pending
          /\ \A u \in Threads \ {t} : thread'[u] = thread[u]
      BY <2>4, OthersStay DEF CommitCopy
    <3>3. MapOrder'
      BY <1>a, <3>1, <3>2, Numbers DEF MapOrder, HandOrder, DeleteInv, Deleting
    <3>4. HandOrder'
      BY <1>a, <3>1, <3>2, Numbers DEF MapOrder, HandOrder
    <3>5. CopyInv'
      BY <1>a, <3>1, <3>2, Numbers DEF CopyInv
    <3>6. DeleteInv'
      BY <1>a, <3>1, <3>2, Numbers DEF DeleteInv, MapOrder, Deleting
    <3>7. QED
      BY <3>3, <3>4, <3>5, <3>6 DEF OrderInv
  <2>5. CASE CommitSwap(t)
    <3>1. pending' = Empty /\ UNCHANGED <<d, disk, mirror, sets>>
      BY <2>5 DEF CommitSwap
    <3>2. /\ thread'[t].pc = "write" /\ thread'[t].cp = thread[t].cp
          /\ \A u \in Threads \ {t} : thread'[u] = thread[u]
      BY <2>5, OthersStay DEF CommitSwap
    <3>3. MapOrder'
      BY <1>a, <3>1, <3>2, Numbers DEF MapOrder, HandOrder, DeleteInv, Deleting
    <3>4. HandOrder'
      BY <1>a, <3>1, <3>2, Numbers DEF MapOrder, HandOrder
    <3>5. CopyInv'
      BY <1>a, <3>1, <3>2, Numbers DEF CopyInv
    <3>6. DeleteInv'
      BY <1>a, <3>1, <3>2, Numbers DEF DeleteInv, MapOrder, Deleting
    <3>7. QED
      BY <3>3, <3>4, <3>5, <3>6 DEF OrderInv
  <2>6. CASE CommitWrite(t)
    <3>1. \A k \in Keys : disk'[k] = disk[k] \/ disk'[k] = thread[t].cp[k]
      BY <2>6, UpdatedMap DEF CommitWrite, TypeOK
    <3>2. UNCHANGED <<d, pending, mirror, sets>>
      BY <2>6 DEF CommitWrite
    <3>3. /\ thread[t].pc = "write"
          /\ thread'[t].pc = "idle" \/ (thread'[t].pc = "copy" /\ Replicated)
          /\ thread'[t].cp \in {Empty, thread[t].cp}
          /\ \A u \in Threads \ {t} : thread'[u] = thread[u]
      <4>1. CASE Replicated
        BY <2>6, <4>1, OthersStay DEF CommitWrite
      <4>2. CASE ~ Replicated
        <5>1. thread[t].pc = "write" /\ At(t, "idle", {}, Empty)
          BY <2>6, <4>2 DEF CommitWrite
        <5>2. /\ thread'[t].pc = "idle" /\ thread'[t].cp = Empty
              /\ \A u \in Threads \ {t} : thread'[u] = thread[u]
          BY <5>1, OthersStay
        <5>3. QED
          BY <5>1, <5>2
      <4>3. QED
        BY <4>1, <4>2
    <3>4. \A u \in Threads : ~ Deleting(u)'
      BY <3>3, MapAssumption DEF DeleteInv, Deleting
    <3>5. MapOrder'
      BY <1>a, <3>1, <3>2, <3>3, <3>4, Numbers DEF MapOrder, HandOrder, DeleteInv, Deleting
    <3>6. HandOrder'
      BY <1>a, <3>1, <3>2, <3>3, <3>4, Numbers DEF MapOrder, HandOrder
    <3>7. CopyInv'
      BY <1>a, <3>1, <3>2, <3>3, <3>4, Numbers DEF CopyInv
    <3>8. DeleteInv'
      BY <1>a, <3>1, <3>2, <3>3, <3>4, Numbers DEF DeleteInv, MapOrder, Deleting
    <3>9. QED
      BY <3>5, <3>6, <3>7, <3>8 DEF OrderInv
  <2>7. CASE CommitMirror(t)
    <3>1. \A k \in Keys : mirror'[k] = mirror[k] \/ mirror'[k] = thread[t].cp[k]
      BY <2>7, UpdatedMap DEF CommitMirror, TypeOK
    <3>2. UNCHANGED <<d, pending, disk, sets>>
      BY <2>7 DEF CommitMirror
    <3>3. /\ thread[t].pc = "copy" /\ thread'[t].pc = "idle" /\ thread'[t].cp = Empty
          /\ \A u \in Threads \ {t} : thread'[u] = thread[u]
      BY <2>7, OthersStay DEF CommitMirror
    <3>4. Replicated
      BY <3>3 DEF CopyInv
    <3>5. \A u \in Threads : ~ Deleting(u)'
      BY <3>3, MapAssumption DEF DeleteInv, Deleting
    <3>6. MapOrder'
      BY <1>a, <3>1, <3>2, <3>3, <3>4, <3>5, Numbers DEF MapOrder, HandOrder, DeleteInv, Deleting
    <3>7. HandOrder'
      BY <1>a, <3>1, <3>2, <3>3, <3>4, <3>5, Numbers DEF MapOrder, HandOrder
    <3>8. CopyInv'
      BY <1>a, <3>1, <3>2, <3>3, <3>4, <3>5, Numbers DEF CopyInv
    <3>9. DeleteInv'
      BY <1>a, <3>1, <3>2, <3>3, <3>4, <3>5, Numbers DEF DeleteInv, MapOrder, Deleting
    <3>10. QED
      BY <3>6, <3>7, <3>8, <3>9 DEF OrderInv
  <2>8. CASE DeleteMirror(t)
    <3>1. \A k \in Keys : mirror'[k] = IF k \in thread[t].keys THEN 0 ELSE mirror[k]
      BY <2>8, WithoutMap DEF DeleteMirror, TypeOK
    <3>2. UNCHANGED <<d, pending, disk, sets>> /\ Deleting(t)
      BY <2>8 DEF DeleteMirror, Deleting
    <3>3. /\ thread'[t].pc = "undict" /\ thread'[t].cp = Empty
          /\ thread'[t].keys = thread[t].keys
      BY <2>8, OthersStay DEF DeleteMirror
    <3>4. Threads = {t} /\ Deletes
      BY <3>2, MapAssumption DEF DeleteInv
    <3>5. MapOrder'
      BY <1>a, <3>1, <3>2, <3>3, <3>4, Numbers DEF MapOrder, HandOrder, DeleteInv, Deleting
    <3>6. HandOrder'
      BY <1>a, <3>1, <3>2, <3>3, <3>4, Numbers DEF MapOrder, HandOrder
    <3>7. CopyInv'
      BY <1>a, <3>1, <3>2, <3>3, <3>4, Numbers DEF CopyInv
    <3>8. DeleteInv'
      BY <1>a, <3>1, <3>2, <3>3, <3>4, Numbers DEF DeleteInv, MapOrder, Deleting
    <3>9. QED
      BY <3>5, <3>6, <3>7, <3>8 DEF OrderInv
  <2>9. CASE DeleteDict(t)
    <3>1. \A k \in Keys : /\ pending'[k] = IF k \in thread[t].keys THEN 0 ELSE pending[k]
                          /\ d'[k] = IF k \in thread[t].keys THEN 0 ELSE d[k]
      BY <2>9, WithoutMap DEF DeleteDict, TypeOK
    <3>2. UNCHANGED <<disk, mirror, sets>> /\ Deleting(t) /\ thread[t].pc = "undict"
      BY <2>9 DEF DeleteDict, Deleting
    <3>3. thread'[t].pc = "idle" /\ thread'[t].cp = Empty
      BY <2>9, OthersStay DEF DeleteDict
    <3>4. Threads = {t}
      BY <3>2, MapAssumption DEF DeleteInv
    <3>5. MapOrder'
      BY <1>a, <3>1, <3>2, <3>3, <3>4, Numbers DEF MapOrder, HandOrder, DeleteInv, Deleting
    <3>6. HandOrder'
      BY <1>a, <3>1, <3>2, <3>3, <3>4, Numbers DEF MapOrder, HandOrder
    <3>7. CopyInv'
      BY <1>a, <3>1, <3>2, <3>3, <3>4, Numbers DEF CopyInv
    <3>8. DeleteInv'
      BY <1>a, <3>1, <3>2, <3>3, <3>4, Numbers DEF DeleteInv, MapOrder, Deleting
    <3>9. QED
      BY <3>5, <3>6, <3>7, <3>8 DEF OrderInv
  <2>10. QED
    BY <1>1, <2>1, <2>2, <2>3, <2>4, <2>5, <2>6, <2>7, <2>8, <2>9 DEF Step
<1>2. CASE Restart
  <2>1. d' = disk /\ pending' = Empty /\ UNCHANGED <<disk, mirror, sets>> /\ Crashes
    BY <1>2 DEF Restart
  <2>2. \A t \in Threads : thread'[t].pc = "idle" /\ thread'[t].cp = Empty
    BY <1>2 DEF Restart, Idle
  <2>3. MapOrder'
    BY <1>a, <2>1, Numbers DEF MapOrder
  <2>4. HandOrder' /\ CopyInv' /\ DeleteInv'
    BY <1>a, <2>1, <2>2, Numbers DEF HandOrder, CopyInv, DeleteInv, Deleting
  <2>5. QED
    BY <2>3, <2>4 DEF OrderInv
<1>3. CASE UNCHANGED vars
  BY <1>3 DEF vars, OrderInv, MapOrder, HandOrder, CopyInv, DeleteInv, Deleting
<1>4. QED
  BY <1>1, <1>2, <1>3 DEF Next

(* All of it holds at the start.                                            *)
LEMMA InitIInv == Init => IInv
<1> SUFFICES ASSUME Init PROVE IInv
  OBVIOUS
<1>1. TypeOK
  BY SmallMaps, MapAssumption DEF Init, TypeOK, Idle, Steps
<1>2. \A t \in Threads : thread[t].pc = "idle" /\ thread[t].cp = Empty
  BY DEF Init, Idle
<1>3. MapOrder
  <2>1. \A k \in Keys : d[k] = 0 /\ pending[k] = 0 /\ disk[k] = 0 /\ mirror[k] = 0
    BY SmallMaps DEF Init
  <2>2. sets = 0
    BY DEF Init
  <2>3. 0 <= 0
    OBVIOUS
  <2>4. QED
    BY <2>1, <2>2, <2>3, Zenon DEF MapOrder
<1>4. HandOrder /\ CopyInv /\ DeleteInv
  BY <1>2, SmallMaps DEF Init, HandOrder, CopyInv, DeleteInv, Deleting
<1>5. QED
  BY <1>1, <1>3, <1>4 DEF IInv, OrderInv

(* It holds in every state of every behaviour.                              *)
LEMMA Invariance == Spec => []IInv
<1>1. IInv /\ [Next]_vars => IInv'
  BY TypeStep, OrderStep DEF IInv
<1>2. QED
  BY <1>1, InitIInv, PTL DEF Spec

(* The maps, the copies and the threads' places keep their types, and a     *)
(* thread that is done with an operation holds nothing of it.               *)
THEOREM TypeCorrect == Spec => []TypeOK
<1>1. IInv => TypeOK
  BY DEF IInv
<1>2. QED
  BY <1>1, Invariance, PTL

(* However the threads interleave their assignments and commits, and        *)
(* wherever the process dies, neither the disk nor, while it does not die,  *)
(* the mirror has a newer value than memory.                                *)
THEOREM NeverAheadOfMemory == Spec => []NeverAhead
<1>1. IInv => NeverAhead
  BY DEF IInv, OrderInv, MapOrder, NeverAhead
<1>2. QED
  BY <1>1, Invariance, PTL

-----------------------------------------------------------------------------
(* The only thread of FSMeta, m.  What is pending or in its copy is what    *)
(* memory has, but for the key it is just setting; where disk and memory    *)
(* differ, one of the two has the key.                                      *)
Kept(m) == \A k \in Keys :
    pending[k] # 0 =>
        pending[k] = d[k] \/ (thread[m].pc = "pend" /\ k \in thread[m].keys)
Copied(m) ==
    /\ \A k \in Keys : thread[m].cp[k] # 0 => thread[m].cp[k] = d[k]
    /\ thread[m].pc = "swap" => thread[m].cp = pending
    /\ thread[m].pc = "copy" => \A k \in Keys : thread[m].cp[k] # 0 => disk[k] = d[k]
Covered(m) == \A k \in Keys :
    d[k] # disk[k] => pending[k] # 0 \/ thread[m].cp[k] # 0 \/ k \in thread[m].keys
HeldKeys(m) == \A k \in thread[m].keys :
    (thread[m].pc = "pend" /\ thread[m].cp[k] # 0) \/ Deleting(m)

TrackInv(m) == Kept(m) /\ Copied(m) /\ Covered(m) /\ HeldKeys(m)

(* Each step of m keeps this.                                               *)
LEMMA TrackStep ==
  ASSUME NEW m \in Threads, Threads = {m}, IInv, TrackInv(m), [Next]_vars
  PROVE  TrackInv(m)'
<1> TypeOK /\ DeleteInv /\ Kept(m) /\ Copied(m) /\ Covered(m) /\ HeldKeys(m)
  BY DEF IInv, OrderInv, TrackInv
<1>a. \A k \in Keys : Empty[k] = 0
  BY SmallMaps
<1>b. thread[m].pc = "idle" => thread[m].keys = {} /\ thread[m].cp = Empty
  BY DEF TypeOK, Idle
<1>c. thread[m].keys \subseteq Keys
  BY Numbers
<1>1. CASE Step(m)
  <2>1. ASSUME NEW k \in Keys, SetDict(m, k) PROVE TrackInv(m)'
    <3>1. thread[m].pc = "idle" /\ UNCHANGED <<pending, disk>>
      BY <2>1 DEF SetDict
    <3>2. sets + 1 # 0 /\ \A j \in Keys : d'[j] = IF j = k THEN sets + 1 ELSE d[j]
      BY <2>1, Numbers DEF SetDict, TypeOK, Map
    <3>3. /\ thread'[m].pc = "pend" /\ thread'[m].keys = {k}
          /\ thread'[m].cp = [Empty EXCEPT ![k] = sets + 1]
      BY <2>1, OthersStay DEF SetDict
    <3>4. \A j \in Keys : thread'[m].cp[j] = IF j = k THEN sets + 1 ELSE 0
      BY <1>a, <3>3 DEF Empty
    <3>5. Kept(m)'
      BY <1>a, <1>b, <1>c, <3>1, <3>2, <3>3, <3>4 DEF Kept, Copied, Covered, HeldKeys, Deleting, DeleteInv
    <3>6. Copied(m)'
      BY <1>a, <1>b, <1>c, <3>1, <3>2, <3>3, <3>4 DEF Kept, Copied, Covered, HeldKeys, Deleting, DeleteInv
    <3>7. Covered(m)'
      BY <1>a, <1>b, <1>c, <3>1, <3>2, <3>3, <3>4 DEF Kept, Copied, Covered, HeldKeys, Deleting, DeleteInv
    <3>8. HeldKeys(m)'
      BY <1>a, <1>b, <1>c, <3>1, <3>2, <3>3, <3>4 DEF Kept, Copied, Covered, HeldKeys, Deleting, DeleteInv
    <3>9. QED
      BY <3>5, <3>6, <3>7, <3>8 DEF TrackInv
  <2>2. ASSUME NEW k \in Keys, DeleteDisk(m, k) PROVE TrackInv(m)'
    <3>1. thread[m].pc = "idle" /\ UNCHANGED <<d, pending>>
      BY <2>2 DEF DeleteDisk
    <3>2. \A j \in Keys : disk'[j] = IF j = k THEN 0 ELSE disk[j]
      BY <2>2, WithoutMap DEF DeleteDisk, TypeOK
    <3>3. /\ thread'[m].pc \in {"unmirror", "undict"} /\ thread'[m].keys = {k}
          /\ thread'[m].cp = Empty
      BY <2>2, OthersStay DEF DeleteDisk
    <3>4. Kept(m)'
      BY <1>a, <1>b, <1>c, <3>1, <3>2, <3>3 DEF Kept, Copied, Covered, HeldKeys, Deleting, DeleteInv
    <3>5. Copied(m)'
      BY <1>a, <1>b, <1>c, <3>1, <3>2, <3>3 DEF Kept, Copied, Covered, HeldKeys, Deleting, DeleteInv
    <3>6. Covered(m)'
      BY <1>a, <1>b, <1>c, <3>1, <3>2, <3>3 DEF Kept, Copied, Covered, HeldKeys, Deleting, DeleteInv
    <3>7. HeldKeys(m)'
      BY <1>a, <1>b, <1>c, <3>1, <3>2, <3>3 DEF Kept, Copied, Covered, HeldKeys, Deleting, DeleteInv
    <3>8. QED
      BY <3>4, <3>5, <3>6, <3>7 DEF TrackInv
  <2>3. CASE SetPending(m)
    <3>1. thread[m].pc = "pend" /\ UNCHANGED <<d, disk>>
      BY <2>3 DEF SetPending
    <3>2. \A k \in Keys : pending'[k] = IF thread[m].cp[k] # 0 THEN thread[m].cp[k] ELSE pending[k]
      BY <2>3, UpdatedMap DEF SetPending, TypeOK
    <3>3. thread'[m].pc = "idle" /\ thread'[m].keys = {} /\ thread'[m].cp = Empty
      BY <2>3, OthersStay DEF SetPending
    <3>4. Kept(m)'
      BY <1>a, <1>b, <1>c, <3>1, <3>2, <3>3 DEF Kept, Copied, Covered, HeldKeys, Deleting, DeleteInv
    <3>5. Copied(m)'
      BY <1>a, <1>b, <1>c, <3>1, <3>2, <3>3 DEF Kept, Copied, Covered, HeldKeys, Deleting, DeleteInv
    <3>6. Covered(m)'
      BY <1>a, <1>b, <1>c, <3>1, <3>2, <3>3 DEF Kept, Copied, Covered, HeldKeys, Deleting, DeleteInv
    <3>7. HeldKeys(m)'
      BY <1>a, <1>b, <1>c, <3>1, <3>2, <3>3 DEF Kept, Copied, Covered, HeldKeys, Deleting, DeleteInv
    <3>8. QED
      BY <3>4, <3>5, <3>6, <3>7 DEF TrackInv
  <2>4. CASE CommitCopy(m)
    <3>1. thread[m].pc = "idle" /\ UNCHANGED <<d, disk, pending>>
      BY <2>4 DEF CommitCopy
    <3>2. thread'[m].pc = "swap" /\ thread'[m].keys = {} /\ thread'[m].cp = pending
      BY <2>4, OthersStay DEF CommitCopy
    <3>3. Kept(m)'
      BY <1>a, <1>b, <1>c, <3>1, <3>2 DEF Kept, Copied, Covered, HeldKeys, Deleting, DeleteInv
    <3>4. Copied(m)'
      BY <1>a, <1>b, <1>c, <3>1, <3>2 DEF Kept, Copied, Covered, HeldKeys, Deleting, DeleteInv
    <3>5. Covered(m)'
      BY <1>a, <1>b, <1>c, <3>1, <3>2 DEF Kept, Copied, Covered, HeldKeys, Deleting, DeleteInv
    <3>6. HeldKeys(m)'
      BY <1>a, <1>b, <1>c, <3>1, <3>2 DEF Kept, Copied, Covered, HeldKeys, Deleting, DeleteInv
    <3>7. QED
      BY <3>3, <3>4, <3>5, <3>6 DEF TrackInv
  <2>5. CASE CommitSwap(m)
    <3>1. thread[m].pc = "swap" /\ pending' = Empty /\ UNCHANGED <<d, disk>>
      BY <2>5 DEF CommitSwap
    <3>2. thread'[m].pc = "write" /\ thread'[m].keys = {} /\ thread'[m].cp = thread[m].cp
      BY <2>5, OthersStay DEF CommitSwap
    <3>3. Kept(m)'
      BY <1>a, <1>b, <1>c, <3>1, <3>2 DEF Kept, Copied, Covered, HeldKeys, Deleting, DeleteInv
    <3>4. Copied(m)'
      BY <1>a, <1>b, <1>c, <3>1, <3>2 DEF Kept, Copied, Covered, HeldKeys, Deleting, DeleteInv
    <3>5. Covered(m)'
      BY <1>a, <1>b, <1>c, <3>1, <3>2 DEF Kept, Copied, Covered, HeldKeys, Deleting, DeleteInv
    <3>6. HeldKeys(m)'
      BY <1>a, <1>b, <1>c, <3>1, <3>2 DEF Kept, Copied, Covered, HeldKeys, Deleting, DeleteInv
    <3>7. QED
      BY <3>3, <3>4, <3>5, <3>6 DEF TrackInv
  <2>6. CASE CommitWrite(m)
    <3>1. thread[m].pc = "write" /\ UNCHANGED <<d, pending>>
      BY <2>6 DEF CommitWrite
    <3>2. \A k \in Keys : disk'[k] = IF thread[m].cp[k] # 0 THEN thread[m].cp[k] ELSE disk[k]
      BY <2>6, UpdatedMap DEF CommitWrite, TypeOK
    <3>3. \/ thread'[m].pc = "copy" /\ thread'[m].cp = thread[m].cp
          \/ thread'[m].pc = "idle" /\ thread'[m].cp = Empty
      BY <2>6, OthersStay DEF CommitWrite
    <3>4. thread'[m].keys = {}
      BY <2>6, OthersStay DEF CommitWrite
    <3>5. Kept(m)'
      BY <1>a, <1>b, <1>c, <3>1, <3>2, <3>3, <3>4 DEF Kept, Copied, Covered, HeldKeys, Deleting, DeleteInv
    <3>6. Copied(m)'
      BY <1>a, <1>b, <1>c, <3>1, <3>2, <3>3, <3>4 DEF Kept, Copied, Covered, HeldKeys, Deleting, DeleteInv
    <3>7. Covered(m)'
      BY <1>a, <1>b, <1>c, <3>1, <3>2, <3>3, <3>4 DEF Kept, Copied, Covered, HeldKeys, Deleting, DeleteInv
    <3>8. HeldKeys(m)'
      BY <1>a, <1>b, <1>c, <3>1, <3>2, <3>3, <3>4 DEF Kept, Copied, Covered, HeldKeys, Deleting, DeleteInv
    <3>9. QED
      BY <3>5, <3>6, <3>7, <3>8 DEF TrackInv
  <2>7. CASE CommitMirror(m)
    <3>1. thread[m].pc = "copy" /\ UNCHANGED <<d, pending, disk>>
      BY <2>7 DEF CommitMirror
    <3>2. thread'[m].pc = "idle" /\ thread'[m].keys = {} /\ thread'[m].cp = Empty
      BY <2>7, OthersStay DEF CommitMirror
    <3>3. Kept(m)'
      BY <1>a, <1>b, <1>c, <3>1, <3>2 DEF Kept, Copied, Covered, HeldKeys, Deleting, DeleteInv
    <3>4. Copied(m)'
      BY <1>a, <1>b, <1>c, <3>1, <3>2 DEF Kept, Copied, Covered, HeldKeys, Deleting, DeleteInv
    <3>5. Covered(m)'
      BY <1>a, <1>b, <1>c, <3>1, <3>2 DEF Kept, Copied, Covered, HeldKeys, Deleting, DeleteInv
    <3>6. HeldKeys(m)'
      BY <1>a, <1>b, <1>c, <3>1, <3>2 DEF Kept, Copied, Covered, HeldKeys, Deleting, DeleteInv
    <3>7. QED
      BY <3>3, <3>4, <3>5, <3>6 DEF TrackInv
  <2>8. CASE DeleteMirror(m)
    <3>1. thread[m].pc = "unmirror" /\ UNCHANGED <<d, pending, disk>>
      BY <2>8 DEF DeleteMirror
    <3>2. /\ thread'[m].pc = "undict" /\ thread'[m].keys = thread[m].keys
          /\ thread'[m].cp = Empty
      BY <2>8, OthersStay DEF DeleteMirror
    <3>3. Kept(m)'
      BY <1>a, <1>b, <1>c, <3>1, <3>2 DEF Kept, Copied, Covered, HeldKeys, Deleting, DeleteInv
    <3>4. Copied(m)'
      BY <1>a, <1>b, <1>c, <3>1, <3>2 DEF Kept, Copied, Covered, HeldKeys, Deleting, DeleteInv
    <3>5. Covered(m)'
      BY <1>a, <1>b, <1>c, <3>1, <3>2 DEF Kept, Copied, Covered, HeldKeys, Deleting, DeleteInv
    <3>6. HeldKeys(m)'
      BY <1>a, <1>b, <1>c, <3>1, <3>2 DEF Kept, Copied, Covered, HeldKeys, Deleting, DeleteInv
    <3>7. QED
      BY <3>3, <3>4, <3>5, <3>6 DEF TrackInv
  <2>9. CASE DeleteDict(m)
    <3>1. thread[m].pc = "undict" /\ UNCHANGED disk
      BY <2>9 DEF DeleteDict
    <3>2. \A k \in Keys : /\ pending'[k] = IF k \in thread[m].keys THEN 0 ELSE pending[k]
                          /\ d'[k] = IF k \in thread[m].keys THEN 0 ELSE d[k]
      BY <2>9, WithoutMap DEF DeleteDict, TypeOK
    <3>3. thread'[m].pc = "idle" /\ thread'[m].keys = {} /\ thread'[m].cp = Empty
      BY <2>9, OthersStay DEF DeleteDict
    <3>4. Kept(m)'
      BY <1>a, <1>b, <1>c, <3>1, <3>2, <3>3 DEF Kept, Copied, Covered, HeldKeys, Deleting, DeleteInv
    <3>5. Copied(m)'
      BY <1>a, <1>b, <1>c, <3>1, <3>2, <3>3 DEF Kept, Copied, Covered, HeldKeys, Deleting, DeleteInv
    <3>6. Covered(m)'
      BY <1>a, <1>b, <1>c, <3>1, <3>2, <3>3 DEF Kept, Copied, Covered, HeldKeys, Deleting, DeleteInv
    <3>7. HeldKeys(m)'
      BY <1>a, <1>b, <1>c, <3>1, <3>2, <3>3 DEF Kept, Copied, Covered, HeldKeys, Deleting, DeleteInv
    <3>8. QED
      BY <3>4, <3>5, <3>6, <3>7 DEF TrackInv
  <2>10. QED
    BY <1>1, <2>1, <2>2, <2>3, <2>4, <2>5, <2>6, <2>7, <2>8, <2>9 DEF Step
<1>2. CASE Restart
  <2>1. d' = disk /\ disk' = disk /\ pending' = Empty
    BY <1>2 DEF Restart
  <2>2. thread'[m].pc = "idle" /\ thread'[m].keys = {} /\ thread'[m].cp = Empty
    BY <1>2 DEF Restart, Idle
  <2>3. QED
    BY <1>a, <2>1, <2>2 DEF TrackInv, Kept, Copied, Covered, HeldKeys
<1>3. CASE UNCHANGED vars
  BY <1>3 DEF vars, TrackInv, Kept, Copied, Covered, HeldKeys, Deleting
<1>4. QED
  BY <1>1, <1>2, <1>3 DEF Next

(* One thread, as for the inodes: whatever differs from the disk will be    *)
(* written by the next commit, and a deleted inode does not come back.      *)
THEOREM NothingForgotten ==
  ASSUME NEW m \in Threads, Threads = {m}
  PROVE  Spec => []Tracked
<1>1. Init => TrackInv(m)
  <2> SUFFICES ASSUME Init PROVE TrackInv(m)
    OBVIOUS
  <2>1. thread[m].pc = "idle" /\ thread[m].keys = {} /\ thread[m].cp = Empty
    BY DEF Init, Idle
  <2>2. \A k \in Keys : d[k] = 0 /\ disk[k] = 0 /\ pending[k] = 0 /\ Empty[k] = 0
    BY SmallMaps DEF Init
  <2>3. QED
    BY <2>1, <2>2 DEF TrackInv, Kept, Copied, Covered, HeldKeys
<1>2. IInv /\ TrackInv(m) /\ [Next]_vars => TrackInv(m)'
  BY TrackStep
<1>3. TrackInv(m) => Tracked
  BY DEF TrackInv, Covered, Tracked, InHand
<1>4. QED
  BY <1>1, <1>2, <1>3, Invariance, PTL DEF Spec

-----------------------------------------------------------------------------
(* The mirror of the only thread's map: where it differs from the disk, the *)
(* thread is about to write or delete there, or a crash kept it from it.    *)
MirrorInv(m) == Replicated =>
    \A k \in Keys \ torn : mirror[k] # disk[k] => Torn(m, k)

LEMMA MirrorStep ==
  ASSUME NEW m \in Threads, Threads = {m}, IInv, TrackInv(m), MirrorInv(m), [Next]_vars
  PROVE  MirrorInv(m)'
<1> SUFFICES ASSUME Replicated, NEW k \in Keys, k \notin torn', mirror'[k] # disk'[k]
             PROVE  Torn(m, k)'
  BY DEF MirrorInv
<1> TypeOK /\ DeleteInv /\ Copied(m)
  BY DEF IInv, OrderInv, TrackInv
<1>a. k \notin torn /\ mirror[k] # disk[k] => Torn(m, k)
  BY DEF MirrorInv
<1>1. CASE Step(m)
  <2>1. CASE \/ \E j \in Keys : SetDict(m, j)
             \/ SetPending(m) \/ CommitCopy(m) \/ CommitSwap(m) \/ DeleteDict(m)
    <3>1. UNCHANGED <<disk, mirror, torn>>
      BY <2>1 DEF SetDict, SetPending, CommitCopy, CommitSwap, DeleteDict
    <3>2. thread[m].pc \notin {"copy", "unmirror"}
      BY <2>1 DEF SetDict, SetPending, CommitCopy, CommitSwap, DeleteDict
    <3>3. QED
      BY <1>a, <3>1, <3>2 DEF Torn
  <2>2. ASSUME NEW j \in Keys, DeleteDisk(m, j) PROVE Torn(m, k)'
    <3>1. thread[m].pc = "idle" /\ UNCHANGED <<mirror, torn>>
      BY <2>2 DEF DeleteDisk
    <3>2. disk'[k] = IF k = j THEN 0 ELSE disk[k]
      BY <2>2, WithoutMap DEF DeleteDisk, TypeOK
    <3>3. thread'[m].pc = "unmirror" /\ thread'[m].keys = {j}
      BY <2>2, OthersStay DEF DeleteDisk
    <3>4. QED
      BY <1>a, <3>1, <3>2, <3>3 DEF Torn
  <2>3. CASE CommitWrite(m)
    <3>1. thread[m].pc = "write" /\ UNCHANGED <<mirror, torn>>
      BY <2>3 DEF CommitWrite
    <3>2. disk'[k] = IF thread[m].cp[k] # 0 THEN thread[m].cp[k] ELSE disk[k]
      BY <2>3, UpdatedMap DEF CommitWrite, TypeOK
    <3>3. thread'[m].pc = "copy" /\ thread'[m].cp = thread[m].cp
      BY <2>3, OthersStay DEF CommitWrite
    <3>4. QED
      BY <1>a, <3>1, <3>2, <3>3 DEF Torn
  <2>4. CASE CommitMirror(m)
    <3>1. thread[m].pc = "copy" /\ disk' = disk
          /\ torn' = torn \ {j \in Keys : thread[m].cp[j] # 0}
      BY <2>4 DEF CommitMirror
    <3>2. mirror'[k] = IF thread[m].cp[k] # 0 THEN thread[m].cp[k] ELSE mirror[k]
      BY <2>4, UpdatedMap DEF CommitMirror, TypeOK
    <3>3. thread[m].cp[k] # 0 => thread[m].cp[k] = disk[k]
      BY <3>1 DEF Copied
    <3>4. QED
      BY <1>a, <3>1, <3>2, <3>3 DEF Torn
  <2>5. CASE DeleteMirror(m)
    <3>1. thread[m].pc = "unmirror" /\ disk' = disk /\ torn' = torn \ thread[m].keys
      BY <2>5 DEF DeleteMirror
    <3>2. mirror'[k] = IF k \in thread[m].keys THEN 0 ELSE mirror[k]
      BY <2>5, WithoutMap, Numbers DEF DeleteMirror, TypeOK
    <3>3. k \in thread[m].keys => disk[k] = 0
      BY <3>1 DEF DeleteInv, Deleting
    <3>4. QED
      BY <1>a, <3>1, <3>2, <3>3 DEF Torn
  <2>6. QED
    BY <1>1, <2>1, <2>2, <2>3, <2>4, <2>5 DEF Step
<1>2. CASE Restart
  BY <1>a, <1>2 DEF Restart
<1>3. CASE UNCHANGED vars
  BY <1>a, <1>3 DEF vars, Torn
<1>4. QED
  BY <1>1, <1>2, <1>3 DEF Next

(* One thread, as for the inodes: between two calls the mirror has what the *)
(* disk has, but for the keys that a crash has caught between the two and   *)
(* that were not committed or deleted since.                                *)
THEOREM MirrorFollows ==
  ASSUME NEW m \in Threads, Threads = {m}
  PROVE  Spec => []MirrorIsCopy
<1>1. Init => TrackInv(m) /\ MirrorInv(m)
  <2> SUFFICES ASSUME Init PROVE TrackInv(m) /\ MirrorInv(m)
    OBVIOUS
  <2>1. thread[m].pc = "idle" /\ thread[m].keys = {} /\ thread[m].cp = Empty
    BY DEF Init, Idle
  <2>2. \A k \in Keys : d[k] = 0 /\ disk[k] = 0 /\ pending[k] = 0 /\ Empty[k] = 0
    BY SmallMaps DEF Init
  <2>3. TrackInv(m)
    BY <2>1, <2>2 DEF TrackInv, Kept, Copied, Covered, HeldKeys
  <2>4. MirrorInv(m)
    BY DEF Init, MirrorInv
  <2>5. QED
    BY <2>3, <2>4
<1>2. IInv /\ TrackInv(m) /\ MirrorInv(m) /\ [Next]_vars => TrackInv(m)' /\ MirrorInv(m)'
  BY TrackStep, MirrorStep
<1>3. MirrorInv(m) => MirrorIsCopy
  BY DEF MirrorInv, MirrorIsCopy, Quiet, Torn
<1>4. QED
  BY <1>1, <1>2, <1>3, Invariance, PTL DEF Spec
=============================================================================
