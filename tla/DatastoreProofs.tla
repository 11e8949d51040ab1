-------------------------- MODULE DatastoreProofs --------------------------
(***************************************************************************)
(* What the choice of a datastore guarantees whatever the stores, their     *)
(* limits, the writers and the sizes they leave for each other, and that    *)
(* the composition is still the write buffer it was built from.             *)
(***************************************************************************)
EXTENDS Datastore, WriteBufferProofs, FiniteSetTheorems

(* A size that was measured, in a writer's hands or left for all, is one a  *)
(* store that never shrinks could still have.                               *)
Measures ==
    /\ \A s \in Stores : position[s] <= bytes[s] + Slack
    /\ \A w \in Workers :
        step[w] = "measured" => pos[w] <= bytes[store[w]] + Slack

(* The stores that a search has left behind are full, and in contiguous     *)
(* mode it is at the first of those it has not.                             *)
Choosing(w) == step[w] \in {"measured", "compare", "put"}
Searching(w) == Choosing(w) \/ step[w] \in {"pick", "nospace"}
LeftBehind == \A w \in Workers : Searching(w) =>
    \A s \in List(replica[w]) : s \notin l[w] => MayBeFull(s)
NothingLeft == \A w \in Workers : step[w] = "nospace" => l[w] = {}
AtFirst == \A w \in Workers : Choosing(w) =>
    /\ store[w] \in l[w]
    /\ ~ WriteSpread => \A t \in l[w] : store[w] <= t
Search == LeftBehind /\ NothingLeft /\ AtFirst

(* Where the block of a writer is. *)
Stored(w) == chunk[w] \in written[w] \intersect Datastores
Placed == \A w \in Workers :
    /\ step[w] = "put" /\ ~ replica[w] => chunk[w] = store[w]
    /\ replica[w] => Replicate /\ Stored(w)
    /\ step[w] = "done" =>
        Stored(w) /\ (Replicate => written[w] \intersect MirrorStores # {})

(* How far a full store can still grow.  A size measured before it was full *)
(* is used up when it is left in next_write_position, and lets in its writer*)
(* and those who hold no such size (any more): with m of these, the blocks  *)
(* so far and the writers just let in are below the limit and 1 + ... + m.  *)
Triangle(m) == (m * (m + 1)) \div 2
HoldingOld(s) == {w \in Workers :
    step[w] = "measured" /\ store[w] = s /\ pos[w] < Limit[s]}
Entering(s) == {w \in Workers :
    store[w] = s /\ (step[w] = "put" \/ (step[w] = "compare" /\ HasRoom(s)))}
LetIn(s) ==
    bytes[s] >= Limit[s] =>
        bytes[s] + Cardinality(Entering(s))
            < Limit[s] + Triangle(Cardinality(Workers \ HoldingOld(s)))
Excess == \A s \in Stores : LetIn(s)

DSInv == DSTypeOK /\ Measures /\ Search /\ FillsInOrder /\ Placed /\ Excess

-----------------------------------------------------------------------------
(* The stores are the datastores and the mirrors. *)
LEMMA StoresSplit ==
  /\ Stores \subseteq Nat /\ 0 \in Datastores
  /\ Datastores \subseteq Stores /\ MirrorStores \subseteq Stores
  /\ \A r \in BOOLEAN : List(r) \subseteq Stores
  /\ Datastores \intersect MirrorStores = {}
  /\ NoChunk \in Nat
  /\ Limit \in [Stores -> Nat] /\ Slack \in Nat
  BY DatastoreAssumption DEF Stores, Datastores, MirrorStores, List, NoChunk

(* Every step of the composition is a step of the write buffer, or leaves   *)
(* it alone.                                                                *)
LEMMA StepMaps == [DSNext]_allVars => [Next]_vars
<1> SUFFICES ASSUME [DSNext]_allVars PROVE [Next]_vars
  OBVIOUS
<1>1. CASE Serve
  BY <1>1 DEF Serve, Next
<1>2. ASSUME NEW w \in Workers, Write(w) PROVE [Next]_vars
  <2>1. CASE FindNothing(w)
    BY <2>1 DEF FindNothing, Next, Work
  <2>2. CASE TakeBlock(w)
    BY <2>2 DEF TakeBlock, Next, Work
  <2>3. CASE GiveUp(w) \/ Finish(w)
    BY <2>3 DEF GiveUp, Finish, Next, Work
  <2>4. CASE Measure(w) \/ SetPosition(w) \/ Accept(w) \/ Reject(w) \/ Put(w)
    BY <2>4 DEF Measure, SetPosition, Accept, Reject, Put, Goto
  <2>5. QED
    BY <1>2, <2>1, <2>2, <2>3, <2>4 DEF Write
<1>3. CASE UNCHANGED allVars
  BY <1>3 DEF allVars, vars
<1>4. QED
  BY <1>1, <1>2, <1>3 DEF DSNext

(* The composition of the buffer with the stores is an implementation of    *)
(* the buffer: what was shown of WriteBuffer's steps holds here.            *)
THEOREM ImplementsWriteBuffer == DSSafetySpec => Init /\ [][Next]_vars
<1>1. DSInit => Init
  BY DEF DSInit
<1>2. QED
  BY <1>1, StepMaps, PTL DEF DSSafetySpec

(* The write buffer stays within write_buffer_size also when the writers    *)
(* are held up by full, failing or replicated stores.                       *)
THEOREM BoundedWithStores == DSSafetySpec => []Bounded
<1>1. IInv => Bounded
  BY DEF IInv
<1>2. QED
  BY ImplementsWriteBuffer, InitIInv, StepIInv, <1>1, PTL

-----------------------------------------------------------------------------
(* The triangular numbers. *)
LEMMA TwiceTriangle ==
  ASSUME NEW m \in Nat
  PROVE  Triangle(m) \in Nat /\ 2 * Triangle(m) = m * (m + 1)
<1>1. PICK k \in Nat : m = 2 * k \/ m = 2 * k + 1
  <2>1. m \div 2 \in Nat /\ (m = 2 * (m \div 2) \/ m = 2 * (m \div 2) + 1)
    OBVIOUS
  <2>2. QED
    BY <2>1
<1>2. PICK j \in Nat : m * (m + 1) = 2 * j
  <2>1. CASE m = 2 * k
    <3>1. m * (m + 1) = 2 * (k * (m + 1)) /\ k * (m + 1) \in Nat
      BY <2>1
    <3>2. QED
      BY <3>1
  <2>2. CASE m = 2 * k + 1
    <3>1. m * (m + 1) = 2 * (m * (k + 1)) /\ m * (k + 1) \in Nat
      BY <2>2
    <3>2. QED
      BY <3>1
  <2>3. QED
    BY <1>1, <2>1, <2>2
<1>3. (2 * j) \div 2 = j
  OBVIOUS
<1>4. QED
  BY <1>2, <1>3 DEF Triangle

LEMMA TriangleNext ==
  ASSUME NEW m \in Nat
  PROVE  Triangle(m + 1) = Triangle(m) + m + 1
<1>1. 2 * Triangle(m) = m * (m + 1) /\ Triangle(m) \in Nat
  BY TwiceTriangle
<1>2. 2 * Triangle(m + 1) = (m + 1) * ((m + 1) + 1) /\ Triangle(m + 1) \in Nat
  BY TwiceTriangle
<1>3. (m + 1) * ((m + 1) + 1) = m * (m + 1) + 2 * (m + 1)
  OBVIOUS
<1>4. QED
  BY <1>1, <1>2, <1>3

LEMMA TriangleGrows ==
  ASSUME NEW m \in Nat, NEW n \in Nat, m <= n
  PROVE  Triangle(m) <= Triangle(n) /\ Triangle(n) \in Nat
<1>1. 2 * Triangle(m) = m * (m + 1) /\ Triangle(m) \in Nat
  BY TwiceTriangle
<1>2. 2 * Triangle(n) = n * (n + 1) /\ Triangle(n) \in Nat
  BY TwiceTriangle
<1>3. m * (m + 1) <= n * (n + 1)
  <2>1. PICK k \in Nat : n = m + k
    <3>1. n - m \in Nat /\ n = m + (n - m)
      OBVIOUS
    <3>2. QED
      BY <3>1
  <2>2. n * (n + 1) = m * (m + 1) + (k * (2 * m + k + 1))
    BY <2>1
  <2>3. k * (2 * m + k + 1) \in Nat /\ m * (m + 1) \in Nat
    OBVIOUS
  <2>4. QED
    BY <2>2, <2>3
<1>4. QED
  BY <1>1, <1>2, <1>3

LEMMA TriangleBeyond ==
  ASSUME NEW m \in Nat \ {0}
  PROVE  m <= Triangle(m) /\ Triangle(m) \in Nat
<1>1. m - 1 \in Nat /\ (m - 1) + 1 = m
  OBVIOUS
<1>2. Triangle((m - 1) + 1) = Triangle(m - 1) + (m - 1) + 1
  BY <1>1, TriangleNext
<1>3. Triangle(m - 1) \in Nat
  BY <1>1, TwiceTriangle
<1>4. QED
  BY <1>1, <1>2, <1>3

(* Sets of writers are finite. *)
LEMMA Counted ==
  ASSUME NEW A, NEW B, A \subseteq B, B \subseteq Workers
  PROVE  /\ IsFiniteSet(A) /\ IsFiniteSet(B)
         /\ Cardinality(A) \in Nat /\ Cardinality(B) \in Nat
         /\ Cardinality(A) <= Cardinality(B)
<1>1. IsFiniteSet(Workers)
  BY DatastoreAssumption
<1>2. IsFiniteSet(B)
  BY <1>1, FS_Subset
<1>3. IsFiniteSet(A) /\ Cardinality(A) <= Cardinality(B)
  BY <1>2, FS_Subset
<1>4. QED
  BY <1>2, <1>3, FS_CardinalityType

-----------------------------------------------------------------------------
(* The invariant holds in the beginning. *)
LEMMA InitDSInv == DSInit => DSInv
<1> SUFFICES ASSUME DSInit PROVE DSInv
  OBVIOUS
<1>1. TypeOK
  BY InitIInv DEF DSInit, IInv
<1>2. DSTypeOK
  BY <1>1, StoresSplit DEF DSInit, Init, DSTypeOK, List, Steps
<1>3. Measures
  BY StoresSplit DEF DSInit, Measures
<1>4. Search
  BY DEF DSInit, Search, LeftBehind, NothingLeft, AtFirst, Searching, Choosing
<1>5. FillsInOrder
  BY StoresSplit DEF DSInit, FillsInOrder
<1>6. Placed
  BY DEF DSInit, Placed
<1>7. Excess
  <2> SUFFICES ASSUME NEW s \in Stores, bytes[s] >= Limit[s] PROVE
        bytes[s] + Cardinality(Entering(s))
            < Limit[s] + Triangle(Cardinality(Workers \ HoldingOld(s)))
    BY DEF Excess, LetIn
  <2>1. bytes[s] = 0 /\ Limit[s] = 0
    BY StoresSplit DEF DSInit
  <2>2. Entering(s) = {} /\ Workers \ HoldingOld(s) = Workers
    BY DEF DSInit, Entering, HoldingOld
  <2>3. IsFiniteSet(Workers) /\ Workers # {}
    BY DatastoreAssumption
  <2>4. Cardinality(Workers) \in Nat \ {0} /\ Cardinality({}) = 0
    BY <2>3, FS_EmptySet, FS_CardinalityType
  <2>5. Cardinality(Workers) <= Triangle(Cardinality(Workers))
        /\ Triangle(Cardinality(Workers)) \in Nat
    BY <2>4, TriangleBeyond
  <2>6. QED
    BY <2>1, <2>2, <2>4, <2>5
<1>8. QED
  BY <1>2, <1>3, <1>4, <1>5, <1>6, <1>7 DEF DSInv

-----------------------------------------------------------------------------
(* Each step keeps the types; those of the buffer by its own proof. *)
LEMMA TypeStep == Bounded /\ DSTypeOK /\ [DSNext]_allVars => DSTypeOK'
<1> SUFFICES ASSUME Bounded, DSTypeOK, [DSNext]_allVars PROVE DSTypeOK'
  OBVIOUS
<1>0. TypeOK'
  BY StepMaps, StepIInv DEF IInv, DSTypeOK
<1> USE StoresSplit, <1>0 DEF DSTypeOK, Steps, TypeOK, WorkerSteps
<1>1. CASE Serve
  BY <1>1 DEF Serve, Produce, AppendRoom, AppendFull, StallOver, Enqueue, dsVars
<1>2. ASSUME NEW w \in Workers, FindNothing(w) PROVE DSTypeOK'
  BY <1>2 DEF FindNothing, PopEmpty, PollAgain, dsVars
<1>3. ASSUME NEW w \in Workers, TakeBlock(w) PROVE DSTypeOK'
  <2>1. \A v \in Workers :
          /\ step'[v] = IF v = w THEN "pick" ELSE step[v]
          /\ worker'[v] = IF v = w THEN "busy" ELSE worker[v]
          /\ l'[v] = IF v = w THEN Datastores ELSE l[v]
    BY <1>3 DEF TakeBlock, PopLeft
  <2>2. /\ replica[w] = FALSE
        /\ UNCHANGED <<bytes, position, replica, store, pos, chunk, written>>
    BY <1>3 DEF TakeBlock, PopLeft
  <2>3. step' \in [Workers -> Steps] /\ l' \in [Workers -> SUBSET Stores]
    BY <1>3 DEF TakeBlock
  <2>4. \A v \in Workers :
          /\ step'[v] = "none" <=> worker'[v] # "busy"
          /\ l'[v] \subseteq List(replica'[v])
          /\ step'[v] = "none" => ~ replica'[v]
    BY <2>1, <2>2 DEF List
  <2>5. QED
    BY <2>2, <2>3, <2>4
<1>4. ASSUME NEW w \in Workers, Measure(w) PROVE DSTypeOK'
  <2>1. PICK s \in Candidates(l[w]), extra \in 0..Slack :
          /\ store' = [store EXCEPT ![w] = s]
          /\ pos' = [pos EXCEPT ![w] = bytes[s] + extra]
    BY <1>4 DEF Measure
  <2>2. s \in Stores /\ bytes[s] + extra \in Nat
    BY <2>1 DEF Candidates
  <2>3. QED
    BY <1>4, <2>1, <2>2 DEF Measure, Goto, vars
<1>5. ASSUME NEW w \in Workers, SetPosition(w) PROVE DSTypeOK'
  BY <1>5 DEF SetPosition, Goto, vars
<1>6. ASSUME NEW w \in Workers, Accept(w) PROVE DSTypeOK'
  BY <1>6 DEF Accept, Goto, vars
<1>7. ASSUME NEW w \in Workers, Reject(w) PROVE DSTypeOK'
  BY <1>7 DEF Reject, Goto, vars
<1>8. ASSUME NEW w \in Workers, Put(w) PROVE DSTypeOK'
  <2>1. /\ bytes' \in [Stores -> Nat] /\ step' \in [Workers -> Steps]
        /\ replica' \in [Workers -> BOOLEAN] /\ l' \in [Workers -> SUBSET Stores]
        /\ written' \in [Workers -> SUBSET Stores]
        /\ UNCHANGED <<position, store, pos, chunk, worker>>
    <3>0. /\ bytes' = [bytes EXCEPT ![store[w]] = bytes[store[w]] + 1]
          /\ written' = [written EXCEPT ![w] = written[w] \union {store[w]}]
      BY <1>8 DEF Put
    <3>1. bytes' \in [Stores -> Nat] /\ written' \in [Workers -> SUBSET Stores]
      <4>1. bytes[store[w]] + 1 \in Nat
        <5>1. store[w] \in Stores
          OBVIOUS
        <5>2. bytes[store[w]] \in Nat
          BY <5>1
        <5>3. QED
          BY ONLY <5>2
      <4>2. written[w] \union {store[w]} \in SUBSET Stores
        OBVIOUS
      <4>3. QED
        BY ONLY <3>0, <4>1, <4>2, DSTypeOK DEF DSTypeOK
    <3>2. step' \in [Workers -> Steps]
      BY <1>8 DEF Put, Goto
    <3>3. replica' \in [Workers -> BOOLEAN] /\ l' \in [Workers -> SUBSET Stores]
      BY <1>8 DEF Put
    <3>4. UNCHANGED <<position, store, pos, chunk, worker>>
      BY <1>8 DEF Put, Goto, vars
    <3>5. QED
      BY <3>1, <3>2, <3>3, <3>4
  <2>2. step[w] = "put" /\ step'[w] # "none" /\ l'[w] \subseteq List(replica'[w])
    BY <1>8 DEF Put, Goto, List
  <2>3. \A v \in Workers : v # w =>
          step'[v] = step[v] /\ l'[v] = l[v] /\ replica'[v] = replica[v]
    BY <1>8 DEF Put, Goto
  <2>4. \A v \in Workers :
          /\ step'[v] = "none" <=> worker'[v] # "busy"
          /\ l'[v] \subseteq List(replica'[v])
          /\ step'[v] = "none" => ~ replica'[v]
    BY <2>1, <2>2, <2>3
  <2>5. QED
    BY <2>1, <2>4
<1>9. ASSUME NEW w \in Workers, GiveUp(w) \/ Finish(w) PROVE DSTypeOK'
  <2>1. /\ step' \in [Workers -> Steps] /\ replica' \in [Workers -> BOOLEAN]
        /\ l' \in [Workers -> SUBSET Stores] /\ store' \in [Workers -> Stores]
        /\ pos' \in [Workers -> Nat] /\ chunk' \in [Workers -> Nat]
        /\ written' \in [Workers -> SUBSET Stores]
        /\ UNCHANGED <<bytes, position>>
    <3>1. Return(w)
      BY <1>9 DEF GiveUp, Finish
    <3>2. step' \in [Workers -> Steps] /\ replica' \in [Workers -> BOOLEAN]
      BY <3>1 DEF Return
    <3>3. l' \in [Workers -> SUBSET Stores] /\ written' \in [Workers -> SUBSET Stores]
      BY <3>1 DEF Return
    <3>4. store' \in [Workers -> Stores]
      BY <3>1 DEF Return
    <3>5. pos' \in [Workers -> Nat] /\ chunk' \in [Workers -> Nat]
      BY <3>1 DEF Return
    <3>6. QED
      BY <3>1, <3>2, <3>3, <3>4, <3>5 DEF Return
  <2>2. step'[w] = "none" /\ worker'[w] = "poll" /\ l'[w] = {} /\ ~ replica'[w]
    BY <1>9 DEF GiveUp, Finish, Return, PollAgain
  <2>3. \A v \in Workers : v # w =>
          /\ step'[v] = step[v] /\ l'[v] = l[v] /\ replica'[v] = replica[v]
          /\ worker'[v] = worker[v]
    BY <1>9 DEF GiveUp, Finish, Return, PollAgain
  <2>4. \A v \in Workers :
          /\ step'[v] = "none" <=> worker'[v] # "busy"
          /\ l'[v] \subseteq List(replica'[v])
          /\ step'[v] = "none" => ~ replica'[v]
    BY <2>2, <2>3
  <2>5. QED
    BY <2>1, <2>4
<1>10. CASE UNCHANGED allVars
  BY <1>10 DEF allVars
<1>11. QED
  BY <1>1, <1>2, <1>3, <1>4, <1>5, <1>6, <1>7, <1>8, <1>9, <1>10 DEF DSNext, Write

-----------------------------------------------------------------------------
(* No step makes a store smaller, so a size that was measured stays below.  *)
LEMMA StoresGrow ==
  ASSUME DSTypeOK, [DSNext]_allVars
  PROVE  \A s \in Stores : bytes'[s] \in Nat /\ bytes[s] <= bytes'[s]
<1> USE StoresSplit DEF DSTypeOK
<1>1. ASSUME NEW w \in Workers, Put(w)
      PROVE  \A s \in Stores : bytes'[s] \in Nat /\ bytes[s] <= bytes'[s]
  <2>1. store[w] \in Stores /\ bytes' = [bytes EXCEPT ![store[w]] = bytes[store[w]] + 1]
    BY <1>1 DEF Put
  <2>2. QED
    BY <2>1
<1>2. ASSUME ~ \E w \in Workers : Put(w) PROVE UNCHANGED bytes
  BY <1>2 DEF DSNext, Write, Serve, FindNothing, TakeBlock, Measure, SetPosition,
     Accept, Reject, GiveUp, Finish, Return, dsVars, allVars
<1>3. QED
  BY <1>1, <1>2

(* A full store stays full.                                                 *)
LEMMA FullStaysFull ==
  ASSUME DSTypeOK, [DSNext]_allVars, NEW s \in Stores, MayBeFull(s)
  PROVE  MayBeFull(s)'
<1>1. bytes[s] \in Nat /\ Limit[s] \in Nat /\ Slack \in Nat
  BY StoresSplit DEF DSTypeOK
<1>2. bytes'[s] \in Nat /\ bytes[s] <= bytes'[s]
  BY StoresGrow
<1>3. QED
  BY <1>1, <1>2 DEF MayBeFull

(* A size only gets into a writer's hands by being measured, and only from  *)
(* there into next_write_position.                                          *)
LEMMA MeasuresStep == DSTypeOK /\ DSTypeOK' /\ Measures /\ [DSNext]_allVars => Measures'
<1> SUFFICES ASSUME DSTypeOK, DSTypeOK', Measures, [DSNext]_allVars PROVE Measures'
  OBVIOUS
<1> USE StoresSplit
<1>0. \A s \in Stores :
        /\ bytes[s] \in Nat /\ bytes'[s] \in Nat /\ bytes[s] <= bytes'[s]
        /\ position[s] \in Nat /\ position'[s] \in Nat
  BY StoresGrow DEF DSTypeOK
<1>a. \A w \in Workers : /\ store[w] \in Stores /\ store'[w] \in Stores
                         /\ pos[w] \in Nat /\ pos'[w] \in Nat
  BY DEF DSTypeOK
<1>1. ASSUME NEW w \in Workers, Measure(w) PROVE Measures'
  <2>1. PICK s \in Candidates(l[w]), extra \in 0..Slack :
          /\ store' = [store EXCEPT ![w] = s]
          /\ pos' = [pos EXCEPT ![w] = bytes[s] + extra]
    BY <1>1 DEF Measure
  <2>2. UNCHANGED <<bytes, position>> /\ step' = [step EXCEPT ![w] = "measured"]
    BY <1>1 DEF Measure, Goto
  <2>3. s \in Stores /\ store'[w] = s /\ pos'[w] = bytes[s] + extra
    BY <2>1 DEF Candidates, DSTypeOK
  <2>4. \A v \in Workers : v # w =>
          store'[v] = store[v] /\ pos'[v] = pos[v] /\ step'[v] = step[v]
    BY <2>1, <2>2 DEF DSTypeOK
  <2>5. \A v \in Workers : step'[v] = "measured" => pos'[v] <= bytes'[store'[v]] + Slack
    BY <1>0, <1>a, <2>2, <2>3, <2>4 DEF Measures
  <2>6. QED
    BY <2>2, <2>5 DEF Measures
<1>2. ASSUME NEW w \in Workers, SetPosition(w) PROVE Measures'
  <2>1. /\ step[w] = "measured" /\ position' = [position EXCEPT ![store[w]] = pos[w]]
        /\ step' = [step EXCEPT ![w] = "compare"] /\ pos' = [pos EXCEPT ![w] = 0]
        /\ UNCHANGED <<bytes, store>>
    BY <1>2 DEF SetPosition, Goto
  <2>2. pos[w] <= bytes[store[w]] + Slack
    BY <2>1 DEF Measures
  <2>3. \A s \in Stores : position'[s] <= bytes'[s] + Slack
    BY <2>1, <2>2, <1>0, <1>a DEF Measures, DSTypeOK
  <2>4. \A v \in Workers : step'[v] = "measured" => v # w /\ step[v] = "measured"
    BY <2>1 DEF DSTypeOK
  <2>5. \A v \in Workers : step'[v] = "measured" => pos'[v] <= bytes'[store'[v]] + Slack
    BY <2>1, <2>4 DEF Measures, DSTypeOK
  <2>6. QED
    BY <2>3, <2>5 DEF Measures
<1>3. ASSUME ~ \E w \in Workers : Measure(w) \/ SetPosition(w) PROVE Measures'
  <2>1. UNCHANGED position
    BY <1>3 DEF DSNext, Write, Serve, FindNothing, TakeBlock, Accept, Reject, Put,
       GiveUp, Finish, Return, dsVars, allVars
  <2>2. \A v \in Workers : step'[v] = "measured" =>
          step[v] = "measured" /\ store'[v] = store[v] /\ pos'[v] = pos[v]
    <3>1. CASE Serve \/ UNCHANGED allVars \/ \E w \in Workers : FindNothing(w)
      BY <3>1 DEF Serve, FindNothing, dsVars, allVars
    <3>2. ASSUME NEW w \in Workers, TakeBlock(w) \/ Accept(w) \/ Reject(w)
          PROVE  \A v \in Workers : step'[v] = "measured" =>
                   step[v] = "measured" /\ store'[v] = store[v] /\ pos'[v] = pos[v]
      BY <3>2 DEF TakeBlock, Accept, Reject, Goto, DSTypeOK
    <3>3. ASSUME NEW w \in Workers, Put(w)
          PROVE  \A v \in Workers : step'[v] = "measured" =>
                   step[v] = "measured" /\ store'[v] = store[v] /\ pos'[v] = pos[v]
      BY <3>3 DEF Put, Goto, DSTypeOK
    <3>4. ASSUME NEW w \in Workers, GiveUp(w) \/ Finish(w)
          PROVE  \A v \in Workers : step'[v] = "measured" =>
                   step[v] = "measured" /\ store'[v] = store[v] /\ pos'[v] = pos[v]
      <4>1. Return(w)
        BY <3>4 DEF GiveUp, Finish
      <4>2. QED
        BY <4>1 DEF Return, DSTypeOK
    <3>5. QED
      BY <1>3, <3>1, <3>2, <3>3, <3>4 DEF DSNext, Write
  <2>3. ASSUME NEW s \in Stores PROVE position'[s] <= bytes'[s] + Slack
    <3>1. position'[s] = position[s] /\ position[s] <= bytes[s] + Slack
      BY <2>1 DEF Measures
    <3>2. bytes[s] \in Nat /\ bytes'[s] \in Nat /\ bytes[s] <= bytes'[s]
          /\ position[s] \in Nat /\ Slack \in Nat
      BY <1>0, DatastoreAssumption
    <3>3. QED
      BY ONLY <3>1, <3>2
  <2>4. ASSUME NEW v \in Workers, step'[v] = "measured"
        PROVE  pos'[v] <= bytes'[store'[v]] + Slack
    <3>1. step[v] = "measured" /\ store'[v] = store[v] /\ pos'[v] = pos[v]
      BY <2>2, <2>4
    <3>2. pos[v] <= bytes[store[v]] + Slack
      BY <3>1 DEF Measures
    <3>3. bytes[store[v]] \in Nat /\ bytes'[store[v]] \in Nat
          /\ bytes[store[v]] <= bytes'[store[v]] /\ pos[v] \in Nat
      BY <1>0, <1>a
    <3>4. QED
      BY <3>1, <3>2, <3>3
  <2>5. QED
    BY <2>3, <2>4 DEF Measures
<1>4. QED
  BY <1>1, <1>2, <1>3

-----------------------------------------------------------------------------
(* A writer's step leaves the locals of the others alone. *)
Same(v) ==
    /\ step'[v] = step[v] /\ replica'[v] = replica[v] /\ l'[v] = l[v]
    /\ store'[v] = store[v] /\ chunk'[v] = chunk[v] /\ written'[v] = written[v]

LEMMA OthersStay ==
  ASSUME DSTypeOK, NEW w \in Workers, Write(w), NEW v \in Workers, v # w
  PROVE  Same(v)
<1> USE DEF DSTypeOK, Same
<1>1. CASE FindNothing(w)
  BY <1>1 DEF FindNothing, dsVars
<1>2. CASE TakeBlock(w)
  BY <1>2 DEF TakeBlock
<1>3. CASE Measure(w) \/ SetPosition(w)
  BY <1>3 DEF Measure, SetPosition, Goto
<1>4. CASE Accept(w)
  BY <1>4 DEF Accept, Goto
<1>5. CASE Reject(w)
  BY <1>5 DEF Reject, Goto
<1>6. CASE Put(w)
  BY <1>6 DEF Put, Goto
<1>7. CASE GiveUp(w) \/ Finish(w)
  <2>1. Return(w)
    BY <1>7 DEF GiveUp, Finish
  <2>2. QED
    BY <2>1 DEF Return
<1>8. QED
  BY <1>1, <1>2, <1>3, <1>4, <1>5, <1>6, <1>7 DEF Write

(* Nor does the thread that serves requests touch them. *)
LEMMA NobodyMoves ==
  ASSUME DSTypeOK, Serve \/ UNCHANGED allVars
  PROVE  \A v \in Workers : Same(v)
  BY DEF Serve, dsVars, allVars, Same

(* What the step of a writer does to its own locals. *)
Moves(w) ==
    \/ Same(w)
    \/ step'[w] = "none" /\ ~ replica'[w]
    \/ /\ step'[w] = "pick" /\ l'[w] = Datastores /\ ~ replica'[w]
    \/ /\ step[w] = "pick" /\ step'[w] = "measured"
       /\ store'[w] \in Candidates(l[w])
       /\ l'[w] = l[w] /\ replica'[w] = replica[w] /\ chunk'[w] = chunk[w]
       /\ written'[w] = written[w]
    \/ /\ step[w] = "measured" /\ step'[w] = "compare"
       /\ l'[w] = l[w] /\ replica'[w] = replica[w] /\ chunk'[w] = chunk[w]
       /\ written'[w] = written[w] /\ store'[w] = store[w]
    \/ /\ step[w] = "compare" /\ step'[w] = "put"
       /\ l'[w] = l[w] /\ replica'[w] = replica[w] /\ written'[w] = written[w]
       /\ store'[w] = store[w]
       /\ chunk'[w] = IF replica[w] THEN chunk[w] ELSE store[w]
    \/ /\ step[w] = "compare" /\ ~ HasRoom(store[w])
       /\ l'[w] = l[w] \ {store[w]} /\ replica'[w] = replica[w]
       /\ \/ step'[w] = "nospace" /\ l[w] = {store[w]}
          \/ step'[w] = "pick"
       /\ chunk'[w] = chunk[w] /\ written'[w] = written[w]
    \/ /\ step[w] = "put" /\ chunk'[w] = chunk[w]
       /\ written'[w] = written[w] \union {store[w]}
       /\ \/ /\ Replicate /\ ~ replica[w] /\ step'[w] = "pick"
             /\ replica'[w] /\ l'[w] = MirrorStores
          \/ /\ ~ Replicate \/ replica[w]
             /\ step'[w] = "done" /\ replica'[w] = replica[w]

LEMMA WriterMoves ==
  ASSUME DSTypeOK, NEW w \in Workers, Write(w)
  PROVE  Moves(w)
<1> USE DEF DSTypeOK, Moves
<1>1. CASE FindNothing(w)
  BY <1>1 DEF FindNothing, dsVars, Same
<1>2. CASE TakeBlock(w)
  BY <1>2 DEF TakeBlock, PopLeft
<1>3. CASE Measure(w)
  <2>1. PICK s \in Candidates(l[w]) : store' = [store EXCEPT ![w] = s]
    BY <1>3 DEF Measure
  <2>2. store'[w] \in Candidates(l[w])
    BY <2>1
  <2>3. QED
    BY <1>3, <2>2 DEF Measure, Goto
<1>4. CASE SetPosition(w)
  BY <1>4 DEF SetPosition, Goto
<1>5. CASE Accept(w)
  BY <1>5 DEF Accept, Goto
<1>6. CASE Reject(w)
  BY <1>6 DEF Reject, Goto
<1>7. CASE Put(w)
  BY <1>7 DEF Put, Goto
<1>8. CASE GiveUp(w) \/ Finish(w)
  <2>1. Return(w)
    BY <1>8 DEF GiveUp, Finish
  <2>2. QED
    BY <2>1 DEF Return
<1>9. QED
  BY <1>1, <1>2, <1>3, <1>4, <1>5, <1>6, <1>7, <1>8 DEF Write

-----------------------------------------------------------------------------
(* A search leaves a store behind only when the size in next_write_position *)
(* was at the limit, and that size is one the store had.                    *)
LEMMA SearchStep ==
  DSTypeOK /\ DSTypeOK' /\ Measures /\ Search /\ [DSNext]_allVars => Search'
<1> SUFFICES ASSUME DSTypeOK, DSTypeOK', Measures, Search, [DSNext]_allVars,
                    NEW v \in Workers
             PROVE  /\ Searching(v)' =>
                         \A s \in List(replica'[v]) : s \notin l'[v] => MayBeFull(s)'
                    /\ step'[v] = "nospace" => l'[v] = {}
                    /\ Choosing(v)' => /\ store'[v] \in l'[v]
                                       /\ ~ WriteSpread => \A t \in l'[v] : store'[v] <= t
  BY DEF Search, LeftBehind, NothingLeft, AtFirst
<1> USE StoresSplit
<1>a. /\ Searching(v) => \A s \in List(replica[v]) : s \notin l[v] => MayBeFull(s)
      /\ step[v] = "nospace" => l[v] = {}
      /\ Choosing(v) => /\ store[v] \in l[v]
                        /\ ~ WriteSpread => \A t \in l[v] : store[v] <= t
  BY DEF Search, LeftBehind, NothingLeft, AtFirst
<1>b. \A s \in Stores : MayBeFull(s) => MayBeFull(s)'
  BY FullStaysFull
<1>c. List(replica[v]) \subseteq Stores /\ List(replica'[v]) \subseteq Stores
      /\ replica[v] \in BOOLEAN /\ replica'[v] \in BOOLEAN
      /\ store[v] \in Stores
  BY DEF DSTypeOK
<1>1. CASE Same(v)
  BY <1>1, <1>a, <1>b, <1>c DEF Same, Searching, Choosing
<1>2. CASE Moves(v)
  <2>1. CASE step'[v] = "none"
    BY <2>1 DEF Searching, Choosing
  <2>2. CASE step'[v] = "pick" /\ l'[v] = Datastores /\ ~ replica'[v]
    BY <2>2, <1>c DEF Searching, Choosing, List
  <2>3. CASE /\ step[v] = "pick" /\ step'[v] = "measured"
             /\ store'[v] \in Candidates(l[v])
             /\ l'[v] = l[v] /\ replica'[v] = replica[v]
    BY <2>3, <1>a, <1>b, <1>c DEF Searching, Choosing, Candidates
  <2>4. CASE /\ \/ step[v] = "measured" /\ step'[v] = "compare"
                \/ step[v] = "compare" /\ step'[v] = "put"
             /\ l'[v] = l[v] /\ replica'[v] = replica[v] /\ store'[v] = store[v]
    BY <2>4, <1>a, <1>b, <1>c DEF Searching, Choosing
  <2>5. CASE /\ step[v] = "compare" /\ ~ HasRoom(store[v])
             /\ l'[v] = l[v] \ {store[v]} /\ replica'[v] = replica[v]
             /\ \/ step'[v] = "nospace" /\ l[v] = {store[v]}
                \/ step'[v] = "pick"
    <3>1. MayBeFull(store[v])
      <4>1. /\ position[store[v]] \in Nat /\ Limit[store[v]] \in Nat
            /\ bytes[store[v]] \in Nat
            /\ position[store[v]] <= bytes[store[v]] + Slack
        BY <1>c DEF DSTypeOK, Measures
      <4>2. ~ (position[store[v]] < Limit[store[v]])
        BY <2>5 DEF HasRoom
      <4>3. QED
        BY <4>1, <4>2 DEF MayBeFull
    <3>2. \A s \in List(replica[v]) : s \notin l[v] => MayBeFull(s)
      BY <2>5, <1>a DEF Searching, Choosing
    <3>3. \A s \in List(replica'[v]) : s \notin l'[v] => MayBeFull(s)'
      BY <2>5, <3>1, <3>2, <1>b, <1>c
    <3>4. QED
      BY <2>5, <3>3 DEF Choosing
  <2>6. CASE /\ step'[v] = "pick" /\ replica'[v] /\ l'[v] = MirrorStores
    BY <2>6, <1>c DEF Searching, Choosing, List
  <2>7. CASE step'[v] = "done"
    BY <2>7 DEF Searching, Choosing
  <2>8. QED
    BY ONLY Moves(v), <1>1, <2>1, <2>2, <2>3, <2>4, <2>5, <2>6, <2>7 DEF Moves
<1>3. CASE Serve \/ UNCHANGED allVars
  BY <1>1, <1>3, NobodyMoves
<1>4. ASSUME NEW w \in Workers, Write(w) PROVE Same(v) \/ Moves(v)
  BY <1>4, OthersStay, WriterMoves
<1>5. QED
  BY <1>1, <1>2, <1>3, <1>4 DEF DSNext

(* A block is put only in the store the search ended at: in contiguous mode *)
(* the first that it did not find full.                                     *)
LEMMA OrderStep ==
  DSTypeOK /\ Search /\ FillsInOrder /\ [DSNext]_allVars => FillsInOrder'
<1> SUFFICES ASSUME DSTypeOK, Search, FillsInOrder, [DSNext]_allVars, ~ WriteSpread,
                    NEW r \in BOOLEAN, NEW s \in List(r), NEW t \in List(r),
                    s < t, bytes'[t] > 0
             PROVE  MayBeFull(s)'
  BY DEF FillsInOrder
<1> USE StoresSplit
<1>0. s \in Stores /\ t \in Stores /\ s \in Nat /\ t \in Nat /\ bytes[t] \in Nat
  BY DEF DSTypeOK
<1>1. CASE bytes[t] > 0
  BY <1>0, <1>1, FullStaysFull DEF FillsInOrder
<1>2. CASE ~ (bytes[t] > 0)
  <2>1. PICK w \in Workers : Put(w)
    BY <1>2 DEF DSNext, Write, Serve, FindNothing, TakeBlock, Measure, SetPosition,
       Accept, Reject, GiveUp, Finish, Return, dsVars, allVars
  <2>2. step[w] = "put" /\ bytes' = [bytes EXCEPT ![store[w]] = bytes[store[w]] + 1]
    BY <2>1 DEF Put
  <2>3. t = store[w]
    BY <1>0, <1>2, <2>2 DEF DSTypeOK
  <2>4. t \in l[w] /\ s \notin l[w]
    BY <1>0, <2>2, <2>3 DEF Search, AtFirst, Choosing
  <2>5. l[w] \subseteq List(replica[w]) /\ replica[w] \in BOOLEAN
    BY DEF DSTypeOK
  <2>6. s \in List(replica[w])
    BY <2>4, <2>5 DEF List
  <2>7. MayBeFull(s)
    BY <2>2, <2>4, <2>6 DEF Search, LeftBehind, Searching, Choosing
  <2>8. QED
    BY <1>0, <2>7, FullStaysFull
<1>3. QED
  BY <1>1, <1>2

(* What is written first names the datastore, what is written next is the   *)
(* mirror.                                                                  *)
LEMMA PlacedStep ==
  DSTypeOK /\ DSTypeOK' /\ Search /\ Placed /\ [DSNext]_allVars => Placed'
<1> SUFFICES ASSUME DSTypeOK, DSTypeOK', Search, Placed, [DSNext]_allVars,
                    NEW v \in Workers
             PROVE  /\ step'[v] = "put" /\ ~ replica'[v] => chunk'[v] = store'[v]
                    /\ replica'[v] => Replicate /\ Stored(v)'
                    /\ step'[v] = "done" =>
                         /\ Stored(v)'
                         /\ Replicate => written'[v] \intersect MirrorStores # {}
  BY DEF Placed
<1>a. /\ step[v] = "put" /\ ~ replica[v] => chunk[v] = store[v]
      /\ replica[v] => Replicate /\ Stored(v)
      /\ step[v] = "done" =>
           Stored(v) /\ (Replicate => written[v] \intersect MirrorStores # {})
  BY DEF Placed
<1>b. step[v] = "put" => store[v] \in List(replica[v])
  BY DEF Search, AtFirst, Choosing, DSTypeOK
<1>1. CASE Same(v)
  BY <1>1, <1>a DEF Same, Stored
<1>2. CASE Moves(v) /\ ~ Same(v)
  <2>1. CASE step[v] # "put"
    BY <1>2, <2>1, <1>a DEF Moves, Stored
  <2>2. CASE step[v] = "put" /\ ~ replica[v]
    <3>1. chunk[v] = store[v] /\ store[v] \in Datastores
      BY <2>2, <1>a, <1>b DEF List
    <3>2. QED
      BY <1>2, <2>2, <3>1 DEF Moves, Stored
  <2>3. CASE step[v] = "put" /\ replica[v]
    <3>1. store[v] \in MirrorStores /\ Stored(v) /\ Replicate
      BY <2>3, <1>a, <1>b DEF List
    <3>2. QED
      BY <1>2, <2>3, <3>1 DEF Moves, Stored
  <2>4. QED
    BY <2>1, <2>2, <2>3 DEF DSTypeOK
<1>3. CASE Serve \/ UNCHANGED allVars
  BY <1>1, <1>3, NobodyMoves
<1>4. ASSUME NEW w \in Workers, Write(w) PROVE Same(v) \/ Moves(v)
  BY <1>4, OthersStay, WriterMoves
<1>5. QED
  BY <1>1, <1>2, <1>3, <1>4 DEF DSNext

-----------------------------------------------------------------------------
(* While nothing is put in the store, nobody new is let in and no old size  *)
(* of it is used up, nothing changes for it.                                *)
LEMMA NobodyLetIn ==
  ASSUME DSTypeOK, NEW s \in Stores, LetIn(s), bytes'[s] = bytes[s],
         Entering(s)' \subseteq Entering(s),
         bytes[s] >= Limit[s] => HoldingOld(s)' \subseteq HoldingOld(s)
  PROVE  LetIn(s)'
<1> SUFFICES ASSUME bytes[s] >= Limit[s]
    PROVE  bytes[s] + Cardinality(Entering(s)')
               < Limit[s] + Triangle(Cardinality(Workers \ HoldingOld(s)'))
  BY DEF LetIn
<1>1. /\ Cardinality(Entering(s)') \in Nat /\ Cardinality(Entering(s)) \in Nat
      /\ Cardinality(Entering(s)') <= Cardinality(Entering(s))
  <2>1. Entering(s) \subseteq Workers
    BY DEF Entering
  <2>2. QED
    BY <2>1, Counted
<1> DEFINE m == Cardinality(Workers \ HoldingOld(s))
           n == Cardinality(Workers \ HoldingOld(s)')
<1>2. m \in Nat /\ n \in Nat /\ m <= n
  BY Counted
<1>3. Triangle(m) <= Triangle(n) /\ Triangle(n) \in Nat /\ Triangle(m) \in Nat
  <2> HIDE DEF m, n
  <2>1. QED
    BY <1>2, TriangleGrows, TwiceTriangle
<1>4. bytes[s] + Cardinality(Entering(s)) < Limit[s] + Triangle(m)
  BY DEF LetIn
<1>5. bytes[s] \in Nat /\ Limit[s] \in Nat
  BY StoresSplit DEF DSTypeOK
<1>6. QED
  BY <1>1, <1>3, <1>4, <1>5

(* An old size is left in next_write_position: it lets in at most those who *)
(* hold none any more, and is used up.                                      *)
LEMMA OldSizeLeft ==
  ASSUME DSTypeOK, NEW s \in Stores, LetIn(s), bytes'[s] = bytes[s],
         NEW w \in Workers, w \in HoldingOld(s),
         HoldingOld(s)' = HoldingOld(s) \ {w},
         Entering(s)' \subseteq Workers \ HoldingOld(s)'
  PROVE  LetIn(s)'
<1> SUFFICES ASSUME bytes[s] >= Limit[s]
    PROVE  bytes[s] + Cardinality(Entering(s)')
               < Limit[s] + Triangle(Cardinality(Workers \ HoldingOld(s)'))
  BY DEF LetIn
<1> DEFINE m == Cardinality(Workers \ HoldingOld(s))
<1>1. m \in Nat /\ IsFiniteSet(Workers \ HoldingOld(s))
  BY Counted
<1>2. Cardinality(Workers \ HoldingOld(s)') = m + 1
  <2>1. Workers \ HoldingOld(s)' = (Workers \ HoldingOld(s)) \union {w}
    OBVIOUS
  <2>2. w \notin Workers \ HoldingOld(s)
    OBVIOUS
  <2>3. QED
    BY <1>1, <2>1, <2>2, FS_AddElement
<1>3. Cardinality(Entering(s)') \in Nat /\ Cardinality(Entering(s)') <= m + 1
  BY <1>2, Counted
<1>4. Triangle(m + 1) = Triangle(m) + m + 1 /\ Triangle(m) \in Nat
  <2> HIDE DEF m
  <2>1. QED
    BY <1>1, TriangleNext, TwiceTriangle
<1>5. bytes[s] + Cardinality(Entering(s)) < Limit[s] + Triangle(m)
      /\ Cardinality(Entering(s)) \in Nat
  <2>1. Entering(s) \subseteq Workers
    BY DEF Entering
  <2>2. QED
    BY <2>1, Counted DEF LetIn
<1>6. bytes[s] \in Nat /\ Limit[s] \in Nat
  BY StoresSplit DEF DSTypeOK
<1> HIDE DEF m
<1>7. QED
  BY <1>1, <1>2, <1>3, <1>4, <1>5, <1>6

(* A block is put in the store: one less is being let in, and by the one    *)
(* that fills it there are at most all the other writers.                   *)
LEMMA BlockPut ==
  ASSUME DSTypeOK, NEW s \in Stores, LetIn(s), bytes'[s] = bytes[s] + 1,
         NEW w \in Workers, w \in Entering(s), w \notin HoldingOld(s),
         Entering(s)' = Entering(s) \ {w},
         Entering(s) \subseteq Workers \ HoldingOld(s),
         HoldingOld(s)' = HoldingOld(s)
  PROVE  LetIn(s)'
<1> SUFFICES ASSUME bytes[s] + 1 >= Limit[s]
    PROVE  bytes[s] + 1 + Cardinality(Entering(s)')
               < Limit[s] + Triangle(Cardinality(Workers \ HoldingOld(s)))
  BY DEF LetIn
<1> DEFINE m == Cardinality(Workers \ HoldingOld(s))
<1>1. /\ m \in Nat /\ Cardinality(Entering(s)) \in Nat /\ Cardinality(Entering(s)) <= m
      /\ IsFiniteSet(Entering(s))
  BY Counted
<1>2. Cardinality(Entering(s)') = Cardinality(Entering(s)) - 1
  BY <1>1, FS_RemoveElement
<1>3. Cardinality(Entering(s)') \in Nat
  <2>1. Cardinality(Entering(s)) # 0
    BY <1>1, FS_EmptySet
  <2>2. QED
    BY <1>1, <1>2, <2>1
<1>4. bytes[s] \in Nat /\ Limit[s] \in Nat
  BY StoresSplit DEF DSTypeOK
<1> HIDE DEF m
<1>5. m <= Triangle(m) /\ Triangle(m) \in Nat
  <2>1. m # 0
    BY <1>1, <1>2, <1>3
  <2>2. QED
    BY <1>1, <2>1, TriangleBeyond
<1>6. CASE bytes[s] >= Limit[s]
  <2>1. bytes[s] + Cardinality(Entering(s)) < Limit[s] + Triangle(m)
    BY <1>6 DEF LetIn, m
  <2>2. bytes[s] + 1 + Cardinality(Entering(s)') < Limit[s] + Triangle(m)
    BY <1>1, <1>2, <1>4, <1>5, <2>1
  <2>3. QED
    BY <2>2 DEF m
<1>7. CASE ~ (bytes[s] >= Limit[s])
  <2>1. bytes[s] + 1 + Cardinality(Entering(s)') < Limit[s] + Triangle(m)
    BY <1>1, <1>2, <1>4, <1>5, <1>7
  <2>2. QED
    BY <2>1 DEF m
<1>8. QED
  BY <1>6, <1>7

(* Each step is one of the three for each store.                            *)
LEMMA ExcessStep == DSTypeOK /\ DSTypeOK' /\ Excess /\ [DSNext]_allVars => Excess'
<1> SUFFICES ASSUME DSTypeOK, DSTypeOK', Excess, [DSNext]_allVars, NEW s \in Stores
    PROVE  LetIn(s)'
  BY DEF Excess
<1>a. LetIn(s) /\ bytes[s] \in Nat /\ Limit[s] \in Nat /\ position[s] \in Nat
  BY StoresSplit DEF Excess, DSTypeOK
<1>b. \A v \in Workers : store[v] \in Stores /\ store'[v] \in Stores /\ pos[v] \in Nat
  BY DEF DSTypeOK
<1>1. ASSUME UNCHANGED dsVars PROVE LetIn(s)'
  <2>1. bytes'[s] = bytes[s] /\ Entering(s)' = Entering(s) /\ HoldingOld(s)' = HoldingOld(s)
    BY <1>1 DEF dsVars, Entering, HoldingOld, HasRoom
  <2>2. QED
    BY <1>a, <2>1, NobodyLetIn
<1>2. ASSUME NEW w \in Workers, UNCHANGED <<bytes, position>>,
             \A v \in Workers : v # w =>
                 step'[v] = step[v] /\ store'[v] = store[v] /\ pos'[v] = pos[v],
             step'[w] \in {"measured", "compare", "put"} =>
                 /\ store'[w] = s /\ step'[w] = "measured" /\ bytes[s] >= Limit[s]
                        => ~ (pos'[w] < Limit[s])
                 /\ store'[w] = s /\ step'[w] # "measured" => w \in Entering(s)
      PROVE  LetIn(s)'
  <2>1. Entering(s)' \subseteq Entering(s)
    BY <1>2 DEF Entering, HasRoom
  <2>2. bytes[s] >= Limit[s] => HoldingOld(s)' \subseteq HoldingOld(s)
    BY <1>2 DEF HoldingOld
  <2>3. QED
    BY <1>2, <1>a, <2>1, <2>2, NobodyLetIn
<1>3. ASSUME NEW w \in Workers, FindNothing(w) PROVE LetIn(s)'
  BY <1>1, <1>3 DEF FindNothing
<1>4. ASSUME NEW w \in Workers, TakeBlock(w) PROVE LetIn(s)'
  <2>1. /\ step'[w] = "pick" /\ UNCHANGED <<bytes, position, store, pos>>
        /\ \A v \in Workers : v # w => step'[v] = step[v]
    BY <1>4 DEF TakeBlock, DSTypeOK
  <2>2. QED
    BY <1>2, <2>1
<1>5. ASSUME NEW w \in Workers, Measure(w) PROVE LetIn(s)'
  <2>1. PICK t \in Candidates(l[w]), extra \in 0..Slack :
          /\ store' = [store EXCEPT ![w] = t]
          /\ pos' = [pos EXCEPT ![w] = bytes[t] + extra]
    BY <1>5 DEF Measure
  <2>2. step' = [step EXCEPT ![w] = "measured"] /\ UNCHANGED <<bytes, position>>
    BY <1>5 DEF Measure, Goto
  <2>3. store'[w] = t /\ pos'[w] = bytes[t] + extra /\ step'[w] = "measured"
    BY <2>1, <2>2 DEF DSTypeOK
  <2>4. extra \in Nat
    BY <2>1, DatastoreAssumption
  <2>5. store'[w] = s /\ bytes[s] >= Limit[s] => ~ (pos'[w] < Limit[s])
    BY <2>3, <2>4, <1>a
  <2>6. \A v \in Workers : v # w =>
          step'[v] = step[v] /\ store'[v] = store[v] /\ pos'[v] = pos[v]
    BY <2>1, <2>2 DEF DSTypeOK
  <2>7. QED
    BY <1>2, <2>2, <2>3, <2>5, <2>6
<1>6. ASSUME NEW w \in Workers, SetPosition(w) PROVE LetIn(s)'
  <2>1. /\ step[w] = "measured" /\ position' = [position EXCEPT ![store[w]] = pos[w]]
        /\ step'[w] = "compare" /\ UNCHANGED <<bytes, store>>
        /\ \A v \in Workers : v # w => step'[v] = step[v] /\ pos'[v] = pos[v]
    BY <1>6 DEF SetPosition, Goto, DSTypeOK
  <2>2. CASE store[w] # s
    <3>1. position'[s] = position[s]
      BY <2>1, <2>2 DEF DSTypeOK
    <3>2. Entering(s)' = Entering(s)
      BY <2>1, <2>2, <3>1 DEF Entering, HasRoom
    <3>3. HoldingOld(s)' = HoldingOld(s)
      BY <2>1, <2>2 DEF HoldingOld
    <3>4. QED
      BY <1>a, <2>1, <3>2, <3>3, NobodyLetIn
  <2>3. CASE store[w] = s /\ pos[w] < Limit[s]
    <3>1. w \in HoldingOld(s)
      BY <2>1, <2>3 DEF HoldingOld
    <3>2. HoldingOld(s)' = HoldingOld(s) \ {w}
      BY <2>1 DEF HoldingOld
    <3>3. Entering(s)' \subseteq Workers \ HoldingOld(s)'
      BY DEF Entering, HoldingOld
    <3>4. QED
      BY <1>a, <2>1, <3>1, <3>2, <3>3, OldSizeLeft
  <2>4. CASE store[w] = s /\ ~ (pos[w] < Limit[s])
    <3>1. position'[s] = pos[w]
      BY <2>1, <2>4 DEF DSTypeOK
    <3>2. ~ HasRoom(s)'
      BY <2>4, <3>1 DEF HasRoom
    <3>3. Entering(s)' \subseteq Entering(s)
      BY <2>1, <3>2 DEF Entering
    <3>4. HoldingOld(s)' \subseteq HoldingOld(s)
      BY <2>1 DEF HoldingOld
    <3>5. QED
      BY <1>a, <2>1, <3>3, <3>4, NobodyLetIn
  <2>5. QED
    BY <2>2, <2>3, <2>4
<1>7. ASSUME NEW w \in Workers, Accept(w) PROVE LetIn(s)'
  <2>1. /\ step[w] = "compare" /\ HasRoom(store[w]) /\ step'[w] = "put"
        /\ UNCHANGED <<bytes, position, store, pos>>
        /\ \A v \in Workers : v # w => step'[v] = step[v]
    BY <1>7 DEF Accept, Goto, DSTypeOK
  <2>2. store'[w] = s => w \in Entering(s)
    BY <2>1 DEF Entering
  <2>3. QED
    BY <1>2, <2>1, <2>2
<1>8. ASSUME NEW w \in Workers, Reject(w) PROVE LetIn(s)'
  <2>1. /\ step'[w] \in {"nospace", "pick"}
        /\ UNCHANGED <<bytes, position, store, pos>>
        /\ \A v \in Workers : v # w => step'[v] = step[v]
    BY <1>8 DEF Reject, Goto, DSTypeOK
  <2>2. QED
    BY <1>2, <2>1
<1>9. ASSUME NEW w \in Workers, Put(w) PROVE LetIn(s)'
  <2>1. /\ step[w] = "put" /\ step'[w] \in {"pick", "done"}
        /\ bytes' = [bytes EXCEPT ![store[w]] = bytes[store[w]] + 1]
        /\ UNCHANGED <<position, store, pos>>
        /\ \A v \in Workers : v # w => step'[v] = step[v]
    BY <1>9 DEF Put, Goto, DSTypeOK
  <2>2. HoldingOld(s)' = HoldingOld(s)
    BY <2>1 DEF HoldingOld
  <2>3. CASE store[w] # s
    <3>1. bytes'[s] = bytes[s]
      BY <2>1, <2>3 DEF DSTypeOK
    <3>2. Entering(s)' \subseteq Entering(s)
      BY <2>1 DEF Entering, HasRoom
    <3>3. QED
      BY <1>a, <2>2, <3>1, <3>2, NobodyLetIn
  <2>4. CASE store[w] = s
    <3>1. bytes'[s] = bytes[s] + 1
      BY <2>1, <2>4 DEF DSTypeOK
    <3>2. w \in Entering(s) /\ w \notin HoldingOld(s)
      BY <2>1, <2>4 DEF Entering, HoldingOld
    <3>3. Entering(s)' = Entering(s) \ {w}
      BY <2>1 DEF Entering, HasRoom
    <3>4. Entering(s) \subseteq Workers \ HoldingOld(s)
      BY DEF Entering, HoldingOld
    <3>5. QED
      BY <1>a, <2>2, <3>1, <3>2, <3>3, <3>4, BlockPut
  <2>5. QED
    BY <2>3, <2>4
<1>10. ASSUME NEW w \in Workers, GiveUp(w) \/ Finish(w) PROVE LetIn(s)'
  <2>1. Return(w)
    BY <1>10 DEF GiveUp, Finish
  <2>2. /\ step'[w] = "none" /\ UNCHANGED <<bytes, position>>
        /\ \A v \in Workers : v # w =>
             step'[v] = step[v] /\ store'[v] = store[v] /\ pos'[v] = pos[v]
    BY <2>1 DEF Return, DSTypeOK
  <2>3. QED
    BY <1>2, <2>2
<1>11. CASE Serve \/ UNCHANGED allVars
  BY <1>1, <1>11 DEF Serve, allVars, dsVars
<1>12. QED
  BY <1>3, <1>4, <1>5, <1>6, <1>7, <1>8, <1>9, <1>10, <1>11 DEF DSNext, Write

(* The invariant is inductive, beside the bound of the buffer. *)
LEMMA StepDSInv == Bounded /\ DSInv /\ [DSNext]_allVars => DSInv'
<1> SUFFICES ASSUME Bounded, DSInv, [DSNext]_allVars PROVE DSInv'
  OBVIOUS
<1>1. DSTypeOK /\ Measures /\ Search /\ FillsInOrder /\ Placed /\ Excess
  BY DEF DSInv
<1>2. DSTypeOK'
  BY <1>1, TypeStep
<1>3. QED
  BY <1>1, <1>2, MeasuresStep, SearchStep, OrderStep, PlacedStep, ExcessStep DEF DSInv

(* It holds throughout. *)
LEMMA AlwaysDSInv == DSSafetySpec => []DSInv
  BY InitDSInv, StepDSInv, BoundedWithStores, PTL DEF DSSafetySpec

-----------------------------------------------------------------------------
(* Buffer, writers and stores are always of their types.                    *)
THEOREM StoresTyped == DSSafetySpec => []DSTypeOK
<1>1. DSInv => DSTypeOK
  BY DEF DSInv
<1>2. QED
  BY <1>1, AlwaysDSInv, PTL

(* With the contiguous spread a datastore is used only when every one before*)
(* it is full, however the writers' measurements overtake each other.       *)
THEOREM ContiguousSpread == DSSafetySpec => []FillsInOrder
<1>1. DSInv => FillsInOrder
  BY DEF DSInv
<1>2. QED
  BY <1>1, AlwaysDSInv, PTL

(* A write fails for want of space only when all stores it may use are full.*)
THEOREM RefusedOnlyWhenFull == DSSafetySpec => []NoSpaceOnlyWhenFull
<1>1. DSInv => NoSpaceOnlyWhenFull
  BY DEF DSInv, Search, LeftBehind, NothingLeft, Searching, NoSpaceOnlyWhenFull
<1>2. QED
  BY <1>1, AlwaysDSInv, PTL

(* A block that was committed is in the datastore its entry will name, and  *)
(* in a mirror when data is replicated.                                     *)
THEOREM BlockIsWhereItSays == DSSafetySpec => []CommittedWhereItSays
<1>1. DSInv => CommittedWhereItSays
  BY DEF DSInv, Placed, Stored, CommittedWhereItSays
<1>2. QED
  BY <1>1, AlwaysDSInv, PTL

(* However the writers' measurements overtake each other, n of them write   *)
(* less than 1 + 2 + ... + n blocks beyond the limit of a store.            *)
THEOREM LimitsHold == DSSafetySpec => []OvershootBounded
<1>1. DSInv => OvershootBounded
  <2> SUFFICES ASSUME DSInv, NEW s \in Stores
               PROVE  bytes[s] < Limit[s] + Triangle(Cardinality(Workers))
    BY DEF OvershootBounded, Triangle
  <2>1. bytes[s] \in Nat /\ Limit[s] \in Nat /\ LetIn(s)
    BY StoresSplit DEF DSInv, DSTypeOK, Excess
  <2> DEFINE m == Cardinality(Workers \ HoldingOld(s))
             n == Cardinality(Workers)
  <2>2. m \in Nat /\ n \in Nat /\ m <= n
    BY Counted
  <2>3. Cardinality(Entering(s)) \in Nat
    <3>1. Entering(s) \subseteq Workers
      BY DEF Entering
    <3>2. QED
      BY <3>1, Counted
  <2>4. bytes[s] >= Limit[s] => bytes[s] + Cardinality(Entering(s)) < Limit[s] + Triangle(m)
    BY <2>1 DEF LetIn
  <2>5. n # 0
    BY DatastoreAssumption, FS_EmptySet
  <2> HIDE DEF m, n
  <2>6. Triangle(m) <= Triangle(n) /\ Triangle(n) \in Nat /\ Triangle(m) \in Nat
    BY <2>2, TriangleGrows, TwiceTriangle
  <2>7. n <= Triangle(n)
    BY <2>2, <2>5, TriangleBeyond
  <2>8. bytes[s] < Limit[s] + Triangle(n)
    BY <2>1, <2>2, <2>3, <2>4, <2>5, <2>6, <2>7
  <2>9. QED
    BY <2>8 DEF n
<1>2. QED
  BY <1>1, AlwaysDSInv, PTL
=============================================================================
