-------------------------- MODULE DirectoryProofs --------------------------
(***************************************************************************)
(* What the steps of Directory keep, for any names and any number of        *)
(* inodes.  A truncation is held together by Seconds: its second inode      *)
(* answers for the file under lock, by name and number.  From the start to  *)
(* the first crash in the wrong moment (dirty), every other inode is a      *)
(* file's own, and what a crash reads back has the name it has in memory    *)
(* (Exact).  A listing is followed by the set of entries before an entry,   *)
(* which no removal of an unlisted inode changes, though it moves all       *)
(* positions behind it.                                                     *)
(***************************************************************************)
EXTENDS Directory, SequenceTheorems, FiniteSetTheorems, TLAPS

(* The inodes with their own number are those of files. *)
Own ==
    /\ \A k \in DOMAIN d : d[k].inode = k <=> k \in made
    /\ \A k \in DOMAIN disk : disk[k].inode = k <=> k \in made

Seconds ==
    /\ \A t \in truncs :
        /\ t.file \in made /\ t.temp \notin made
        /\ d[t.temp].inode = t.file
        /\ d[t.temp].name = d[t.file].name
        /\ d[t.temp].listed = d[t.file].listed
    /\ \A t, u \in truncs : t.file = u.file \/ t.temp = u.temp => t = u

SameOnDisk(k) ==
    /\ k \in DOMAIN d
    /\ disk[k].inode = d[k].inode /\ disk[k].name = d[k].name /\ disk[k].listed = d[k].listed

Exact == ~ dirty =>
    /\ \A k \in DOMAIN d : k \in made \/ \E t \in truncs : t.temp = k
    /\ \A k \in DOMAIN disk : SameOnDisk(k)
    /\ \A f, g \in made : d[f].listed /\ d[g].listed /\ d[f].name = d[g].name => f = g

Listed ==
    /\ listing.at = "open" =>
        /\ ~ dirty /\ truncs = {}
        /\ listing.off <= Cardinality(Entries)
        /\ listing.got = {k \in Entries : Cardinality(Before(k)) < listing.off}
        /\ Cardinality(listing.got) = listing.off
        /\ listing.want \subseteq Entries /\ Entries \subseteq listing.may
    /\ ListingComplete

Table == FilesKept /\ FileWhole /\ Own /\ Seconds /\ Exact
IInv == TypeOK /\ Table /\ Listed

-----------------------------------------------------------------------------
(* Sequences with each member of a set once, and where a member is in them. *)
OneEach(s, S) == s \in Seq(Numbers) /\ ToSet(s) = S /\ IsInjective(s)

PosIn(s, k) == CHOOSE i \in DOMAIN s : s[i] = k

LEMMA PosProperty ==
    ASSUME NEW s, NEW S, OneEach(s, S), NEW k \in S
    PROVE  /\ PosIn(s, k) \in 1 .. Len(s) /\ s[PosIn(s, k)] = k
           /\ \A i \in 1 .. Len(s) : s[i] = k => i = PosIn(s, k)
<1>1. DOMAIN s = 1 .. Len(s)
  BY DEF OneEach
<1>2. \E i \in DOMAIN s : s[i] = k
  BY DEF OneEach, ToSet
<1>3. PosIn(s, k) \in DOMAIN s /\ s[PosIn(s, k)] = k
  BY <1>2 DEF PosIn
<1>. QED
  BY <1>1, <1>3 DEF OneEach, IsInjective

LEMMA EmptyOneEach == OneEach(<<>>, {})
BY DEF OneEach, ToSet, IsInjective

(* A key that comes last moves no other. *)
LEMMA AppendOneEach ==
    ASSUME NEW s, NEW S, OneEach(s, S), NEW n \in Numbers, n \notin S
    PROVE  /\ OneEach(Append(s, n), S \union {n})
           /\ \A k \in S : PosIn(Append(s, n), k) = PosIn(s, k)
           /\ PosIn(Append(s, n), n) = Len(s) + 1
<1>. DEFINE r == Append(s, n)
<1>1. s \in Seq(Numbers) /\ Len(s) \in Nat /\ DOMAIN s = 1 .. Len(s)
  BY DEF OneEach
<1>2. /\ r \in Seq(Numbers) /\ Len(r) = Len(s) + 1 /\ DOMAIN r = 1 .. Len(s) + 1
      /\ \A i \in 1 .. Len(s) : r[i] = s[i]
      /\ r[Len(s) + 1] = n
  BY <1>1
<1>. HIDE DEF r
<1>3. \A i \in 1 .. Len(s) : s[i] \in S
  BY <1>1 DEF OneEach, ToSet
<1>4. ToSet(r) = S \union {n}
  BY <1>1, <1>2, <1>3 DEF OneEach, ToSet
<1>5. IsInjective(r)
  BY <1>1, <1>2, <1>3 DEF OneEach, IsInjective
<1>6. OneEach(r, S \union {n})
  BY <1>2, <1>4, <1>5 DEF OneEach
<1>7. ASSUME NEW k \in S PROVE PosIn(r, k) = PosIn(s, k)
  <2>1. PosIn(s, k) \in 1 .. Len(s) /\ s[PosIn(s, k)] = k
    BY PosProperty
  <2>2. PosIn(s, k) \in 1 .. Len(r) /\ r[PosIn(s, k)] = k
    BY <2>1, <1>1, <1>2
  <2>. QED
    BY <2>2, <1>6, PosProperty
<1>8. PosIn(r, n) = Len(s) + 1
  <2>1. Len(s) + 1 \in 1 .. Len(r)
    BY <1>1, <1>2
  <2>. QED
    BY <2>1, <1>2, <1>6, PosProperty
<1>. QED
  BY <1>6, <1>7, <1>8 DEF r

(* Without a key the others are in the order they were in. *)
LEMMA RemoveOneEach ==
    ASSUME NEW s, NEW S, OneEach(s, S), NEW k \in S
    PROVE  LET r == RemoveAt(s, PosIn(s, k))
           IN  /\ OneEach(r, S \ {k})
               /\ \A i, j \in S \ {k} : PosIn(r, i) < PosIn(r, j) <=> PosIn(s, i) < PosIn(s, j)
<1>. DEFINE p == PosIn(s, k)
            r == RemoveAt(s, p)
            at(i) == IF i < p THEN i ELSE i + 1
<1>1. s \in Seq(Numbers) /\ Len(s) \in Nat /\ DOMAIN s = 1 .. Len(s)
  BY DEF OneEach
<1>2. p \in 1 .. Len(s) /\ s[p] = k
  BY PosProperty
<1>3. /\ r \in Seq(Numbers) /\ Len(r) = Len(s) - 1
      /\ \A i \in 1 .. Len(s) - 1 : r[i] = s[at(i)]
  <2>. DEFINE a == SubSeq(s, 1, p - 1)
              b == SubSeq(s, p + 1, Len(s))
  <2>1. /\ a \in Seq(Numbers) /\ Len(a) = p - 1
        /\ \A i \in 1 .. p - 1 : a[i] = s[i]
    BY <1>1, <1>2
  <2>2. /\ b \in Seq(Numbers) /\ Len(b) = Len(s) - p
        /\ \A i \in 1 .. Len(s) - p : b[i] = s[p + i]
    BY <1>1, <1>2
  <2>3. r = a \o b
    BY DEF RemoveAt
  <2>. HIDE DEF a, b, r, p
  <2>4. /\ r \in Seq(Numbers) /\ Len(r) = Len(a) + Len(b)
        /\ \A i \in 1 .. Len(a) + Len(b) :
                r[i] = IF i <= Len(a) THEN a[i] ELSE b[i - Len(a)]
    BY <2>1, <2>2, <2>3, ConcatProperties
  <2>5. p - 1 \in Nat /\ Len(s) - p \in Nat /\ (p - 1) + (Len(s) - p) = Len(s) - 1
    BY <1>1, <1>2
  <2>6. /\ r \in Seq(Numbers) /\ Len(r) = Len(s) - 1
        /\ \A i \in 1 .. Len(s) - 1 : r[i] = IF i <= p - 1 THEN a[i] ELSE b[i - (p - 1)]
    BY <2>1, <2>2, <2>4, <2>5
  <2>7. ASSUME NEW i \in 1 .. Len(s) - 1 PROVE r[i] = s[at(i)]
    <3>1. CASE i < p
      <4>1. i <= p - 1 /\ i \in 1 .. p - 1
        BY <3>1, <1>1, <1>2
      <4>. QED
        BY <3>1, <4>1, <2>1, <2>6
    <3>2. CASE ~ (i < p)
      <4>1. ~ (i <= p - 1) /\ i - (p - 1) \in 1 .. Len(s) - p /\ p + (i - (p - 1)) = i + 1
        BY <3>2, <1>1, <1>2
      <4>. QED
        BY <3>2, <4>1, <2>2, <2>6
    <3>. QED
      BY <3>1, <3>2
  <2>. QED
    BY <2>6, <2>7
<1>. HIDE DEF r, p
<1>4. DOMAIN r = 1 .. Len(s) - 1
  BY <1>1, <1>3
<1>5. \A i \in 1 .. Len(s) - 1 : at(i) \in 1 .. Len(s) /\ at(i) # p
  BY <1>1, <1>2
<1>6. \A i, j \in 1 .. Len(s) : s[i] = s[j] => i = j
  BY <1>1 DEF OneEach, IsInjective
<1>7. \A i \in 1 .. Len(s) : s[i] \in S
  BY <1>1 DEF OneEach, ToSet
<1>8. IsInjective(r)
  <2>1. ASSUME NEW i \in 1 .. Len(s) - 1, NEW j \in 1 .. Len(s) - 1, r[i] = r[j]
        PROVE  i = j
    <3>1. at(i) = at(j)
      BY <2>1, <1>3, <1>5, <1>6
    <3>. QED
      BY <3>1, <1>1, <1>2
  <2>. QED
    BY <2>1, <1>4 DEF IsInjective
<1>9. ASSUME NEW j \in S \ {k}
      PROVE  \E i \in 1 .. Len(s) - 1 : r[i] = j /\ PosIn(s, j) = at(i)
  <2>1. PosIn(s, j) \in 1 .. Len(s) /\ s[PosIn(s, j)] = j /\ PosIn(s, j) # p
    BY PosProperty, <1>2
  <2>2. CASE PosIn(s, j) < p
    <3>1. PosIn(s, j) \in 1 .. Len(s) - 1 /\ at(PosIn(s, j)) = PosIn(s, j)
      BY <2>1, <2>2, <1>1, <1>2
    <3>. QED
      BY <3>1, <2>1, <1>3
  <2>3. CASE PosIn(s, j) > p
    <3>1. PosIn(s, j) - 1 \in 1 .. Len(s) - 1 /\ at(PosIn(s, j) - 1) = PosIn(s, j)
      BY <2>1, <2>3, <1>1, <1>2
    <3>. QED
      BY <3>1, <2>1, <1>3
  <2>. QED
    BY <2>1, <2>2, <2>3, <1>1, <1>2
<1>10. \A i \in 1 .. Len(s) - 1 : r[i] \in S \ {k}
  BY <1>1, <1>2, <1>3, <1>5, <1>6, <1>7
<1>11. ToSet(r) = S \ {k}
  BY <1>4, <1>9, <1>10 DEF ToSet
<1>12. OneEach(r, S \ {k})
  BY <1>3, <1>8, <1>11 DEF OneEach
<1>13. ASSUME NEW j \in S \ {k}
       PROVE  PosIn(r, j) \in 1 .. Len(s) - 1 /\ PosIn(s, j) = at(PosIn(r, j))
  <2>1. PICK i \in 1 .. Len(s) - 1 : r[i] = j /\ PosIn(s, j) = at(i)
    BY <1>9
  <2>2. i = PosIn(r, j)
    BY <2>1, <1>3, <1>12, PosProperty
  <2>. QED
    BY <2>1, <2>2
<1>14. ASSUME NEW i \in S \ {k}, NEW j \in S \ {k}
       PROVE  PosIn(r, i) < PosIn(r, j) <=> PosIn(s, i) < PosIn(s, j)
  BY <1>13, <1>1, <1>2
<1>. QED
  BY <1>12, <1>14 DEF r, p

-----------------------------------------------------------------------------
(* Type correctness. *)
OrderOK == OneEach(order, DOMAIN d)

LEMMA OrderTyped == TypeOK => OrderOK
BY DEF TypeOK, OrderOK, OneEach

LEMMA NextIsNew ==
    ASSUME TypeOK, NEW n, IsNextNumber(n)
    PROVE  n \in Numbers /\ n \notin DOMAIN d
BY DEF TypeOK, IsNextNumber, Numbers

LEMMA SavedTyped ==
    ASSUME TypeOK, DOMAIN d' \subseteq Numbers, d' \in [DOMAIN d' -> Inode],
           NEW keys, Saved(keys)
    PROVE  DOMAIN disk' \subseteq Numbers /\ disk' \in [DOMAIN disk' -> Inode]
BY DEF TypeOK, Saved

LEMMA ReadBackTyped ==
    ASSUME NEW items, DOMAIN items \subseteq Numbers, items \in [DOMAIN items -> Inode],
           ReadBack(items)
    PROVE  /\ DOMAIN d' \subseteq Numbers /\ d' \in [DOMAIN d' -> Inode]
           /\ order' \in Seq(Numbers) /\ ToSet(order') = DOMAIN d' /\ IsInjective(order')
<1>1. DOMAIN d' = DOMAIN items /\ d' \in [DOMAIN d' -> Inode]
  BY DEF ReadBack, Inode
<1>2. IsFiniteSet(DOMAIN items) /\ Cardinality(DOMAIN items) \in Nat
  <2>1. IsFiniteSet(Numbers)
    <3>1. MaxInode \in Int /\ 3 \in Int
      BY BoundAssumption
    <3>. QED
      BY <3>1, FS_Interval DEF Numbers
  <2>. QED
    BY <2>1, FS_Subset, FS_CardinalityType
<1>. DEFINE n == Cardinality(DOMAIN items)
<1>3. order' \in [1 .. n -> DOMAIN items] /\ IsInjective(order')
  <2>1. order' \in SetToSeqs(DOMAIN items)
    BY DEF ReadBack
  <2>2. /\ order' \in [1 .. n -> DOMAIN items]
        /\ \A i, j \in 1 .. n : i # j => order'[i] # order'[j]
    BY <2>1 DEF SetToSeqs
  <2>3. DOMAIN order' = 1 .. n
    BY <2>2
  <2>. QED
    BY <2>2, <2>3 DEF IsInjective
<1>4. order' \in Seq(Numbers)
  BY <1>2, <1>3
<1>5. Cardinality(1 .. n) = n
  BY <1>2, FS_Interval
<1>6. order' \in Surjection(1 .. n, DOMAIN items)
  <2>1. order' \in Injection(1 .. n, DOMAIN items)
    BY <1>3 DEF Injection
  <2>. QED
    BY <2>1, <1>2, <1>5, FS_Injection
<1>7. ToSet(order') = DOMAIN items
  BY <1>3, <1>6 DEF Surjection, ToSet
<1>. QED
  BY <1>1, <1>3, <1>4, <1>7

LEMMA TypeStep ==
    ASSUME TypeOK, FilesKept, Seconds, [Next]_vars
    PROVE  TypeOK'
<1>. USE DEF OrderOK
<1>o. OrderOK
  BY OrderTyped
<1>1. ASSUME NEW name \in Names, Create(name) PROVE TypeOK'
  <2>1. PICK n \in Numbers :
            /\ IsNextNumber(n)
            /\ d' = With(n, [inode |-> n, name |-> name, listed |-> TRUE,
                             linked |-> TRUE, data |-> "none", offsets |-> FALSE])
            /\ order' = Append(order, n)
            /\ Commits(pending \union {n})
            /\ made' = made \union {n}
            /\ listing' = [listing EXCEPT !.may = IF listing.at = "open" THEN @ \union {n} ELSE @]
    BY <1>1 DEF Create
  <2>2. n \notin DOMAIN d
    BY <2>1, NextIsNew
  <2>3. /\ DOMAIN d' = DOMAIN d \union {n} /\ DOMAIN d' \subseteq Numbers
        /\ d' \in [DOMAIN d' -> Inode]
    BY <2>1 DEF TypeOK, With, Inode
  <2>4. OneEach(order', DOMAIN d')
    <3>1. OneEach(Append(order, n), DOMAIN d \union {n})
      BY <1>o, <2>2, AppendOneEach
    <3>. QED
      BY <3>1, <2>1, <2>3
  <2>5. DOMAIN disk' \subseteq Numbers /\ disk' \in [DOMAIN disk' -> Inode]
    BY <2>1, <2>3, SavedTyped DEF Commits
  <2>6. listing' \in Listing
    BY <2>1 DEF TypeOK, Listing
  <2>. QED
    BY <1>1, <2>1, <2>3, <2>4, <2>5, <2>6 DEF TypeOK, OneEach, Create, Commits
<1>2. ASSUME NEW f \in Files, Write(f) PROVE TypeOK'
  <2>1. DOMAIN d' = DOMAIN d /\ d' \in [DOMAIN d' -> Inode]
    BY <1>2 DEF TypeOK, Write, Files, Inode
  <2>. QED
    BY <1>2, <2>1 DEF TypeOK, Write, Files
<1>3. ASSUME NEW f \in Files, FirstRead(f) PROVE TypeOK'
  <2>1. DOMAIN d' = DOMAIN d /\ d' \in [DOMAIN d' -> Inode] /\ f \in DOMAIN d
    BY <1>3 DEF TypeOK, FirstRead, Files, Inode
  <2>2. OneEach(OrderWithout(f), DOMAIN d \ {f})
    BY <1>o, <2>1, RemoveOneEach DEF OrderWithout, Pos, PosIn
  <2>3. OneEach(order', DOMAIN d')
    <3>1. f \in Numbers /\ f \notin DOMAIN d \ {f} /\ DOMAIN d = (DOMAIN d \ {f}) \union {f}
      BY <2>1 DEF TypeOK
    <3>. QED
      BY <3>1, <2>1, <2>2, <1>3, AppendOneEach DEF FirstRead
  <2>4. DOMAIN disk' \subseteq Numbers /\ disk' \in [DOMAIN disk' -> Inode]
    BY <1>3, <2>1, SavedTyped DEF FirstRead, TypeOK
  <2>. QED
    BY <1>3, <2>1, <2>3, <2>4 DEF TypeOK, OneEach, FirstRead, Disturb, NoListing, Listing
<1>4. ASSUME NEW f \in Files, TruncateStart(f) PROVE TypeOK'
  <2>. DEFINE temp == [d[f] EXCEPT !.data = "part", !.offsets = FALSE]
  <2>1. PICK n \in Numbers :
            /\ IsNextNumber(n)
            /\ truncs' = truncs \union {[file |-> f, temp |-> n]}
            /\ IF Unread(f)
               THEN /\ d' = [With(n, temp) EXCEPT ![f].offsets = TRUE]
                    /\ order' = OrderWithout(f) \o <<n, f>>
                    /\ Commits(pending \union {f, n})
               ELSE /\ d' = With(n, temp)
                    /\ order' = Append(order, n)
                    /\ pending' = pending \union {n}
                    /\ UNCHANGED disk
    BY <1>4 DEF TruncateStart
  <2>2. n \notin DOMAIN d /\ f \in DOMAIN d /\ f \in Numbers /\ f # n
    BY <2>1, NextIsNew DEF Files, TypeOK
  <2>3. temp \in Inode
    BY <2>2 DEF TypeOK, Inode
  <2>. HIDE DEF temp
  <2>4. With(n, temp) \in [DOMAIN d \union {n} -> Inode]
    BY <2>2, <2>3 DEF With, TypeOK
  <2>5. /\ DOMAIN d' = DOMAIN d \union {n} /\ DOMAIN d' \subseteq Numbers
        /\ d' \in [DOMAIN d' -> Inode]
    <3>1. [With(n, temp) EXCEPT ![f].offsets = TRUE] \in [DOMAIN d \union {n} -> Inode]
      BY <2>2, <2>4 DEF Inode
    <3>. QED
      BY <3>1, <2>1, <2>4 DEF TypeOK
  <2>6. OneEach(order', DOMAIN d')
    <3>1. CASE Unread(f)
      <4>1. OneEach(OrderWithout(f), DOMAIN d \ {f})
        BY <1>o, <2>2, RemoveOneEach DEF OrderWithout, Pos, PosIn
      <4>2. OneEach(Append(OrderWithout(f), n), (DOMAIN d \ {f}) \union {n})
        BY <4>1, <2>2, AppendOneEach
      <4>3. OneEach(Append(Append(OrderWithout(f), n), f), ((DOMAIN d \ {f}) \union {n}) \union {f})
        BY <4>2, <2>2, AppendOneEach
      <4>4. OrderWithout(f) \o <<n, f>> = Append(Append(OrderWithout(f), n), f)
        BY <4>1, <2>2 DEF OneEach
      <4>5. ((DOMAIN d \ {f}) \union {n}) \union {f} = DOMAIN d'
        BY <2>2, <2>5
      <4>. QED
        BY <3>1, <2>1, <4>3, <4>4, <4>5
    <3>2. CASE ~ Unread(f)
      <4>1. OneEach(Append(order, n), DOMAIN d \union {n})
        BY <1>o, <2>2, AppendOneEach
      <4>. QED
        BY <3>2, <4>1, <2>1, <2>5
    <3>. QED
      BY <3>1, <3>2
  <2>7. DOMAIN disk' \subseteq Numbers /\ disk' \in [DOMAIN disk' -> Inode]
    <3>1. CASE Unread(f)
      BY <3>1, <2>1, <2>5, SavedTyped DEF Commits
    <3>2. CASE ~ Unread(f)
      BY <3>2, <2>1 DEF TypeOK
    <3>. QED
      BY <3>1, <3>2
  <2>8. pending' \subseteq DOMAIN d'
    BY <2>1, <2>5 DEF TypeOK, Commits
  <2>9. truncs' \subseteq [file : DOMAIN d', temp : DOMAIN d']
    BY <2>1, <2>2, <2>5 DEF TypeOK
  <2>. QED
    BY <1>4, <2>5, <2>6, <2>7, <2>8, <2>9
       DEF TypeOK, OneEach, TruncateStart, Disturb, NoListing, Listing
<1>5. ASSUME NEW t \in truncs, TruncateCopy(t) PROVE TypeOK'
  BY <1>5 DEF TypeOK, TruncateCopy
<1>6. ASSUME NEW t \in truncs, TruncateEnd(t) PROVE TypeOK'
  <2>1. /\ t.file \in DOMAIN d /\ t.temp \in DOMAIN d /\ t.file # t.temp
        /\ \A u \in truncs \ {t} : u.temp # t.temp /\ u.file # t.temp
    BY <1>6 DEF TypeOK, Seconds
  <2>2. PICK data \in {"none", "all"} : d' = Without(Moved(t, data), {t.temp})
    BY <1>6 DEF TruncateEnd
  <2>3. Moved(t, data) \in [DOMAIN d -> Inode]
    BY <2>1 DEF Moved, TypeOK, Inode
  <2>4. DOMAIN d' = DOMAIN d \ {t.temp} /\ d' \in [DOMAIN d' -> Inode]
    BY <2>2, <2>3 DEF Without
  <2>5. OneEach(order', DOMAIN d')
    BY <1>6, <1>o, <2>1, <2>4, RemoveOneEach DEF TruncateEnd, OrderWithout, Pos, PosIn
  <2>6. DOMAIN disk' \subseteq Numbers /\ disk' \in [DOMAIN disk' -> Inode]
    BY <1>6 DEF TypeOK, TruncateEnd, Without
  <2>7. truncs' \subseteq [file : DOMAIN d', temp : DOMAIN d']
    BY <1>6, <2>1, <2>4 DEF TypeOK, TruncateEnd
  <2>8. pending' \subseteq DOMAIN d'
    BY <1>6, <2>1, <2>4 DEF TypeOK, TruncateEnd
  <2>. QED
    BY <1>6, <2>4, <2>5, <2>6, <2>7, <2>8
       DEF TypeOK, OneEach, TruncateEnd, Disturb, NoListing, Listing
<1>7. ASSUME NEW t \in truncs, TruncateFails(t) PROVE TypeOK'
  BY <1>7 DEF TypeOK, TruncateFails, Disturb, NoListing, Listing
<1>8. ASSUME NEW name \in Names, Unlink(name) PROVE TypeOK'
  <2>1. PICK f \in Files \intersect Answer(name) :
            /\ d' = [d EXCEPT ![f] = [@ EXCEPT !.listed = FALSE, !.linked = FALSE]]
            /\ Commits(pending \union {f})
    BY <1>8 DEF Unlink
  <2>2. DOMAIN d' = DOMAIN d /\ d' \in [DOMAIN d' -> Inode]
    <3>1. [d[f] EXCEPT !.listed = FALSE, !.linked = FALSE] \in Inode
      BY DEF TypeOK, Files, Inode
    <3>. QED
      BY <2>1, <3>1 DEF TypeOK
  <2>3. DOMAIN disk' \subseteq Numbers /\ disk' \in [DOMAIN disk' -> Inode]
    BY <2>1, <2>2, SavedTyped DEF Commits, TypeOK
  <2>. QED
    BY <1>8, <2>1, <2>2, <2>3 DEF TypeOK, Unlink, Commits, Disturb, NoListing, Listing
<1>9. ASSUME NEW old \in Names, NEW new \in Names, Rename(old, new) PROVE TypeOK'
  <2>1. PICK f \in Files \intersect Answer(old) :
            /\ d' = [d EXCEPT ![f].name = new]
            /\ Commits(pending \union {f})
    BY <1>9 DEF Rename
  <2>2. DOMAIN d' = DOMAIN d /\ d' \in [DOMAIN d' -> Inode]
    BY <2>1 DEF TypeOK, Files, Inode
  <2>3. DOMAIN disk' \subseteq Numbers /\ disk' \in [DOMAIN disk' -> Inode]
    BY <2>1, <2>2, SavedTyped DEF Commits, TypeOK
  <2>. QED
    BY <1>9, <2>1, <2>2, <2>3 DEF TypeOK, Rename, Commits
<1>10. ASSUME NEW f \in Files, RemoveFile(f) PROVE TypeOK'
  <2>1. DOMAIN d' = DOMAIN d \ {f} /\ d' \in [DOMAIN d' -> Inode] /\ f \in DOMAIN d
    BY <1>10 DEF TypeOK, RemoveFile, Without, Files
  <2>2. OneEach(order', DOMAIN d')
    BY <1>10, <1>o, <2>1, RemoveOneEach DEF RemoveFile, OrderWithout, Pos, PosIn
  <2>3. DOMAIN disk' \subseteq Numbers /\ disk' \in [DOMAIN disk' -> Inode]
    BY <1>10, <2>1, SavedTyped DEF RemoveFile, TypeOK
  <2>4. truncs' \subseteq [file : DOMAIN d', temp : DOMAIN d']
    <3>1. \A t \in truncs : t.file # f /\ t.temp # f
      BY <1>10 DEF RemoveFile, Locked, Seconds, Files
    <3>. QED
      BY <1>10, <3>1, <2>1 DEF TypeOK, RemoveFile
  <2>5. listing' \in Listing
    BY <1>10 DEF TypeOK, RemoveFile, Disturb, NoListing, Listing
  <2>. QED
    BY <1>10, <2>1, <2>2, <2>3, <2>4, <2>5 DEF TypeOK, OneEach, RemoveFile
<1>11. ASSUME Commit PROVE TypeOK'
  <2>1. DOMAIN disk' \subseteq Numbers /\ disk' \in [DOMAIN disk' -> Inode]
    BY <1>11, SavedTyped DEF Commit, Commits, TypeOK
  <2>. QED
    BY <1>11, <2>1 DEF TypeOK, Commit, Commits
<1>12. ASSUME OpenDir PROVE TypeOK'
  <2>1. listing' \in Listing
    BY <1>12 DEF TypeOK, OpenDir, Listing, Files
  <2>. QED
    BY <1>12, <2>1 DEF TypeOK, OpenDir
<1>13. ASSUME Readdir PROVE TypeOK'
  <2>1. listing' \in Listing
    <3>1. ASSUME NEW k \in Entries,
                 listing' = [listing EXCEPT !.off = @ + 1, !.got = @ \union {d[k].inode}]
          PROVE  listing' \in Listing
      <4>1. d[k].inode \in Numbers
        BY DEF TypeOK, Entries, Inode
      <4>2. listing.off + 1 \in Nat /\ listing.got \union {d[k].inode} \in SUBSET Numbers
        BY <4>1 DEF TypeOK, Listing
      <4>3. listing \in Listing
        BY DEF TypeOK
      <4>. QED
        BY ONLY <3>1, <4>2, <4>3 DEF Listing
    <3>2. ASSUME listing' = [listing EXCEPT !.at = "end"] PROVE listing' \in Listing
      BY <3>2 DEF TypeOK, Listing
    <3>. QED
      BY <1>13, <3>1, <3>2 DEF Readdir
  <2>. QED
    BY <1>13, <2>1 DEF TypeOK, Readdir
<1>14. ASSUME Restart PROVE TypeOK'
  <2>1. /\ DOMAIN d' \subseteq Numbers /\ d' \in [DOMAIN d' -> Inode]
        /\ order' \in Seq(Numbers) /\ ToSet(order') = DOMAIN d' /\ IsInjective(order')
    BY <1>14, ReadBackTyped DEF Restart, TypeOK
  <2>2. /\ pending' = {} /\ truncs' = {} /\ dirty' \in BOOLEAN /\ listing' \in Listing
    BY <1>14 DEF Restart, ReadBack, TypeOK, Disturb, NoListing, Listing
  <2>. QED
    BY <1>14, <2>1, <2>2 DEF TypeOK, Restart
<1>15. ASSUME NEW f \in Files, KilledInFirstRead(f) PROVE TypeOK'
  <2>1. DOMAIN disk' \subseteq Numbers /\ disk' \in [DOMAIN disk' -> Inode]
    BY <1>15 DEF KilledInFirstRead, Without, TypeOK
  <2>2. /\ DOMAIN d' \subseteq Numbers /\ d' \in [DOMAIN d' -> Inode]
        /\ order' \in Seq(Numbers) /\ ToSet(order') = DOMAIN d' /\ IsInjective(order')
    BY <1>15, <2>1, ReadBackTyped DEF KilledInFirstRead
  <2>3. /\ pending' = {} /\ truncs' = {} /\ dirty' \in BOOLEAN /\ listing' \in Listing
    BY <1>15 DEF KilledInFirstRead, ReadBack, TypeOK, Disturb, NoListing, Listing
  <2>. QED
    BY <1>15, <2>1, <2>2, <2>3 DEF TypeOK, KilledInFirstRead
<1>16. CASE UNCHANGED vars
  BY <1>16 DEF TypeOK, vars
<1>. QED
  BY <1>1, <1>2, <1>3, <1>4, <1>5, <1>6, <1>7, <1>8, <1>9, <1>10, <1>11, <1>12,
     <1>13, <1>14, <1>15, <1>16 DEF Next

-----------------------------------------------------------------------------
(* The inode a name leads to. *)
LEMMA Smallest ==
    ASSUME NEW T, T \subseteq Nat, T # {}
    PROVE  \E x \in T : \A y \in T : x <= y
<1>1. PICK x \in T : \A y \in T : <<y, x>> \notin OpToRel(<, Nat)
  BY NatLessThanWellFounded, WFMin
<1>2. \A y \in T : ~ (y < x)
  BY <1>1 DEF OpToRel
<1>. QED
  BY <1>2

LEMMA PosTyped ==
    ASSUME TypeOK, NEW k \in DOMAIN d
    PROVE  Pos(k) \in Nat /\ Pos(k) \in DOMAIN order /\ order[Pos(k)] = k
<1>1. Pos(k) = PosIn(order, k)
  BY DEF Pos, PosIn
<1>2. OneEach(order, DOMAIN d)
  BY OrderTyped DEF OrderOK
<1>3. PosIn(order, k) \in 1 .. Len(order) /\ order[PosIn(order, k)] = k
  BY <1>2, PosProperty
<1>. QED
  BY <1>1, <1>2, <1>3 DEF OneEach

LEMMA FirstExists ==
    ASSUME TypeOK, NEW name, NEW k \in DOMAIN d, Named(k, name)
    PROVE  First(name) # {}
<1>. DEFINE T == {Pos(j) : j \in {i \in DOMAIN d : Named(i, name)}}
<1>1. \A j \in DOMAIN d : Pos(j) \in Nat
  BY PosTyped
<1>2. T \subseteq Nat /\ T # {}
  BY <1>1
<1>. HIDE DEF T
<1>3. PICK x \in T : \A y \in T : x <= y
  BY <1>2, Smallest
<1>. QED
  BY <1>3 DEF T, First

(* Until something went wrong every listed inode answers for a file of its  *)
(* name.                                                                    *)
LEMMA NameSound ==
    ASSUME TypeOK, Table, ~ dirty, NEW name, NEW k \in DOMAIN d, Named(k, name)
    PROVE  d[k].inode \in made /\ Named(d[k].inode, name)
<1>1. CASE k \in made
  BY <1>1 DEF Table, Own
<1>2. CASE k \notin made
  <2>1. PICK t \in truncs : t.temp = k
    BY <1>2 DEF Table, Exact
  <2>. QED
    BY <2>1 DEF Table, Seconds, Named
<1>. QED
  BY <1>1, <1>2

LEMMA AnswerUnique ==
    ASSUME TypeOK, Table, ~ dirty, NEW f \in made, d[f].listed
    PROVE  Answer(d[f].name) = {f}
<1>. DEFINE name == d[f].name
<1>1. f \in DOMAIN d /\ Named(f, name)
  BY DEF Table, FilesKept, Named
<1>. HIDE DEF name
<1>2. First(name) # {} /\ First(name) \subseteq DOMAIN d
  BY <1>1, FirstExists DEF First
<1>3. ASSUME NEW k \in First(name) PROVE d[k].inode = f
  <2>1. k \in DOMAIN d /\ Named(k, name)
    BY DEF First
  <2>2. d[k].inode \in made /\ Named(d[k].inode, name)
    BY <2>1, NameSound
  <2>. QED
    BY <2>2, <1>1 DEF Table, Exact, Named
<1>. QED
  BY <1>1, <1>2, <1>3 DEF Answer, name

LEMMA NoAnswer ==
    ASSUME TypeOK, Table, ~ dirty, NEW name, Answer(name) = {}, NEW f \in made
    PROVE  ~ Named(f, name)
<1>1. SUFFICES ASSUME Named(f, name) PROVE FALSE
  OBVIOUS
<1>2. d[f].listed /\ d[f].name = name
  BY <1>1 DEF Named
<1>. QED
  BY <1>2, AnswerUnique

-----------------------------------------------------------------------------
(* What the steps keep of the table. *)
LEMMA SavedFields ==
    ASSUME NEW keys, Saved(keys)
    PROVE  /\ DOMAIN disk' = (DOMAIN disk \ keys) \union (DOMAIN d' \intersect keys)
           /\ \A k \in DOMAIN disk' : disk'[k] = IF k \in keys THEN d'[k] ELSE disk[k]
BY DEF Saved

LEMMA CreateTable ==
    ASSUME TypeOK, Table, NEW name \in Names, Create(name)
    PROVE  Table'
<1>. DEFINE new(n) == [inode |-> n, name |-> name, listed |-> TRUE,
                       linked |-> TRUE, data |-> "none", offsets |-> FALSE]
<1>1. PICK n \in Numbers :
            /\ IsNextNumber(n)
            /\ d' = With(n, new(n))
            /\ Saved(pending \union {n})
            /\ made' = made \union {n}
  BY DEF Create, Commits
<1>2. n \notin DOMAIN d
  BY <1>1, NextIsNew
<1>3. /\ DOMAIN d' = DOMAIN d \union {n} /\ d'[n] = new(n)
      /\ \A k \in DOMAIN d : d'[k] = d[k]
  BY <1>1, <1>2 DEF With
<1>4. /\ new(n).inode = n /\ new(n).name = name /\ new(n).listed /\ new(n).data = "none"
  OBVIOUS
<1>. HIDE DEF new
<1>5. /\ DOMAIN disk' = (DOMAIN disk \ (pending \union {n})) \union (DOMAIN d' \intersect (pending \union {n}))
      /\ \A k \in DOMAIN disk' : disk'[k] = IF k \in pending \union {n} THEN d'[k] ELSE disk[k]
  BY <1>1, SavedFields
<1>6. UNCHANGED <<truncs, dirty>> /\ Answer(name) = {} /\ pending \subseteq DOMAIN d
  BY DEF Create, TypeOK
<1>7. FilesKept'
  BY <1>1, <1>3, <1>5, <1>6 DEF Table, FilesKept
<1>8. FileWhole'
  BY <1>3, <1>4, <1>5, <1>6 DEF Table, FileWhole
<1>9. Own'
  BY <1>1, <1>2, <1>3, <1>4, <1>5, <1>6 DEF Table, Own
<1>10. Seconds'
  BY <1>1, <1>2, <1>3, <1>6 DEF Table, Seconds, TypeOK, FilesKept
<1>11. Exact'
  <2>1. SUFFICES ASSUME ~ dirty PROVE Exact'
    BY <1>6 DEF Exact
  <2>2. \A k \in DOMAIN d' : k \in made' \/ \E t \in truncs' : t.temp = k
    BY <2>1, <1>1, <1>3, <1>6 DEF Table, Exact
  <2>3. \A k \in DOMAIN disk' : SameOnDisk(k)'
    BY <2>1, <1>1, <1>2, <1>3, <1>5, <1>6 DEF Table, Exact, SameOnDisk
  <2>4. \A f \in made : ~ Named(f, name)
    BY <2>1, <1>6, NoAnswer
  <2>5. \A f, g \in made' : d'[f].listed /\ d'[g].listed /\ d'[f].name = d'[g].name => f = g
    BY <2>1, <2>4, <1>1, <1>3, <1>4 DEF Table, Exact, Named, FilesKept
  <2>. QED
    BY <2>2, <2>3, <2>5 DEF Exact
<1>. QED
  BY <1>7, <1>8, <1>9, <1>10, <1>11 DEF Table

(* A step that changes of one file only its data and offsets. *)
LEMMA WriteTable ==
    ASSUME TypeOK, Table, NEW f \in Files, Write(f)
    PROVE  Table'
<1>1. f \in DOMAIN d /\ f \in made
  BY DEF Files
<1>2. /\ DOMAIN d' = DOMAIN d
      /\ \A k \in DOMAIN d : /\ d'[k].inode = d[k].inode /\ d'[k].name = d[k].name
                             /\ d'[k].listed = d[k].listed
      /\ \A k \in DOMAIN d : d'[k].data = IF k = f THEN "all" ELSE d[k].data
  BY <1>1 DEF Write, TypeOK, Inode
<1>3. UNCHANGED <<disk, truncs, made, dirty>>
  BY DEF Write
<1>4. FilesKept' /\ FileWhole' /\ Own'
  BY <1>2, <1>3 DEF Table, FilesKept, FileWhole, Own
<1>5. Seconds'
  BY <1>2, <1>3 DEF Table, Seconds, TypeOK
<1>6. Exact'
  BY <1>2, <1>3 DEF Table, Exact, SameOnDisk, FilesKept
<1>. QED
  BY <1>4, <1>5, <1>6 DEF Table

LEMMA FirstReadTable ==
    ASSUME TypeOK, Table, NEW f \in Files, FirstRead(f)
    PROVE  Table'
<1>1. f \in DOMAIN d /\ f \in made
  BY DEF Files
<1>2. /\ DOMAIN d' = DOMAIN d
      /\ \A k \in DOMAIN d : /\ d'[k].inode = d[k].inode /\ d'[k].name = d[k].name
                             /\ d'[k].listed = d[k].listed /\ d'[k].data = d[k].data
  BY <1>1 DEF FirstRead, TypeOK, Inode
<1>3. UNCHANGED <<truncs, made, dirty>> /\ pending \subseteq DOMAIN d
  BY DEF FirstRead, TypeOK
<1>4. /\ DOMAIN disk' = (DOMAIN disk \ (pending \union {f})) \union (DOMAIN d' \intersect (pending \union {f}))
      /\ \A k \in DOMAIN disk' : disk'[k] = IF k \in pending \union {f} THEN d'[k] ELSE disk[k]
  BY SavedFields DEF FirstRead
<1>5. FilesKept' /\ FileWhole' /\ Own'
  BY <1>1, <1>2, <1>3, <1>4 DEF Table, FilesKept, FileWhole, Own
<1>6. Seconds'
  BY <1>2, <1>3 DEF Table, Seconds, TypeOK
<1>7. Exact'
  BY <1>1, <1>2, <1>3, <1>4 DEF Table, Exact, SameOnDisk, FilesKept
<1>. QED
  BY <1>5, <1>6, <1>7 DEF Table

LEMMA TruncateStartTable ==
    ASSUME TypeOK, Table, NEW f \in Files, TruncateStart(f)
    PROVE  Table'
<1>. DEFINE temp == [d[f] EXCEPT !.data = "part", !.offsets = FALSE]
<1>1. PICK n \in Numbers :
          /\ IsNextNumber(n)
          /\ truncs' = truncs \union {[file |-> f, temp |-> n]}
          /\ IF Unread(f)
             THEN /\ d' = [With(n, temp) EXCEPT ![f].offsets = TRUE]
                  /\ Commits(pending \union {f, n})
             ELSE /\ d' = With(n, temp)
                  /\ UNCHANGED disk
  BY DEF TruncateStart
<1>2. n \notin DOMAIN d /\ f \in DOMAIN d /\ f \in made /\ f # n
  BY <1>1, NextIsNew DEF Files
<1>3. /\ temp \in Inode /\ temp.inode = d[f].inode /\ temp.name = d[f].name
      /\ temp.listed = d[f].listed
  BY <1>2 DEF TypeOK, Inode
<1>. HIDE DEF temp
<1>4. /\ With(n, temp) \in [DOMAIN d \union {n} -> Inode]
      /\ With(n, temp)[n] = temp
      /\ \A k \in DOMAIN d : With(n, temp)[k] = d[k]
  BY <1>2, <1>3 DEF TypeOK, With
<1>5. /\ DOMAIN d' = DOMAIN d \union {n}
      /\ d'[n].inode = f /\ d'[n].name = d[f].name /\ d'[n].listed = d[f].listed
      /\ \A k \in DOMAIN d : /\ d'[k].inode = d[k].inode /\ d'[k].name = d[k].name
                             /\ d'[k].listed = d[k].listed /\ d'[k].data = d[k].data
  <2>1. d[f].inode = f
    BY <1>2 DEF Table, Own
  <2>2. CASE Unread(f)
    <3>1. d' = [With(n, temp) EXCEPT ![f] = [With(n, temp)[f] EXCEPT !.offsets = TRUE]]
      BY <2>2, <1>1
    <3>2. [With(n, temp)[f] EXCEPT !.offsets = TRUE] = [d[f] EXCEPT !.offsets = TRUE]
      BY <1>2, <1>4
    <3>. QED
      BY <3>1, <3>2, <2>1, <1>2, <1>3, <1>4 DEF TypeOK, Inode
  <2>3. CASE ~ Unread(f)
    BY <2>1, <2>3, <1>1, <1>2, <1>3, <1>4
  <2>. QED
    BY <2>2, <2>3
<1>6. /\ DOMAIN disk' \subseteq DOMAIN disk \union DOMAIN d' /\ DOMAIN disk \subseteq DOMAIN disk'
      /\ \A k \in DOMAIN disk' : (disk'[k] = d'[k] /\ k \in DOMAIN d') \/ (disk'[k] = disk[k] /\ k \in DOMAIN disk)
  <2>1. CASE Unread(f)
    <3>1. /\ DOMAIN disk' = (DOMAIN disk \ (pending \union {f, n})) \union (DOMAIN d' \intersect (pending \union {f, n}))
          /\ \A k \in DOMAIN disk' : disk'[k] = IF k \in pending \union {f, n} THEN d'[k] ELSE disk[k]
      BY <2>1, <1>1, SavedFields DEF Commits
    <3>. QED
      BY <3>1, <1>2, <1>5 DEF TypeOK
  <2>2. CASE ~ Unread(f)
    BY <2>2, <1>1
  <2>. QED
    BY <2>1, <2>2
<1>7. UNCHANGED <<made, dirty>>
  BY DEF TruncateStart
<1>8. ~ Locked(f)
  BY DEF TruncateStart
<1>9. FilesKept'
  BY <1>5, <1>6, <1>7 DEF Table, FilesKept
<1>10. FileWhole'
  BY <1>2, <1>5, <1>6 DEF Table, FileWhole
<1>11. Own'
  <2>1. n \notin made
    BY <1>2 DEF Table, FilesKept
  <2>2. \A k \in DOMAIN d' : d'[k].inode = k <=> k \in made
    BY <2>1, <1>2, <1>5 DEF Table, Own
  <2>. QED
    BY <2>2, <1>6, <1>7 DEF Table, Own
<1>12. Seconds'
  <2>. DEFINE new == [file |-> f, temp |-> n]
  <2>1. \A t \in truncs : t.file # f /\ t.temp # n /\ t.file \in DOMAIN d /\ t.temp \in DOMAIN d
    BY <1>2, <1>8 DEF Locked, TypeOK
  <2>2. n \notin made
    BY <1>2 DEF Table, FilesKept
  <2>3. \A t \in truncs' : t = new \/ t \in truncs
    BY <1>1
  <2>4. new.file = f /\ new.temp = n
    OBVIOUS
  <2>. HIDE DEF new
  <2>5. ASSUME NEW t \in truncs'
        PROVE  /\ t.file \in made /\ t.temp \notin made
               /\ d'[t.temp].inode = t.file
               /\ d'[t.temp].name = d'[t.file].name
               /\ d'[t.temp].listed = d'[t.file].listed
    BY <2>1, <2>2, <2>3, <2>4, <1>2, <1>5 DEF Table, Seconds
  <2>6. \A t, u \in truncs' : t.file = u.file \/ t.temp = u.temp => t = u
    BY <2>1, <2>3, <2>4 DEF Table, Seconds
  <2>. QED
    BY <2>5, <2>6, <1>7 DEF Seconds
<1>13. Exact'
  <2>1. SUFFICES ASSUME ~ dirty PROVE Exact'
    BY <1>7 DEF Exact
  <2>2. \A k \in DOMAIN d' : k \in made' \/ \E t \in truncs' : t.temp = k
    <3>1. [file |-> f, temp |-> n] \in truncs' /\ [file |-> f, temp |-> n].temp = n
      BY <1>1
    <3>2. \A k \in DOMAIN d : k \in made \/ \E t \in truncs : t.temp = k
      BY <2>1 DEF Table, Exact
    <3>. QED
      BY <3>1, <3>2, <1>1, <1>5, <1>7
  <2>3. \A k \in DOMAIN disk' : SameOnDisk(k)'
    BY <2>1, <1>5, <1>6 DEF Table, Exact, SameOnDisk
  <2>4. \A g, h \in made' : d'[g].listed /\ d'[h].listed /\ d'[g].name = d'[h].name => g = h
    BY <2>1, <1>5, <1>7 DEF Table, Exact, FilesKept
  <2>. QED
    BY <2>2, <2>3, <2>4 DEF Exact
<1>. QED
  BY <1>9, <1>10, <1>11, <1>12, <1>13 DEF Table

LEMMA TruncateEndTable ==
    ASSUME TypeOK, Table, NEW t \in truncs, TruncateEnd(t)
    PROVE  Table'
<1>1. /\ t.file \in DOMAIN d /\ t.temp \in DOMAIN d /\ t.file # t.temp
      /\ t.file \in made /\ t.temp \notin made
      /\ d[t.temp].inode = t.file /\ d[t.temp].name = d[t.file].name
      /\ d[t.temp].listed = d[t.file].listed /\ d[t.file].inode = t.file
  BY DEF Table, TypeOK, Seconds, Own
<1>2. PICK data \in {"none", "all"} : d' = Without(Moved(t, data), {t.temp})
  BY DEF TruncateEnd
<1>3. /\ DOMAIN Moved(t, data) = DOMAIN d
      /\ Moved(t, data)[t.file].inode = t.file
      /\ Moved(t, data)[t.file].name = d[t.temp].name
      /\ Moved(t, data)[t.file].listed = d[t.temp].listed
      /\ Moved(t, data)[t.file].data = data
      /\ \A k \in DOMAIN d \ {t.file} : Moved(t, data)[k] = d[k]
  BY <1>1 DEF Moved, TypeOK, Inode
<1>4. /\ DOMAIN d' = DOMAIN d \ {t.temp}
      /\ \A k \in DOMAIN d' : /\ d'[k].inode = d[k].inode /\ d'[k].name = d[k].name
                              /\ d'[k].listed = d[k].listed
                              /\ d'[k].data = IF k = t.file THEN data ELSE d[k].data
  BY <1>1, <1>2, <1>3 DEF Without
<1>5. /\ DOMAIN disk' = DOMAIN disk \ {t.temp}
      /\ \A k \in DOMAIN disk' : disk'[k] = disk[k]
  BY DEF TruncateEnd, Without
<1>6. truncs' = truncs \ {t} /\ UNCHANGED <<made, dirty>>
  BY DEF TruncateEnd
<1>7. \A u \in truncs' : /\ u.temp # t.temp /\ u.file # t.file
                         /\ u.temp # t.file /\ u.file # t.temp
                         /\ u.temp \in DOMAIN d /\ u.file \in DOMAIN d
  BY <1>1, <1>6 DEF Table, Seconds, TypeOK
<1>8. FilesKept' /\ FileWhole' /\ Own'
  BY <1>1, <1>4, <1>5, <1>6 DEF Table, FilesKept, FileWhole, Own
<1>9. Seconds'
  BY <1>4, <1>6, <1>7 DEF Table, Seconds
<1>10. Exact'
  BY <1>1, <1>4, <1>5, <1>6 DEF Table, Exact, SameOnDisk, FilesKept
<1>. QED
  BY <1>8, <1>9, <1>10 DEF Table

LEMMA UnlinkTable ==
    ASSUME TypeOK, Table, NEW name \in Names, Unlink(name)
    PROVE  Table'
<1>1. PICK f \in Files \intersect Answer(name) :
          /\ ~ Locked(f)
          /\ d' = [d EXCEPT ![f] = [@ EXCEPT !.listed = FALSE, !.linked = FALSE]]
          /\ Saved(pending \union {f})
  BY DEF Unlink, Commits
<1>2. f \in DOMAIN d /\ f \in made
  BY DEF Files
<1>3. /\ DOMAIN d' = DOMAIN d
      /\ \A k \in DOMAIN d : /\ d'[k].inode = d[k].inode /\ d'[k].name = d[k].name
                             /\ d'[k].data = d[k].data
      /\ ~ d'[f].listed
      /\ \A k \in DOMAIN d : k # f => d'[k].listed = d[k].listed
  BY <1>1, <1>2 DEF TypeOK, Inode
<1>4. UNCHANGED <<truncs, made, dirty>> /\ pending \subseteq DOMAIN d
  BY DEF Unlink, TypeOK
<1>5. /\ DOMAIN disk' = (DOMAIN disk \ (pending \union {f})) \union (DOMAIN d' \intersect (pending \union {f}))
      /\ \A k \in DOMAIN disk' : disk'[k] = IF k \in pending \union {f} THEN d'[k] ELSE disk[k]
  BY <1>1, SavedFields
<1>6. FilesKept' /\ FileWhole' /\ Own'
  BY <1>2, <1>3, <1>4, <1>5 DEF Table, FilesKept, FileWhole, Own
<1>7. Seconds'
  <2>1. \A t \in truncs : t.file # f /\ t.temp # f /\ t.file \in DOMAIN d /\ t.temp \in DOMAIN d
    BY <1>1, <1>2 DEF Locked, Table, Seconds, TypeOK
  <2>. QED
    BY <2>1, <1>3, <1>4 DEF Table, Seconds
<1>8. Exact'
  BY <1>2, <1>3, <1>4, <1>5 DEF Table, Exact, SameOnDisk, FilesKept
<1>. QED
  BY <1>6, <1>7, <1>8 DEF Table

LEMMA RenameTable ==
    ASSUME TypeOK, Table, NEW old \in Names, NEW new \in Names, Rename(old, new)
    PROVE  Table'
<1>1. PICK f \in Files \intersect Answer(old) :
          /\ ~ Locked(f)
          /\ d' = [d EXCEPT ![f].name = new]
          /\ Saved(pending \union {f})
  BY DEF Rename, Commits
<1>2. f \in DOMAIN d /\ f \in made
  BY DEF Files
<1>3. /\ DOMAIN d' = DOMAIN d
      /\ \A k \in DOMAIN d : /\ d'[k].inode = d[k].inode /\ d'[k].listed = d[k].listed
                             /\ d'[k].data = d[k].data
                             /\ d'[k].name = IF k = f THEN new ELSE d[k].name
  BY <1>1, <1>2 DEF TypeOK, Inode
<1>4. UNCHANGED <<truncs, made, dirty>> /\ pending \subseteq DOMAIN d /\ Answer(new) = {}
  BY DEF Rename, TypeOK
<1>5. /\ DOMAIN disk' = (DOMAIN disk \ (pending \union {f})) \union (DOMAIN d' \intersect (pending \union {f}))
      /\ \A k \in DOMAIN disk' : disk'[k] = IF k \in pending \union {f} THEN d'[k] ELSE disk[k]
  BY <1>1, SavedFields
<1>6. FilesKept' /\ FileWhole' /\ Own'
  BY <1>2, <1>3, <1>4, <1>5 DEF Table, FilesKept, FileWhole, Own
<1>7. Seconds'
  <2>1. \A t \in truncs : t.file # f /\ t.temp # f /\ t.file \in DOMAIN d /\ t.temp \in DOMAIN d
    BY <1>1, <1>2 DEF Locked, Table, Seconds, TypeOK
  <2>. QED
    BY <2>1, <1>3, <1>4 DEF Table, Seconds
<1>8. Exact'
  <2>1. SUFFICES ASSUME ~ dirty PROVE Exact'
    BY <1>4 DEF Exact
  <2>2. \A k \in DOMAIN d' : k \in made' \/ \E t \in truncs' : t.temp = k
    BY <2>1, <1>3, <1>4 DEF Table, Exact
  <2>3. \A k \in DOMAIN disk' : SameOnDisk(k)'
    BY <2>1, <1>2, <1>3, <1>5 DEF Table, Exact, SameOnDisk
  <2>4. \A g \in made : ~ Named(g, new)
    BY <2>1, <1>4, NoAnswer
  <2>5. \A g, h \in made' : d'[g].listed /\ d'[h].listed /\ d'[g].name = d'[h].name => g = h
    BY <2>1, <2>4, <1>3, <1>4 DEF Table, Exact, Named, FilesKept
  <2>. QED
    BY <2>2, <2>3, <2>5 DEF Exact
<1>. QED
  BY <1>6, <1>7, <1>8 DEF Table

LEMMA RemoveFileTable ==
    ASSUME TypeOK, Table, NEW f \in Files, RemoveFile(f)
    PROVE  Table'
<1>1. f \in DOMAIN d /\ f \in made
  BY DEF Files
<1>2. DOMAIN d' = DOMAIN d \ {f} /\ \A k \in DOMAIN d' : d'[k] = d[k]
  BY DEF RemoveFile, Without
<1>3. made' = made \ {f} /\ UNCHANGED <<truncs, dirty>> /\ pending \subseteq DOMAIN d
  BY DEF RemoveFile, TypeOK
<1>4. /\ DOMAIN disk' = (DOMAIN disk \ (pending \union {f})) \union (DOMAIN d' \intersect (pending \union {f}))
      /\ \A k \in DOMAIN disk' : disk'[k] = IF k \in pending \union {f} THEN d'[k] ELSE disk[k]
  BY SavedFields DEF RemoveFile
<1>5. \A t \in truncs : t.file # f /\ t.temp # f /\ t.file \in DOMAIN d /\ t.temp \in DOMAIN d
  BY <1>1 DEF RemoveFile, Locked, Table, Seconds, TypeOK
<1>6. FilesKept' /\ FileWhole'
  BY <1>1, <1>2, <1>3, <1>4 DEF Table, FilesKept, FileWhole
<1>7. Own'
  <2>1. \A k \in DOMAIN d' : k # f /\ (d'[k].inode = k <=> k \in made')
    BY <1>1, <1>2, <1>3 DEF Table, Own
  <2>2. \A k \in DOMAIN disk' : k # f /\ (disk'[k].inode = k <=> k \in made')
    BY <2>1, <1>1, <1>2, <1>3, <1>4 DEF Table, Own
  <2>. QED
    BY <2>1, <2>2 DEF Own
<1>8. Seconds'
  BY <1>1, <1>2, <1>3, <1>5 DEF Table, Seconds
<1>9. Exact'
  BY <1>1, <1>2, <1>3, <1>4 DEF Table, Exact, SameOnDisk, FilesKept
<1>. QED
  BY <1>6, <1>7, <1>8, <1>9 DEF Table

LEMMA CommitTable ==
    ASSUME TypeOK, Table, Commit
    PROVE  Table'
<1>1. UNCHANGED <<d, truncs, made, dirty>> /\ pending \subseteq DOMAIN d
  BY DEF Commit, TypeOK
<1>2. /\ DOMAIN disk' = (DOMAIN disk \ pending) \union (DOMAIN d' \intersect pending)
      /\ \A k \in DOMAIN disk' : disk'[k] = IF k \in pending THEN d'[k] ELSE disk[k]
  BY SavedFields DEF Commit, Commits
<1>3. FilesKept' /\ FileWhole' /\ Own'
  BY <1>1, <1>2 DEF Table, FilesKept, FileWhole, Own
<1>4. Seconds'
  BY <1>1 DEF Table, Seconds
<1>5. Exact'
  BY <1>1, <1>2 DEF Table, Exact, SameOnDisk
<1>. QED
  BY <1>3, <1>4, <1>5 DEF Table

(* Mounting from items, which hold the files that are left. *)
LEMMA ReadBackTable ==
    ASSUME TypeOK, Table, ReadBack(disk'),
           DOMAIN disk' \subseteq DOMAIN disk, \A k \in DOMAIN disk' : disk'[k] = disk[k],
           made' = made \intersect DOMAIN disk'
    PROVE  Table'
<1>1. /\ DOMAIN d' = DOMAIN disk'
      /\ \A k \in DOMAIN disk' : /\ d'[k].inode = disk[k].inode /\ d'[k].name = disk[k].name
                                 /\ d'[k].data = disk[k].data /\ d'[k].listed = TRUE
  BY DEF ReadBack, TypeOK, Inode
<1>2. truncs' = {}
  BY DEF ReadBack
<1>3. FilesKept' /\ FileWhole' /\ Own'
  BY <1>1 DEF Table, FilesKept, FileWhole, Own
<1>4. Seconds'
  BY <1>2 DEF Seconds
<1>5. Exact'
  <2>1. SUFFICES ASSUME ~ dirty' PROVE Exact'
    BY DEF Exact
  <2>2. ~ dirty /\ \A k \in DOMAIN disk' : disk[k].inode = k /\ disk[k].listed
    BY <2>1 DEF ReadBack
  <2>3. \A k \in DOMAIN d' : k \in made'
    BY <2>2, <1>1 DEF Table, Own
  <2>4. \A k \in DOMAIN disk' : SameOnDisk(k)'
    <3>1. \A k \in DOMAIN disk' : disk[k].listed = TRUE
      BY <2>2 DEF TypeOK, Inode
    <3>. QED
      BY <3>1, <1>1 DEF SameOnDisk
  <2>5. \A k \in DOMAIN disk : disk[k].name = d[k].name /\ disk[k].listed = d[k].listed
    BY <2>2 DEF Table, Exact, SameOnDisk
  <2>6. \A g, h \in made' : d'[g].name = d'[h].name => g = h
    BY <2>2, <2>5, <1>1 DEF Table, Exact
  <2>. QED
    BY <2>3, <2>4, <2>6 DEF Exact
<1>. QED
  BY <1>3, <1>4, <1>5 DEF Table

LEMMA TableStep ==
    ASSUME TypeOK, Table, [Next]_vars
    PROVE  Table'
<1>1. ASSUME NEW name \in Names, Create(name) PROVE Table'
  BY <1>1, CreateTable
<1>2. ASSUME NEW f \in Files, Write(f) PROVE Table'
  BY <1>2, WriteTable
<1>3. ASSUME NEW f \in Files, FirstRead(f) PROVE Table'
  BY <1>3, FirstReadTable
<1>4. ASSUME NEW f \in Files, TruncateStart(f) PROVE Table'
  BY <1>4, TruncateStartTable
<1>5. ASSUME NEW t \in truncs, TruncateCopy(t) PROVE Table'
  BY <1>5 DEF TruncateCopy, Table, FilesKept, FileWhole, Own, Seconds, Exact, SameOnDisk
<1>6. ASSUME NEW t \in truncs, TruncateEnd(t) PROVE Table'
  BY <1>6, TruncateEndTable
<1>7. ASSUME NEW t \in truncs, TruncateFails(t) PROVE Table'
  BY <1>7 DEF TruncateFails, Table, FilesKept, FileWhole, Own, Seconds, Exact
<1>8. ASSUME NEW name \in Names, Unlink(name) PROVE Table'
  BY <1>8, UnlinkTable
<1>9. ASSUME NEW old \in Names, NEW new \in Names, Rename(old, new) PROVE Table'
  BY <1>9, RenameTable
<1>10. ASSUME NEW f \in Files, RemoveFile(f) PROVE Table'
  BY <1>10, RemoveFileTable
<1>11. ASSUME Commit PROVE Table'
  BY <1>11, CommitTable
<1>12. ASSUME OpenDir \/ Readdir PROVE Table'
  <2>1. UNCHANGED <<d, disk, truncs, made, dirty>>
    BY <1>12 DEF OpenDir, Readdir
  <2>. QED
    BY <2>1 DEF Table, FilesKept, FileWhole, Own, Seconds, Exact, SameOnDisk
<1>13. ASSUME Restart PROVE Table'
  <2>1. ReadBack(disk') /\ disk' = disk /\ made' = made \intersect DOMAIN disk'
    BY <1>13 DEF Restart, ReadBack, Disturb, Table, FilesKept
  <2>. QED
    BY <2>1, ReadBackTable
<1>14. ASSUME NEW f \in Files, KilledInFirstRead(f) PROVE Table'
  <2>1. /\ ReadBack(disk') /\ DOMAIN disk' = DOMAIN disk \ {f}
        /\ \A k \in DOMAIN disk' : disk'[k] = disk[k]
    BY <1>14 DEF KilledInFirstRead, Without
  <2>2. made' = made \intersect DOMAIN disk'
    BY <1>14, <2>1 DEF KilledInFirstRead, Table, FilesKept
  <2>. QED
    BY <2>1, <2>2, ReadBackTable
<1>15. CASE UNCHANGED vars
  BY <1>15 DEF vars, Table, FilesKept, FileWhole, Own, Seconds, Exact, SameOnDisk
<1>. QED
  BY <1>1, <1>2, <1>3, <1>4, <1>5, <1>6, <1>7, <1>8, <1>9, <1>10, <1>11, <1>12,
     <1>13, <1>14, <1>15 DEF Next

-----------------------------------------------------------------------------
(* A listing: what is before an entry. *)
LEMMA PosPrimed == \A k : Pos(k) = PosIn(order, k) /\ Pos(k)' = PosIn(order', k)
BY DEF Pos, PosIn

LEMMA EntriesFinite ==
    ASSUME TypeOK
    PROVE  /\ IsFiniteSet(Entries) /\ Cardinality(Entries) \in Nat
           /\ \A k : IsFiniteSet(Before(k)) /\ Cardinality(Before(k)) \in Nat
<1>1. IsFiniteSet(Numbers)
  <2>1. MaxInode \in Int /\ 3 \in Int
    BY BoundAssumption
  <2>. QED
    BY <2>1, FS_Interval DEF Numbers
<1>2. Entries \subseteq Numbers /\ \A k : Before(k) \subseteq Entries
  BY DEF TypeOK, Entries, Before
<1>3. IsFiniteSet(Entries)
  BY <1>1, <1>2, FS_Subset
<1>. QED
  BY <1>2, <1>3, FS_Subset, FS_CardinalityType

LEMMA BeforeGrows ==
    ASSUME TypeOK, NEW j \in Entries, NEW k \in Entries, Pos(j) < Pos(k)
    PROVE  Cardinality(Before(j)) < Cardinality(Before(k))
<1>1. \A i \in Entries : Pos(i) \in Nat
  BY PosTyped DEF Entries
<1>2. Before(j) \union {j} \subseteq Before(k) /\ j \notin Before(j)
  BY <1>1 DEF Before
<1>3. Cardinality(Before(j) \union {j}) = Cardinality(Before(j)) + 1
  BY <1>2, EntriesFinite, FS_AddElement
<1>4. Cardinality(Before(j) \union {j}) <= Cardinality(Before(k))
  BY <1>2, EntriesFinite, FS_Subset
<1>. QED
  BY <1>3, <1>4, EntriesFinite

LEMMA BeforeDiffers ==
    ASSUME TypeOK, NEW j \in Entries, NEW k \in Entries,
           Cardinality(Before(j)) = Cardinality(Before(k))
    PROVE  j = k
<1>1. /\ Pos(j) \in Nat /\ Pos(k) \in Nat
      /\ order[Pos(j)] = j /\ order[Pos(k)] = k
  BY PosTyped DEF Entries
<1>2. Cardinality(Before(j)) \in Nat /\ Cardinality(Before(k)) \in Nat
  BY EntriesFinite
<1>3. ~ (Pos(j) < Pos(k)) /\ ~ (Pos(k) < Pos(j))
  BY <1>2, BeforeGrows
<1>4. Pos(j) = Pos(k)
  BY <1>1, <1>3
<1>. QED
  BY <1>1, <1>4

(* A listing goes on over what changes no entry and none before it. *)
LEMMA SameEntries ==
    ASSUME Listed, UNCHANGED <<listing, truncs, dirty>>,
           listing.at = "open" => Entries' = Entries /\ \A k \in Entries : Before(k)' = Before(k)
    PROVE  Listed'
<1>1. ListingComplete'
  BY DEF Listed, ListingComplete
<1>2. ASSUME listing.at = "open" PROVE Listed'
  BY <1>1, <1>2 DEF Listed
<1>. QED
  BY <1>1, <1>2 DEF Listed

LEMMA Disturbed ==
    ASSUME Disturb
    PROVE  Listed'
BY DEF Disturb, NoListing, Listed, ListingComplete

LEMMA CreateListed ==
    ASSUME TypeOK, Listed, NEW name \in Names, Create(name)
    PROVE  Listed'
<1>1. PICK n \in Numbers :
            /\ IsNextNumber(n)
            /\ d' = With(n, [inode |-> n, name |-> name, listed |-> TRUE,
                             linked |-> TRUE, data |-> "none", offsets |-> FALSE])
            /\ order' = Append(order, n)
            /\ listing' = [listing EXCEPT !.may = IF listing.at = "open" THEN @ \union {n} ELSE @]
  BY DEF Create
<1>2. n \notin DOMAIN d
  BY <1>1, NextIsNew
<1>3. /\ DOMAIN d' = DOMAIN d \union {n} /\ d'[n].listed
      /\ \A k \in DOMAIN d : d'[k] = d[k]
  BY <1>1, <1>2 DEF With
<1>4. UNCHANGED <<truncs, dirty>>
  BY DEF Create
<1>5. CASE listing.at # "open"
  <2>1. listing' = listing
    BY <1>1, <1>5 DEF TypeOK, Listing
  <2>. QED
    BY <2>1, <1>4, <1>5, SameEntries
<1>6. CASE listing.at = "open"
  <2>1. /\ listing'.at = "open" /\ listing'.off = listing.off /\ listing'.got = listing.got
        /\ listing'.want = listing.want /\ listing'.may = listing.may \union {n}
    BY <1>1, <1>6 DEF TypeOK, Listing
  <2>2. Entries' = Entries \union {n} /\ n \notin Entries
    BY <1>2, <1>3 DEF Entries
  <2>3. /\ \A k \in DOMAIN d : Pos(k)' = Pos(k) /\ Pos(k) \in 1 .. Len(order)
        /\ Pos(n)' = Len(order) + 1 /\ Len(order) \in Nat
    <3>1. OneEach(order, DOMAIN d)
      BY OrderTyped DEF OrderOK
    <3>2. /\ \A k \in DOMAIN d : PosIn(order', k) = PosIn(order, k)
          /\ PosIn(order', n) = Len(order) + 1
      BY <3>1, <1>1, <1>2, AppendOneEach
    <3>3. \A k \in DOMAIN d : PosIn(order, k) \in 1 .. Len(order)
      BY <3>1, PosProperty
    <3>. QED
      BY <3>1, <3>2, <3>3, PosPrimed DEF OneEach
  <2>4. \A k \in Entries : Before(k)' = Before(k)
    BY <2>2, <2>3 DEF Before, Entries
  <2>5. Before(n)' = Entries
    BY <2>2, <2>3 DEF Before, Entries
  <2>6. /\ Cardinality(Entries') = Cardinality(Entries) + 1
        /\ Cardinality(Entries) \in Nat /\ listing.off \in Nat
        /\ listing.off <= Cardinality(Entries)
    BY <2>2, <1>6, EntriesFinite, FS_AddElement DEF TypeOK, Listing, Listed
  <2>7. {k \in Entries' : Cardinality(Before(k)') < listing.off}
            = {k \in Entries : Cardinality(Before(k)) < listing.off}
    BY <2>2, <2>4, <2>5, <2>6
  <2>8. ListingComplete'
    BY <2>1 DEF ListingComplete
  <2>. QED
    BY <2>1, <2>2, <2>6, <2>7, <2>8, <1>4, <1>6 DEF Listed
<1>. QED
  BY <1>5, <1>6

LEMMA RemoveFileListed ==
    ASSUME TypeOK, Listed, NEW f \in Files, RemoveFile(f)
    PROVE  Listed'
<1>1. CASE d[f].listed
  BY <1>1, Disturbed DEF RemoveFile
<1>2. CASE ~ d[f].listed
  <2>1. f \in DOMAIN d
    BY DEF Files
  <2>2. DOMAIN d' = DOMAIN d \ {f} /\ \A k \in DOMAIN d' : d'[k] = d[k]
    BY DEF RemoveFile, Without
  <2>3. Entries' = Entries /\ f \notin Entries
    BY <1>2, <2>2 DEF Entries
  <2>4. \A i, j \in Entries : Pos(i)' < Pos(j)' <=> Pos(i) < Pos(j)
    <3>1. OneEach(order, DOMAIN d)
      BY OrderTyped DEF OrderOK
    <3>2. order' = RemoveAt(order, PosIn(order, f))
      BY PosPrimed DEF RemoveFile, OrderWithout
    <3>3. \A i, j \in DOMAIN d \ {f} :
            PosIn(order', i) < PosIn(order', j) <=> PosIn(order, i) < PosIn(order, j)
      BY <3>1, <3>2, <2>1, RemoveOneEach
    <3>. QED
      BY <3>3, <2>3, PosPrimed DEF Entries
  <2>5. \A k \in Entries : Before(k)' = Before(k)
    BY <2>3, <2>4 DEF Before
  <2>. QED
    BY <1>2, <2>3, <2>5, SameEntries DEF RemoveFile
<1>. QED
  BY <1>1, <1>2

LEMMA ReaddirListed ==
    ASSUME TypeOK, Table, Listed, Readdir
    PROVE  Listed'
<1>1. /\ listing.at = "open" /\ ~ dirty /\ truncs = {}
      /\ listing.off <= Cardinality(Entries)
      /\ listing.got = {k \in Entries : Cardinality(Before(k)) < listing.off}
      /\ Cardinality(listing.got) = listing.off
      /\ listing.want \subseteq Entries /\ Entries \subseteq listing.may
      /\ listing.off \in Nat
  BY DEF Readdir, Listed, TypeOK, Listing
<1>2. UNCHANGED <<d, order, truncs, dirty>>
  BY DEF Readdir
<1>3. Entries' = Entries /\ \A k : Before(k)' = Before(k)
  BY <1>2 DEF Entries, Before, Pos
<1>4. CASE listing.off < Cardinality(Entries)
  <2>1. PICK k \in Entries :
            /\ Cardinality(Before(k)) = listing.off
            /\ listing' = [listing EXCEPT !.off = @ + 1, !.got = @ \union {d[k].inode}]
    BY <1>4 DEF Readdir
  <2>2. d[k].inode = k
    BY <1>1 DEF Table, Exact, Own, Entries
  <2>3. /\ listing'.at = "open" /\ listing'.off = listing.off + 1
        /\ listing'.got = listing.got \union {k}
        /\ listing'.want = listing.want /\ listing'.may = listing.may
    BY <1>1, <2>1, <2>2 DEF TypeOK, Listing
  <2>4. k \notin listing.got /\ IsFiniteSet(listing.got)
    <3>1. listing.got \subseteq Entries
      BY <1>1
    <3>. QED
      BY <3>1, <2>1, <1>1, EntriesFinite, FS_Subset
  <2>5. Cardinality(listing'.got) = listing.off + 1
    BY <2>3, <2>4, <1>1, FS_AddElement
  <2>6. listing'.got = {j \in Entries : Cardinality(Before(j)) < listing.off + 1}
    <3>1. \A j \in Entries : Cardinality(Before(j)) = listing.off => j = k
      BY <2>1, BeforeDiffers
    <3>2. \A j \in Entries : Cardinality(Before(j)) < listing.off + 1
                <=> Cardinality(Before(j)) < listing.off \/ Cardinality(Before(j)) = listing.off
      BY <1>1, EntriesFinite
    <3>. QED
      BY <3>1, <3>2, <2>1, <2>3, <1>1
  <2>7. listing.off + 1 <= Cardinality(Entries)
    BY <1>1, <1>4, EntriesFinite
  <2>8. ListingComplete'
    BY <2>3 DEF ListingComplete
  <2>. QED
    BY <1>1, <1>2, <1>3, <2>3, <2>5, <2>6, <2>7, <2>8 DEF Listed
<1>5. CASE ~ (listing.off < Cardinality(Entries))
  <2>1. listing' = [listing EXCEPT !.at = "end"]
    BY <1>5 DEF Readdir
  <2>2. /\ listing'.at = "end" /\ listing'.off = listing.off /\ listing'.got = listing.got
        /\ listing'.want = listing.want /\ listing'.may = listing.may
    BY <2>1 DEF TypeOK, Listing
  <2>3. listing.got = Entries
    <3>1. listing.got \subseteq Entries /\ Cardinality(listing.got) = Cardinality(Entries)
      BY <1>1, <1>5, EntriesFinite
    <3>. QED
      BY <3>1, EntriesFinite, FS_Subset
  <2>4. ListingComplete'
    BY <1>1, <2>2, <2>3 DEF ListingComplete
  <2>. QED
    BY <2>2, <2>4 DEF Listed
<1>. QED
  BY <1>4, <1>5

(* The least entry not given yet is the one asked for. *)
LEMMA EntryAtPosition ==
    ASSUME TypeOK, Listed, listing.at = "open", listing.off < Cardinality(Entries)
    PROVE  \E k \in Entries : Cardinality(Before(k)) = listing.off
<1>1. /\ listing.got = {k \in Entries : Cardinality(Before(k)) < listing.off}
      /\ Cardinality(listing.got) = listing.off /\ listing.off \in Nat
  BY DEF Listed, TypeOK, Listing
<1>2. \A j \in Entries : Pos(j) \in Nat
  BY PosTyped DEF Entries
<1>. DEFINE T == {Pos(j) : j \in Entries \ listing.got}
<1>3. T \subseteq Nat /\ T # {}
  <2>1. Entries # listing.got /\ listing.got \subseteq Entries
    BY <1>1, EntriesFinite
  <2>. QED
    BY <2>1, <1>2
<1>. HIDE DEF T
<1>4. PICK x \in T : \A y \in T : x <= y
  BY <1>3, Smallest
<1>5. PICK k \in Entries \ listing.got : Pos(k) = x
  BY <1>4 DEF T
<1>6. \A j \in Entries \ listing.got : Pos(k) <= Pos(j)
  BY <1>4, <1>5 DEF T
<1>7. Before(k) \subseteq listing.got
  BY <1>2, <1>6 DEF Before
<1>8. listing.got \subseteq Before(k)
  <2>1. SUFFICES ASSUME NEW g \in listing.got PROVE g \in Before(k)
    OBVIOUS
  <2>2. g \in Entries /\ Cardinality(Before(g)) < listing.off
    BY <1>1
  <2>3. ~ (Cardinality(Before(k)) < listing.off)
    BY <1>1, <1>5
  <2>4. ~ (Pos(k) < Pos(g))
    <3>1. SUFFICES ASSUME Pos(k) < Pos(g) PROVE FALSE
      OBVIOUS
    <3>2. Cardinality(Before(k)) < Cardinality(Before(g))
      BY <3>1, <2>2, BeforeGrows
    <3>. QED
      BY <3>2, <2>2, <2>3, <1>1, EntriesFinite
  <2>5. Pos(k) # Pos(g)
    BY <2>2, <1>5, PosTyped DEF Entries
  <2>. QED
    BY <2>2, <2>4, <2>5, <1>2 DEF Before
<1>. QED
  BY <1>1, <1>7, <1>8

LEMMA OpenDirListed ==
    ASSUME TypeOK, Table, Listed, OpenDir
    PROVE  Listed'
<1>1. ~ dirty /\ truncs = {} /\ UNCHANGED <<d, order, truncs, dirty>>
  BY DEF OpenDir
<1>2. Entries' = Entries /\ \A k : Before(k)' = Before(k)
  BY <1>1 DEF Entries, Before, Pos
<1>3. {f \in Files : d[f].listed} = Entries
  BY <1>1 DEF Table, Exact, FilesKept, Files, Entries
<1>4. listing' = [off |-> 0, got |-> {}, want |-> Entries, may |-> Entries, at |-> "open"]
  BY <1>3 DEF OpenDir
<1>5. \A k : ~ (Cardinality(Before(k)) < 0)
  BY EntriesFinite
<1>6. 0 <= Cardinality(Entries) /\ Cardinality({}) = 0
  BY EntriesFinite, FS_EmptySet
<1>7. ListingComplete'
  BY <1>4 DEF ListingComplete
<1>. QED
  BY <1>1, <1>2, <1>4, <1>5, <1>6, <1>7 DEF Listed

LEMMA ListedStep ==
    ASSUME TypeOK, Table, Listed, [Next]_vars
    PROVE  Listed'
<1>1. ASSUME NEW name \in Names, Create(name) PROVE Listed'
  BY <1>1, CreateListed
<1>2. ASSUME NEW f \in Files, Write(f) PROVE Listed'
  <2>1. DOMAIN d' = DOMAIN d /\ \A k \in DOMAIN d : d'[k].listed = d[k].listed
    BY <1>2 DEF Write, TypeOK, Files, Inode
  <2>2. Entries' = Entries /\ \A k \in Entries : Before(k)' = Before(k)
    BY <1>2, <2>1 DEF Write, Entries, Before, Pos
  <2>. QED
    BY <1>2, <2>2, SameEntries DEF Write
<1>3. ASSUME NEW old \in Names, NEW new \in Names, Rename(old, new) PROVE Listed'
  <2>1. DOMAIN d' = DOMAIN d /\ \A k \in DOMAIN d : d'[k].listed = d[k].listed
    BY <1>3 DEF Rename, TypeOK, Files, Inode
  <2>2. Entries' = Entries /\ \A k \in Entries : Before(k)' = Before(k)
    BY <1>3, <2>1 DEF Rename, Entries, Before, Pos
  <2>. QED
    BY <1>3, <2>2, SameEntries DEF Rename
<1>4. ASSUME NEW f \in Files, RemoveFile(f) PROVE Listed'
  BY <1>4, RemoveFileListed
<1>5. ASSUME Commit \/ UNCHANGED vars \/ \E t \in truncs : TruncateCopy(t) PROVE Listed'
  <2>1. UNCHANGED <<d, order, listing, truncs, dirty>>
    BY <1>5 DEF Commit, TruncateCopy, vars
  <2>2. Entries' = Entries /\ \A k \in Entries : Before(k)' = Before(k)
    BY <2>1 DEF Entries, Before, Pos
  <2>. QED
    BY <2>1, <2>2, SameEntries
<1>6. ASSUME OpenDir PROVE Listed'
  BY <1>6, OpenDirListed
<1>7. ASSUME Readdir PROVE Listed'
  BY <1>7, ReaddirListed
<1>8. ASSUME \/ \E f \in Files : FirstRead(f) \/ TruncateStart(f) \/ KilledInFirstRead(f)
             \/ \E t \in truncs : TruncateEnd(t) \/ TruncateFails(t)
             \/ \E name \in Names : Unlink(name)
             \/ Restart
      PROVE  Listed'
  <2>1. Disturb
    BY <1>8 DEF FirstRead, TruncateStart, KilledInFirstRead, TruncateEnd, TruncateFails,
                Unlink, Restart, ReadBack
  <2>. QED
    BY <2>1, Disturbed
<1>. QED
  BY <1>1, <1>2, <1>3, <1>4, <1>5, <1>6, <1>7, <1>8 DEF Next

-----------------------------------------------------------------------------
LEMMA Initially == Init => IInv
<1>. SUFFICES ASSUME Init PROVE IInv
  OBVIOUS
<1>1. TypeOK
  <2>1. d \in [{} -> Inode] /\ disk \in [{} -> Inode] /\ DOMAIN d = {} /\ DOMAIN disk = {}
    BY DEF Init
  <2>2. order \in Seq(Numbers) /\ ToSet(order) = DOMAIN d /\ IsInjective(order)
    BY <2>1, EmptyOneEach DEF Init, OneEach
  <2>3. listing \in Listing
    BY DEF Init, NoListing, Listing
  <2>. QED
    BY <2>1, <2>2, <2>3 DEF Init, TypeOK
<1>2. Table
  BY DEF Init, Table, FilesKept, FileWhole, Own, Seconds, Exact
<1>3. Listed
  BY DEF Init, Listed, ListingComplete, NoListing
<1>. QED
  BY <1>1, <1>2, <1>3 DEF IInv

LEMMA Step == IInv /\ [Next]_vars => IInv'
<1>. SUFFICES ASSUME IInv, [Next]_vars PROVE IInv'
  OBVIOUS
<1>1. TypeOK'
  BY TypeStep DEF IInv, Table
<1>2. Table'
  BY TableStep DEF IInv
<1>3. Listed'
  BY ListedStep DEF IInv
<1>. QED
  BY <1>1, <1>2, <1>3 DEF IInv

LEMMA Invariant == Spec => []IInv
BY Initially, Step, PTL DEF Spec

(* Types hold for any names and any number of inodes: no key twice in the   *)
(* order of the dict, and whatever is pending or in a truncation is in it.  *)
THEOREM TypeCorrect == Spec => []TypeOK
<1>1. IInv => TypeOK
  BY DEF IInv
<1>. QED
  BY <1>1, Invariant, PTL

(* A lookup finds the file of a listed name and no other, also in the       *)
(* middle of truncations, until one fails or a crash reads back what was    *)
(* not a file.                                                              *)
THEOREM NamesLeadToFiles == Spec => []NameFound
<1>1. IInv => NameFound
  BY AnswerUnique DEF IInv, NameFound, Files
<1>. QED
  BY <1>1, Invariant, PTL

(* No second inode of a truncation outlives it, in memory or on disk.       *)
THEOREM SecondInodesGo == Spec => []SecondInodesGone
<1>1. IInv => SecondInodesGone
  BY DEF IInv, Table, Own, Exact, SameOnDisk, FilesKept, SecondInodesGone
<1>. QED
  BY <1>1, Invariant, PTL

(* Neither a reader nor a mount finds a half truncated file.                *)
THEOREM FilesWhole == Spec => []FileWhole
<1>1. IInv => FileWhole
  BY DEF IInv, Table
<1>. QED
  BY <1>1, Invariant, PTL

(* A file that was made stays in memory and on disk until it is removed, or *)
(* the process is killed in the middle of its first read.                   *)
THEOREM FilesStay == Spec => []FilesKept
<1>1. IInv => FilesKept
  BY DEF IInv, Table
<1>. QED
  BY <1>1, Invariant, PTL

(* A listing that nothing disturbs gives every file once, with any number   *)
(* of files made, written, renamed or removed meanwhile.                    *)
THEOREM ListingsComplete == Spec => []ListingComplete
<1>1. IInv => ListingComplete
  BY DEF IInv, Listed
<1>. QED
  BY <1>1, Invariant, PTL

(* There is an entry at every position that readdir is asked for before the *)
(* end: dir_entries[off] never raises IndexError too early.                 *)
THEOREM ListingsGoOn ==
    Spec => [](listing.at = "open" /\ listing.off < Cardinality(Entries)
                => \E k \in Entries : Cardinality(Before(k)) = listing.off)
<1>1. IInv => (listing.at = "open" /\ listing.off < Cardinality(Entries)
                => \E k \in Entries : Cardinality(Before(k)) = listing.off)
  BY EntryAtPosition DEF IInv
<1>. QED
  BY <1>1, Invariant, PTL

=============================================================================
