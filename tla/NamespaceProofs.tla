-------------------------- MODULE NamespaceProofs --------------------------
(***************************************************************************)
(* What the handlers of Namespace keep, for any names and bounds.  Each     *)
(* property needs a fact of its own beside it: NamesUnique none, Reachable  *)
(* that what is listed has a link (so forget and release take no directory  *)
(* with a name), OpenKept that lookup_count covers the kernel's lookups.    *)
(***************************************************************************)
EXTENDS Namespace, TLAPS

RootKept ==
    /\ inodes[Root].name = RootName /\ inodes[Root].st_nlink = 1
    /\ inodes[Root].kind = "dir" /\ inodes[Root].listed

ListedLinked ==
    ~ restarted => \A i \in DOMAIN inodes : inodes[i].listed => inodes[i].st_nlink > 0

KnownThere == \A i \in Numbers : i \notin DOMAIN inodes => known[i] = 0

Covered ==
    exact => \A i \in Numbers :
        /\ opens[i] > 0 => i \in DOMAIN inodes /\ inodes[i].kind = "file"
        /\ i \in DOMAIN inodes => ghost[i] = 0 /\ known[i] <= inodes[i].lookup_count

Table == RootKept /\ NamesUnique /\ ListedLinked /\ Reachable
Kernel == KnownThere /\ Covered
IInv == TypeOK /\ Table /\ Kernel

-----------------------------------------------------------------------------
(* The changes of the table, field by field. *)
LEMMA CountedFields ==
    ASSUME NEW i \in DOMAIN inodes, NEW n \in Int, TypeOK
    PROVE  /\ DOMAIN Counted(i, n) = DOMAIN inodes
           /\ Counted(i, n) \in [DOMAIN inodes -> File_Inode]
           /\ \A k \in DOMAIN inodes :
                /\ Counted(i, n)[k].parent = inodes[k].parent
                /\ Counted(i, n)[k].name = inodes[k].name
                /\ Counted(i, n)[k].kind = inodes[k].kind
                /\ Counted(i, n)[k].st_nlink = inodes[k].st_nlink
                /\ Counted(i, n)[k].listed = inodes[k].listed
                /\ Counted(i, n)[k].lookup_count
                    = inodes[k].lookup_count + (IF k = i THEN n ELSE 0)
BY DEF TypeOK, File_Inode, Counted

LEMMA UnlinkedInodeFields ==
    ASSUME NEW r \in File_Inode
    PROVE  /\ UnlinkedInode(r) \in File_Inode
           /\ UnlinkedInode(r).parent = r.parent /\ UnlinkedInode(r).name = r.name
           /\ UnlinkedInode(r).kind = r.kind
           /\ UnlinkedInode(r).lookup_count = r.lookup_count
           /\ ~ UnlinkedInode(r).listed
<1>. DEFINE r1 == [r EXCEPT !.st_nlink = r.st_nlink - 1]
<1>1. r1 \in File_Inode
  BY DEF File_Inode
<1>2. UnlinkedInode(r) = [r1 EXCEPT !.listed = FALSE]
  BY DEF UnlinkedInode, File_Inode
<1>. HIDE DEF r1
<1>3. [r1 EXCEPT !.listed = FALSE] \in File_Inode
  BY <1>1 DEF File_Inode
<1>. QED
  BY <1>2, <1>3 DEF UnlinkedInode, File_Inode

LEMMA UnlinkedFields ==
    ASSUME NEW S, NEW f \in [S -> File_Inode], NEW i \in S
    PROVE  /\ Unlinked(f, i) \in [S -> File_Inode]
           /\ \A k \in S :
                /\ Unlinked(f, i)[k].parent = f[k].parent
                /\ Unlinked(f, i)[k].name = f[k].name
                /\ Unlinked(f, i)[k].kind = f[k].kind
                /\ Unlinked(f, i)[k].lookup_count = f[k].lookup_count
                /\ k # i => Unlinked(f, i)[k] = f[k]
           /\ ~ Unlinked(f, i)[i].listed
BY UnlinkedInodeFields DEF Unlinked

LEMMA MovedInodeFields ==
    ASSUME NEW r \in File_Inode, NEW q \in Numbers, NEW new_name \in Names
    PROVE  LET m == MovedInode(r, q, new_name)
           IN  /\ m \in File_Inode
               /\ m.parent = q /\ m.name = new_name /\ m.kind = r.kind
               /\ m.st_nlink = r.st_nlink /\ m.listed = r.listed
               /\ m.lookup_count = r.lookup_count + 1
<1>. DEFINE r1 == [r EXCEPT !.parent = q]
            r2 == [r1 EXCEPT !.name = new_name]
<1>1. r1 \in File_Inode
  BY DEF File_Inode
<1>2. r1.lookup_count = r.lookup_count
  BY DEF File_Inode
<1>. HIDE DEF r1
<1>3. r2 \in File_Inode /\ r2.lookup_count = r.lookup_count
  BY <1>1, <1>2 DEF File_Inode
<1>. HIDE DEF r2
<1>4. [r2 EXCEPT !.lookup_count = r.lookup_count + 1] \in File_Inode
  BY <1>3 DEF File_Inode
<1>5. MovedInode(r, q, new_name) = [r2 EXCEPT !.lookup_count = r.lookup_count + 1]
  BY DEF MovedInode, File_Inode, r1, r2
<1>. QED
  BY <1>4, <1>5 DEF MovedInode, File_Inode

LEMMA MovedFields ==
    ASSUME NEW i \in DOMAIN inodes, NEW q \in Numbers, NEW new_name \in Names, TypeOK
    PROVE  /\ Moved(i, q, new_name) \in [DOMAIN inodes -> File_Inode]
           /\ \A k \in DOMAIN inodes \ {i} : Moved(i, q, new_name)[k] = inodes[k]
           /\ Moved(i, q, new_name)[i].parent = q
           /\ Moved(i, q, new_name)[i].name = new_name
           /\ Moved(i, q, new_name)[i].kind = inodes[i].kind
           /\ Moved(i, q, new_name)[i].st_nlink = inodes[i].st_nlink
           /\ Moved(i, q, new_name)[i].listed = inodes[i].listed
           /\ Moved(i, q, new_name)[i].lookup_count = inodes[i].lookup_count + 1
BY MovedInodeFields DEF TypeOK, Moved

LEMMA WithoutFields ==
    ASSUME NEW f, NEW i
    PROVE  /\ DOMAIN Without(f, i) = DOMAIN f \ {i}
           /\ \A k \in DOMAIN f \ {i} : Without(f, i)[k] = f[k]
BY DEF Without

-----------------------------------------------------------------------------
LEMMA Named ==
    ASSUME IInv, NEW p, NEW name \in Names, NEW i \in Matches(p, name)
    PROVE  /\ i \in DOMAIN inodes /\ i # Root
           /\ inodes[i].parent = p /\ inodes[i].name = name /\ inodes[i].listed
BY NamespaceAssumption DEF IInv, Table, RootKept, Matches

(* Counting lookups changes nothing in the table but the counts. *)
LEMMA CountKeepsTable ==
    ASSUME IInv, NEW i \in DOMAIN inodes, NEW n \in Int,
           inodes' = Counted(i, n) \/ inodes' = inodes,
           UNCHANGED <<restarted, orphaned>>
    PROVE  Table'
<1>1. /\ DOMAIN inodes' = DOMAIN inodes
      /\ \A k \in DOMAIN inodes :
            /\ inodes'[k].parent = inodes[k].parent /\ inodes'[k].name = inodes[k].name
            /\ inodes'[k].kind = inodes[k].kind /\ inodes'[k].listed = inodes[k].listed
            /\ inodes'[k].st_nlink = inodes[k].st_nlink
  BY CountedFields DEF IInv
<1>2. \A k \in DOMAIN inodes : inodes[k].parent \in Numbers
  BY DEF IInv, TypeOK, File_Inode
<1>3. RootKept'
  BY <1>1 DEF IInv, TypeOK, Table, RootKept
<1>4. NamesUnique'
  BY <1>1 DEF IInv, Table, NamesUnique
<1>5. ListedLinked'
  BY <1>1 DEF IInv, Table, ListedLinked
<1>6. Reachable'
  BY <1>1 DEF IInv, Table, Reachable
<1>. QED
  BY <1>3, <1>4, <1>5, <1>6 DEF Table

(* An inode with no entries of its own can go. *)
LEMMA RemovalKeepsTable ==
    ASSUME IInv, NEW i \in DOMAIN inodes, i # Root,
           inodes' = Without(inodes, i),
           restarted \/ orphaned \/ Children(i) = {},
           UNCHANGED <<restarted, orphaned>>
    PROVE  Table'
<1>1. /\ DOMAIN inodes' = DOMAIN inodes \ {i}
      /\ \A k \in DOMAIN inodes' : inodes'[k] = inodes[k]
  BY WithoutFields
<1>2. RootKept'
  BY <1>1 DEF IInv, TypeOK, Table, RootKept
<1>3. NamesUnique'
  BY <1>1 DEF IInv, Table, NamesUnique
<1>4. ListedLinked'
  BY <1>1 DEF IInv, Table, ListedLinked
<1>5. Reachable'
  BY <1>1 DEF IInv, Table, Reachable, Children
<1>. QED
  BY <1>2, <1>3, <1>4, <1>5 DEF Table

(* What has no link left is not listed and so has no entries that are.     *)
LEMMA UnlinkedIsEmpty ==
    ASSUME IInv, NEW i \in DOMAIN inodes, inodes[i].st_nlink <= 0
    PROVE  i # Root /\ (restarted \/ orphaned \/ Children(i) = {})
<1>1. i # Root
  BY DEF IInv, Table, RootKept
<1>2. inodes[i].st_nlink \in Int
  BY DEF IInv, TypeOK, File_Inode
<1>3. ~ restarted => ~ inodes[i].listed
  BY <1>2 DEF IInv, Table, ListedLinked
<1>. QED
  BY <1>1, <1>3 DEF IInv, Table, Reachable, Children

-----------------------------------------------------------------------------
LEMMA LookupKeeps ==
    ASSUME IInv, NEW p, NEW name \in Names, Lookup(p, name)
    PROVE  IInv'
<1>1. PICK i \in Matches(p, name) :
        /\ inodes' = Counted(i, 1)
        /\ known' = [known EXCEPT ![i] = @ + 1]
  BY DEF Lookup
<1>2. i \in DOMAIN inodes
  BY <1>1, Named
<1>3. UNCHANGED <<opens, ghost, mounted, restarted, orphaned, exact>>
  BY DEF Lookup, history
<1>4. Table'
  BY <1>1, <1>2, <1>3, CountKeepsTable
<1>5. TypeOK'
  BY <1>1, <1>2, <1>3, CountedFields DEF IInv, TypeOK
<1>6. KnownThere'
  BY <1>1, <1>2, CountedFields DEF IInv, TypeOK, Kernel, KnownThere
<1>7. Covered'
  <2>1. /\ DOMAIN inodes' = DOMAIN inodes
        /\ \A k \in DOMAIN inodes :
            /\ inodes'[k].kind = inodes[k].kind
            /\ inodes'[k].lookup_count = inodes[k].lookup_count + (IF k = i THEN 1 ELSE 0)
    BY <1>1, <1>2, CountedFields DEF IInv
  <2>2. \A k \in DOMAIN inodes : inodes[k].lookup_count \in Int /\ known[k] \in Int
    BY DEF IInv, TypeOK, File_Inode
  <2>3. \A k \in DOMAIN inodes : known'[k] = known[k] + (IF k = i THEN 1 ELSE 0)
    BY <1>1, <1>2 DEF IInv, TypeOK
  <2>. QED
    BY <1>3, <2>1, <2>2, <2>3 DEF IInv, Kernel, Covered
<1>. QED
  BY <1>4, <1>5, <1>6, <1>7 DEF IInv, Kernel

LEMMA ReaddirKeeps ==
    ASSUME IInv, NEW p, Readdir(p)
    PROVE  IInv'
<1>1. PICK i \in DOMAIN inodes : known' = [known EXCEPT ![i] = @ + 1]
  BY DEF Readdir, Children
<1>2. exact' = FALSE /\ UNCHANGED <<inodes, opens, ghost, mounted, restarted, orphaned>>
  BY DEF Readdir
<1>3. Table'
  BY <1>2 DEF IInv, Table, RootKept, NamesUnique, ListedLinked, Reachable
<1>4. TypeOK'
  <2>1. exact' \in BOOLEAN
    BY <1>2
  <2>. QED
    BY <1>1, <1>2, <2>1 DEF IInv, TypeOK
<1>5. Kernel'
  BY <1>1, <1>2 DEF IInv, TypeOK, Kernel, KnownThere, Covered
<1>. QED
  BY <1>3, <1>4, <1>5 DEF IInv

(* A new inode under a name that no other has. *)
LEMMA AdditionKeepsTable ==
    ASSUME IInv, NEW p, NEW name \in Names, Walked(p), Matches(p, name) = {},
           NEW n \in Numbers, n \notin DOMAIN inodes,
           NEW f \in [DOMAIN inodes -> File_Inode],
           \A k \in DOMAIN inodes :
                /\ f[k].parent = inodes[k].parent /\ f[k].name = inodes[k].name
                /\ f[k].kind = inodes[k].kind /\ f[k].listed = inodes[k].listed
                /\ f[k].st_nlink >= inodes[k].st_nlink,
           f[Root] = inodes[Root],
           NEW kind, NEW count, NEW target,
           inodes' = WithNew(f, n, Inode(p, name, kind, count, target)),
           UNCHANGED <<restarted, orphaned>>
    PROVE  Table'
<1>. DEFINE new == Inode(p, name, kind, count, target)
<1>0. new.parent = p /\ new.name = name /\ new.st_nlink = 1 /\ new.listed
  BY DEF Inode
<1>. HIDE DEF new
<1>1. /\ DOMAIN inodes' = DOMAIN inodes \cup {n}
      /\ inodes'[n].parent = p /\ inodes'[n].name = name
      /\ inodes'[n].st_nlink = 1 /\ inodes'[n].listed
      /\ \A k \in DOMAIN inodes : inodes'[k] = f[k]
  <2>1. inodes' = WithNew(f, n, new) /\ DOMAIN f = DOMAIN inodes
    BY DEF new
  <2>. QED
    BY <1>0, <2>1 DEF WithNew
<1>2. p \in DOMAIN inodes /\ p # n /\ inodes[p].kind = "dir" /\ inodes[p].listed
  BY DEF Walked
<1>3. \A k \in DOMAIN inodes : f[k].st_nlink \in Int /\ inodes[k].st_nlink \in Int
  BY DEF IInv, TypeOK, File_Inode
<1>4. RootKept'
  BY <1>1 DEF IInv, TypeOK, Table, RootKept
<1>5. NamesUnique'
  <2>1. \A k \in DOMAIN inodes :
            ~ (inodes[k].parent = p /\ inodes[k].name = name /\ inodes[k].listed)
    BY DEF Matches
  <2>. QED
    BY <1>1, <2>1 DEF IInv, Table, NamesUnique
<1>6. ListedLinked'
  BY <1>1, <1>3 DEF IInv, Table, ListedLinked
<1>7. Reachable'
  BY <1>1, <1>2 DEF IInv, Table, Reachable
<1>. QED
  BY <1>4, <1>5, <1>6, <1>7 DEF Table

LEMMA NextNumberIsNew ==
    ASSUME IInv, NEW n \in Numbers, IsNextNumber(n)
    PROVE  n \notin DOMAIN inodes /\ known[n] = 0
BY DEF IInv, TypeOK, Numbers, IsNextNumber, Kernel, KnownThere

LEMMA NewKeeps ==
    ASSUME IInv, NEW p \in Numbers, NEW name \in Names, NEW kind \in Kinds,
           NEW count \in Int, count >= 1, NEW handles \in Nat,
           handles > 0 => kind = "file",
           New(p, name, kind, count, handles)
    PROVE  IInv'
<1>1. PICK n \in Numbers :
        /\ IsNextNumber(n)
        /\ inodes' = WithNew(inodes, n, Inode(p, name, kind, count, 0))
        /\ known' = [known EXCEPT ![n] = @ + 1]
        /\ opens' = [opens EXCEPT ![n] = @ + handles]
        /\ exact' = (exact /\ ghost[n] = 0)
  BY DEF New
<1>2. n \notin DOMAIN inodes /\ known[n] = 0
  BY <1>1, NextNumberIsNew
<1>3. UNCHANGED <<ghost, mounted, restarted, orphaned>>
  BY DEF New
<1>. DEFINE new == Inode(p, name, kind, count, 0)
<1>4. /\ new \in File_Inode /\ new.kind = kind /\ new.lookup_count = count
  BY NamespaceAssumption DEF Inode, File_Inode
<1>. HIDE DEF new
<1>5. /\ DOMAIN inodes' = DOMAIN inodes \cup {n}
      /\ inodes'[n] = new
      /\ \A k \in DOMAIN inodes : inodes'[k] = inodes[k]
  <2>1. inodes' = WithNew(inodes, n, new)
    BY <1>1 DEF new
  <2>. QED
    BY <1>2, <2>1 DEF WithNew
<1>6. Table'
  <2>1. \A k \in DOMAIN inodes : inodes[k].st_nlink >= inodes[k].st_nlink
    BY DEF IInv, TypeOK, File_Inode
  <2>2. inodes \in [DOMAIN inodes -> File_Inode]
    BY DEF IInv, TypeOK
  <2>3. Walked(p) /\ Matches(p, name) = {}
    BY DEF New
  <2>. QED
    BY <1>1, <1>2, <1>3, <2>1, <2>2, <2>3, AdditionKeepsTable
<1>7. TypeOK'
  <2>1. inodes' \in [DOMAIN inodes' -> File_Inode]
    BY <1>4, <1>5, <1>1 DEF IInv, TypeOK, WithNew
  <2>. QED
    BY <1>1, <1>3, <1>5, <2>1 DEF IInv, TypeOK
<1>8. KnownThere'
  BY <1>1, <1>5 DEF IInv, TypeOK, Kernel, KnownThere
<1>9. Covered'
  <2>1. known'[n] = 1 /\ \A k \in Numbers \ {n} : known'[k] = known[k]
    BY <1>1, <1>2 DEF IInv, TypeOK
  <2>2. ASSUME exact'
        PROVE  ghost[n] = 0 /\ opens'[n] = handles /\ exact
    <3>1. exact /\ ghost[n] = 0
      BY <1>1, <2>2
    <3>2. opens[n] = 0
      BY <1>2, <3>1 DEF IInv, TypeOK, Kernel, Covered
    <3>. QED
      BY <1>1, <3>1, <3>2 DEF IInv, TypeOK
  <2>3. \A k \in Numbers \ {n} : opens'[k] = opens[k]
    BY <1>1 DEF IInv, TypeOK
  <2>. QED
    BY <1>3, <1>4, <1>5, <2>1, <2>2, <2>3 DEF IInv, Kernel, Covered
<1>. QED
  BY <1>6, <1>7, <1>8, <1>9 DEF IInv, Kernel

LEMMA LinkKeeps ==
    ASSUME IInv, NEW i \in Numbers, NEW p \in Numbers, NEW name \in Names, Link(i, p, name)
    PROVE  IInv'
<1>. DEFINE f == [inodes EXCEPT ![i].st_nlink = @ + 1]
<1>1. PICK n \in Numbers :
        /\ IsNextNumber(n)
        /\ inodes' = WithNew(f, n, Inode(p, name, "link", 1, i))
  BY DEF Link
<1>2. /\ i \in DOMAIN inodes /\ inodes[i].kind = "file"
      /\ Walked(p) /\ Matches(p, name) = {}
      /\ known' = [known EXCEPT ![i] = @ + 1] /\ exact' = FALSE
      /\ UNCHANGED <<opens, ghost, mounted, restarted, orphaned>>
  BY DEF Link
<1>3. n \notin DOMAIN inodes /\ i # Root
  BY <1>1, <1>2, NextNumberIsNew DEF IInv, Table, RootKept
<1>4. /\ f \in [DOMAIN inodes -> File_Inode]
      /\ f[Root] = inodes[Root]
      /\ \A k \in DOMAIN inodes :
            /\ f[k].parent = inodes[k].parent /\ f[k].name = inodes[k].name
            /\ f[k].kind = inodes[k].kind /\ f[k].listed = inodes[k].listed
            /\ f[k].st_nlink >= inodes[k].st_nlink
  BY <1>2, <1>3 DEF IInv, TypeOK, File_Inode
<1>. DEFINE new == Inode(p, name, "link", 1, i)
<1>5. new \in File_Inode
  BY NamespaceAssumption DEF Inode, File_Inode, Kinds, Numbers
<1>. HIDE DEF f
<1>6. Table'
  BY <1>1, <1>2, <1>3, <1>4, AdditionKeepsTable
<1>. HIDE DEF new
<1>7. DOMAIN inodes' = DOMAIN inodes \cup {n}
  <2>1. inodes' = WithNew(f, n, new) /\ DOMAIN f = DOMAIN inodes
    BY <1>1, <1>4 DEF new
  <2>. QED
    BY <2>1 DEF WithNew
<1>8. TypeOK'
  <2>1. inodes' \in [DOMAIN inodes' -> File_Inode]
    BY <1>1, <1>4, <1>5, <1>7 DEF WithNew, new
  <2>2. exact' \in BOOLEAN
    BY <1>2
  <2>. QED
    BY <1>2, <1>7, <2>1, <2>2 DEF IInv, TypeOK
<1>9. Kernel'
  BY <1>2, <1>7 DEF IInv, TypeOK, Kernel, KnownThere, Covered
<1>. QED
  BY <1>6, <1>8, <1>9 DEF IInv

-----------------------------------------------------------------------------
LEMMA UnlinkKeeps ==
    ASSUME IInv, NEW p, NEW name \in Names, Unlink(p, name)
    PROVE  IInv'
<1>1. PICK i \in Matches(p, name) :
        inodes[i].kind # "dir" /\ inodes' = Unlinked(inodes, i)
  BY DEF Unlink
<1>2. i \in DOMAIN inodes /\ i # Root
  BY <1>1, Named
<1>3. UNCHANGED <<opens, known, ghost, mounted, restarted, orphaned, exact>>
  BY DEF Unlink, history
<1>4. inodes \in [DOMAIN inodes -> File_Inode]
  BY DEF IInv, TypeOK
<1>5. /\ inodes' \in [DOMAIN inodes -> File_Inode]
      /\ \A k \in DOMAIN inodes :
            /\ inodes'[k].kind = inodes[k].kind
            /\ inodes'[k].lookup_count = inodes[k].lookup_count
            /\ k # i => inodes'[k] = inodes[k]
      /\ ~ inodes'[i].listed
  BY <1>1, <1>2, <1>4, UnlinkedFields
<1>6. DOMAIN inodes' = DOMAIN inodes
  BY <1>5
<1>7. Table'
  <2>1. RootKept'
    BY <1>2, <1>5, <1>6 DEF IInv, TypeOK, Table, RootKept
  <2>2. NamesUnique'
    BY <1>2, <1>3, <1>5, <1>6 DEF IInv, Table, NamesUnique
  <2>3. ListedLinked'
    BY <1>2, <1>3, <1>5, <1>6 DEF IInv, Table, ListedLinked
  <2>4. Reachable'
    BY <1>1, <1>2, <1>3, <1>5, <1>6 DEF IInv, Table, Reachable
  <2>. QED
    BY <2>1, <2>2, <2>3, <2>4 DEF Table
<1>8. TypeOK'
  BY <1>3, <1>5, <1>6 DEF IInv, TypeOK
<1>9. Kernel'
  BY <1>3, <1>5, <1>6 DEF IInv, Kernel, KnownThere, Covered
<1>. QED
  BY <1>7, <1>8, <1>9 DEF IInv

(* An inode that is gone has no handles, as long as the counts are exact.  *)
LEMMA RemovalKeepsKernel ==
    ASSUME IInv, NEW i \in DOMAIN inodes, i # Root,
           NEW f \in [DOMAIN inodes -> File_Inode],
           \A k \in DOMAIN inodes :
                f[k].kind = inodes[k].kind /\ f[k].lookup_count >= inodes[k].lookup_count,
           inodes' = Without(f, i),
           Deleted(i),
           opens' \in [Numbers -> Nat],
           \A k \in Numbers : opens'[k] <= opens[k],
           exact => opens'[i] = 0,
           UNCHANGED <<mounted, restarted, exact>>, orphaned' \in BOOLEAN
    PROVE  TypeOK' /\ Kernel'
<1>1. /\ DOMAIN inodes' = DOMAIN inodes \ {i}
      /\ \A k \in DOMAIN inodes' : inodes'[k] = f[k]
      /\ inodes' \in [DOMAIN inodes' -> File_Inode]
  BY DEF Without
<1>2. /\ i \in Numbers
      /\ known' = [known EXCEPT ![i] = 0]
      /\ ghost' = [ghost EXCEPT ![i] = @ + known[i]]
  BY DEF Deleted, IInv, TypeOK
<1>3. TypeOK'
  BY <1>1, <1>2 DEF IInv, TypeOK
<1>4. KnownThere'
  BY <1>1, <1>2 DEF IInv, TypeOK, Kernel, KnownThere
<1>5. Covered'
  <2>1. SUFFICES ASSUME exact', NEW k \in Numbers
                 PROVE  /\ opens'[k] > 0 => k \in DOMAIN inodes' /\ inodes'[k].kind = "file"
                        /\ k \in DOMAIN inodes' =>
                                ghost'[k] = 0 /\ known'[k] <= inodes'[k].lookup_count
    BY DEF Covered
  <2>2. /\ opens[k] > 0 => k \in DOMAIN inodes /\ inodes[k].kind = "file"
        /\ k \in DOMAIN inodes => ghost[k] = 0 /\ known[k] <= inodes[k].lookup_count
    BY <2>1 DEF IInv, Kernel, Covered
  <2>3. CASE k = i
    BY <1>1, <2>1, <2>3
  <2>4. CASE k # i
    <3>1. known'[k] = known[k] /\ ghost'[k] = ghost[k]
      BY <1>2, <2>4 DEF IInv, TypeOK
    <3>2. opens'[k] > 0 => opens[k] > 0
      BY DEF IInv, TypeOK
    <3>3. k \in DOMAIN inodes => /\ f[k].kind = inodes[k].kind
                                 /\ f[k].lookup_count >= inodes[k].lookup_count
                                 /\ f[k].lookup_count \in Int /\ inodes[k].lookup_count \in Int
      BY DEF IInv, TypeOK, File_Inode
    <3>4. known[k] \in Int
      BY DEF IInv, TypeOK
    <3>. QED
      BY <1>1, <2>2, <2>4, <3>1, <3>2, <3>3, <3>4
  <2>. QED
    BY <2>3, <2>4
<1>. QED
  BY <1>3, <1>4, <1>5 DEF Kernel

LEMMA RmdirKeeps ==
    ASSUME IInv, NEW p, NEW name \in Names, Rmdir(p, name)
    PROVE  IInv'
<1>1. PICK i \in Matches(p, name) :
        /\ inodes[i].kind = "dir" /\ Children(i) = {}
        /\ inodes' = Without(inodes, i) /\ Deleted(i)
  BY DEF Rmdir
<1>2. i \in DOMAIN inodes /\ i # Root
  BY <1>1, Named
<1>3. UNCHANGED <<opens, mounted, restarted, orphaned, exact>>
  BY DEF Rmdir, history
<1>4. Table'
  BY <1>1, <1>2, <1>3, RemovalKeepsTable
<1>5. exact => opens'[i] = 0
  BY <1>1, <1>2, <1>3 DEF IInv, TypeOK, Kernel, Covered
<1>6. /\ inodes \in [DOMAIN inodes -> File_Inode]
      /\ \A k \in DOMAIN inodes : inodes[k].lookup_count >= inodes[k].lookup_count
      /\ opens' \in [Numbers -> Nat] /\ \A k \in Numbers : opens'[k] <= opens[k]
      /\ orphaned' \in BOOLEAN
  BY <1>3 DEF IInv, TypeOK, File_Inode
<1>7. TypeOK' /\ Kernel'
  BY <1>1, <1>2, <1>3, <1>5, <1>6, RemovalKeepsKernel
<1>. QED
  BY <1>4, <1>7 DEF IInv

LEMMA RmdirRefusedKeeps ==
    ASSUME IInv, NEW p, NEW name \in Names, RmdirRefused(p, name)
    PROVE  IInv'
<1>1. PICK i \in Matches(p, name) : inodes' = Counted(i, 1)
  BY DEF RmdirRefused
<1>2. i \in DOMAIN inodes
  BY <1>1, Named
<1>3. UNCHANGED <<opens, known, ghost, mounted, restarted, orphaned, exact>>
  BY DEF RmdirRefused, history
<1>4. Table'
  BY <1>1, <1>2, <1>3, CountKeepsTable
<1>5. TypeOK'
  BY <1>1, <1>2, <1>3, CountedFields DEF IInv, TypeOK
<1>6. Kernel'
  <2>1. /\ DOMAIN inodes' = DOMAIN inodes
        /\ \A k \in DOMAIN inodes :
            /\ inodes'[k].kind = inodes[k].kind
            /\ inodes'[k].lookup_count = inodes[k].lookup_count + (IF k = i THEN 1 ELSE 0)
    BY <1>1, <1>2, CountedFields DEF IInv
  <2>2. \A k \in DOMAIN inodes : inodes[k].lookup_count \in Int /\ known[k] \in Int
    BY DEF IInv, TypeOK, File_Inode
  <2>. QED
    BY <1>3, <2>1, <2>2 DEF IInv, Kernel, KnownThere, Covered
<1>. QED
  BY <1>4, <1>5, <1>6 DEF IInv

-----------------------------------------------------------------------------
(* What a move and a replacement have in common: i gets the name (q,        *)
(* new_name), no other inode that stays listed has it, and what loses it (j, *)
(* if any) is gone or no longer listed.                                     *)
TakesName(i, q, new_name, j) ==
    /\ i \in DOMAIN inodes /\ i # Root /\ inodes[i].listed /\ Walked(q)
    /\ j # i /\ j # Root
    /\ Matches(q, new_name) \ {j} = {} \/ restarted
    /\ j \in DOMAIN inodes => j \in Matches(q, new_name)
    /\ DOMAIN inodes' \subseteq DOMAIN inodes
    /\ DOMAIN inodes \ {j} \subseteq DOMAIN inodes'
    /\ \A k \in DOMAIN inodes \ {i, j} : inodes'[k] = inodes[k]
    /\ j \in DOMAIN inodes' => ~ inodes'[j].listed
    /\ inodes'[i].parent = q /\ inodes'[i].name = new_name
    /\ inodes'[i].kind = inodes[i].kind
    /\ inodes'[i].st_nlink = inodes[i].st_nlink
    /\ inodes'[i].listed
    /\ restarted' = restarted
    /\ orphaned' = (orphaned \/ Children(j) # {})

LEMMA MoveKeepsTable ==
    ASSUME IInv, NEW i, NEW q, NEW new_name, NEW j, TakesName(i, q, new_name, j)
    PROVE  Table'
<1>. USE DEF TakesName
<1>1. RootKept'
  BY DEF IInv, TypeOK, Table, RootKept
<1>2. NamesUnique'
  <2>1. SUFFICES ASSUME ~ restarted, NEW k \in DOMAIN inodes', NEW l \in DOMAIN inodes',
                        inodes'[k].listed, inodes'[l].listed,
                        inodes'[k].parent = inodes'[l].parent,
                        inodes'[k].name = inodes'[l].name
                 PROVE  k = l
    BY DEF NamesUnique
  <2>2. k # j /\ l # j
    BY <2>1
  <2>3. \A m \in DOMAIN inodes \ {j} :
            ~ (inodes[m].parent = q /\ inodes[m].name = new_name /\ inodes[m].listed)
    BY <2>1 DEF Matches
  <2>. QED
    BY <2>1, <2>2, <2>3 DEF IInv, Table, NamesUnique
<1>3. ListedLinked'
  BY DEF IInv, Table, ListedLinked
<1>4. Reachable'
  <2>1. SUFFICES ASSUME ~ restarted, ~ orphaned', NEW k \in DOMAIN inodes', inodes'[k].listed
                 PROVE  /\ inodes'[k].parent \in DOMAIN inodes'
                        /\ inodes'[inodes'[k].parent].listed
                        /\ inodes'[inodes'[k].parent].kind = "dir"
    BY DEF Reachable
  <2>2. ~ orphaned /\ k # j /\ \A m \in DOMAIN inodes : inodes[m].listed => inodes[m].parent # j
    BY <2>1 DEF Children
  <2>3. q \in DOMAIN inodes /\ inodes[q].listed /\ inodes[q].kind = "dir"
    BY DEF Walked
  <2>4. PICK d : /\ d = inodes'[k].parent
                 /\ d \in DOMAIN inodes /\ inodes[d].listed /\ inodes[d].kind = "dir"
    BY <2>1, <2>2, <2>3 DEF IInv, Table, Reachable
  <2>5. CASE d # j
    BY <2>4, <2>5
  <2>6. CASE d = j
    <3>1. q = j
      BY <2>1, <2>2, <2>4, <2>6
    <3>2. inodes[j].parent = j
      BY <2>3, <3>1 DEF Matches
    <3>. QED
      BY <2>2, <2>3, <3>1, <3>2
  <2>. QED
    BY <2>5, <2>6
<1>. QED
  BY <1>1, <1>2, <1>3, <1>4 DEF Table

LEMMA RenameKeeps ==
    ASSUME IInv, NEW p, NEW q \in Numbers, NEW name \in Names, NEW new_name \in Names,
           Rename(p, name, q, new_name)
    PROVE  IInv'
<1>1. PICK i \in Matches(p, name) : Walked(q) /\ inodes' = Moved(i, q, new_name)
  BY DEF Rename, Moves
<1>2. i \in DOMAIN inodes /\ i # Root /\ inodes[i].listed
  BY <1>1, Named
<1>3. UNCHANGED <<opens, known, ghost, mounted, restarted, orphaned, exact>>
  BY DEF Rename, history
<1>4. /\ inodes' \in [DOMAIN inodes -> File_Inode]
      /\ \A k \in DOMAIN inodes \ {i} : inodes'[k] = inodes[k]
      /\ inodes'[i].parent = q /\ inodes'[i].name = new_name
      /\ inodes'[i].kind = inodes[i].kind
      /\ inodes'[i].st_nlink = inodes[i].st_nlink /\ inodes'[i].listed = inodes[i].listed
      /\ inodes'[i].lookup_count = inodes[i].lookup_count + 1
  <2>1. TypeOK
    BY DEF IInv
  <2>2. /\ Moved(i, q, new_name) \in [DOMAIN inodes -> File_Inode]
        /\ \A k \in DOMAIN inodes \ {i} : Moved(i, q, new_name)[k] = inodes[k]
    BY <1>2, <2>1, MovedFields
  <2>3. /\ Moved(i, q, new_name)[i].parent = q
        /\ Moved(i, q, new_name)[i].name = new_name
        /\ Moved(i, q, new_name)[i].kind = inodes[i].kind
        /\ Moved(i, q, new_name)[i].st_nlink = inodes[i].st_nlink
    BY <1>2, <2>1, MovedFields
  <2>4. Moved(i, q, new_name)[i].listed = inodes[i].listed
    BY <1>2, <2>1, MovedFields
  <2>5. Moved(i, q, new_name)[i].lookup_count = inodes[i].lookup_count + 1
    BY <1>2, <2>1, MovedFields
  <2>. QED
    BY <1>1, <2>2, <2>3, <2>4, <2>5
<1>5. DOMAIN inodes' = DOMAIN inodes
  BY <1>4
<1>6. Table'
  <2>1. Matches(q, new_name) = {}
    BY DEF Rename
  <2>2. 0 \notin DOMAIN inodes /\ Children(0) = {}
    BY DEF IInv, TypeOK, File_Inode, Children, Numbers
  <2>3. Matches(q, new_name) \ {0} = {}
    BY <2>1
  <2>4. 0 # i /\ 0 # Root
    BY <1>2, <2>2 DEF Root
  <2>5. orphaned' = (orphaned \/ Children(0) # {})
    BY <1>3, <2>2 DEF IInv, TypeOK
  <2>6. /\ DOMAIN inodes' \subseteq DOMAIN inodes
        /\ DOMAIN inodes \ {0} \subseteq DOMAIN inodes'
        /\ \A k \in DOMAIN inodes \ {i, 0} : inodes'[k] = inodes[k]
        /\ 0 \notin DOMAIN inodes'
    BY <1>4, <1>5, <2>2
  <2>7. TakesName(i, q, new_name, 0)
    BY <1>1, <1>2, <1>3, <1>4, <2>2, <2>3, <2>4, <2>5, <2>6 DEF TakesName
  <2>. QED
    BY <2>7, MoveKeepsTable
<1>7. TypeOK'
  BY <1>3, <1>4, <1>5 DEF IInv, TypeOK
<1>8. Kernel'
  <2>1. \A k \in DOMAIN inodes : inodes[k].lookup_count \in Int /\ known[k] \in Int
    BY DEF IInv, TypeOK, File_Inode
  <2>2. \A k \in DOMAIN inodes : /\ inodes'[k].kind = inodes[k].kind
                                 /\ inodes'[k].lookup_count >= inodes[k].lookup_count
                                 /\ inodes'[k].lookup_count \in Int
    BY <1>4, <2>1
  <2>. QED
    BY <1>3, <1>5, <2>1, <2>2 DEF IInv, Kernel, KnownThere, Covered
<1>. QED
  BY <1>6, <1>7, <1>8 DEF IInv

(* _replace is asked for one inode by the name of another. *)
LEMMA ReplacedInode ==
    ASSUME IInv, NEW p, NEW q \in Numbers, NEW name \in Names, NEW new_name \in Names,
           NEW i \in Matches(p, name), NEW j \in Matches(q, new_name), Replaces(i, j, p, q)
    PROVE  /\ i \in DOMAIN inodes /\ i # Root /\ inodes[i].listed
           /\ j \in DOMAIN inodes /\ j # Root /\ j # i /\ Walked(q)
           /\ Matches(q, new_name) \ {j} = {} \/ restarted
<1>1. /\ i \in DOMAIN inodes /\ i # Root /\ inodes[i].listed
      /\ j \in DOMAIN inodes /\ j # Root
  BY Named
<1>2. j # i /\ Walked(q)
  BY DEF Replaces, Moves
<1>3. ~ restarted => Matches(q, new_name) \ {j} = {}
  BY DEF IInv, Table, NamesUnique, Matches
<1>. QED
  BY <1>1, <1>2, <1>3

(* The moved inode as both kinds of replacement leave it. *)
LEMMA MoveCounts ==
    ASSUME IInv, NEW i \in DOMAIN inodes, NEW q \in Numbers, NEW new_name \in Names
    PROVE  /\ Moved(i, q, new_name) \in [DOMAIN inodes -> File_Inode]
           /\ \A k \in DOMAIN inodes \ {i} : Moved(i, q, new_name)[k] = inodes[k]
           /\ \A k \in DOMAIN inodes :
                /\ Moved(i, q, new_name)[k].kind = inodes[k].kind
                /\ Moved(i, q, new_name)[k].lookup_count >= inodes[k].lookup_count
<1>1. TypeOK /\ inodes[i].lookup_count \in Int
  BY DEF IInv, TypeOK, File_Inode
<1>2. /\ Moved(i, q, new_name) \in [DOMAIN inodes -> File_Inode]
      /\ \A k \in DOMAIN inodes \ {i} : Moved(i, q, new_name)[k] = inodes[k]
  BY <1>1, MovedFields
<1>3. Moved(i, q, new_name)[i].kind = inodes[i].kind
  BY <1>1, MovedFields
<1>4. Moved(i, q, new_name)[i].lookup_count = inodes[i].lookup_count + 1
  BY <1>1, MovedFields
<1>5. \A k \in DOMAIN inodes : inodes[k].lookup_count \in Int
  BY <1>1 DEF TypeOK, File_Inode
<1>. QED
  BY <1>2, <1>3, <1>4, <1>5

LEMMA ReplaceKeeps ==
    ASSUME IInv, NEW p, NEW q \in Numbers, NEW name \in Names, NEW new_name \in Names,
           Replace(p, name, q, new_name)
    PROVE  IInv'
<1>1. PICK i \in Matches(p, name), j \in Matches(q, new_name) :
        /\ Replaces(i, j, p, q)
        /\ inodes' = Unlinked([Moved(i, q, new_name) EXCEPT ![j].lookup_count = @ + 1], j)
        /\ orphaned' = (orphaned \/ Children(j) # {})
  BY DEF Replace
<1>2. /\ i \in DOMAIN inodes /\ i # Root /\ inodes[i].listed
      /\ j \in DOMAIN inodes /\ j # Root /\ j # i /\ Walked(q)
      /\ Matches(q, new_name) \ {j} = {} \/ restarted
  BY <1>1, ReplacedInode
<1>3. UNCHANGED <<opens, known, ghost, mounted, restarted, exact>>
  BY DEF Replace
<1>. DEFINE m == Moved(i, q, new_name)
            f == [m EXCEPT ![j].lookup_count = @ + 1]
<1>4. /\ m \in [DOMAIN inodes -> File_Inode]
      /\ \A k \in DOMAIN inodes \ {i} : m[k] = inodes[k]
      /\ \A k \in DOMAIN inodes :
            m[k].kind = inodes[k].kind /\ m[k].lookup_count >= inodes[k].lookup_count
  BY <1>2, MoveCounts
<1>5. /\ m[i].parent = q /\ m[i].name = new_name
      /\ m[i].st_nlink = inodes[i].st_nlink
  BY <1>2, MovedFields DEF IInv
<1>6. m[i].listed
  BY <1>2, MovedFields DEF IInv
<1>. HIDE DEF m
<1>7. /\ f \in [DOMAIN inodes -> File_Inode]
      /\ \A k \in DOMAIN inodes \ {j} : f[k] = m[k]
      /\ f[j].kind = m[j].kind /\ f[j].lookup_count = m[j].lookup_count + 1
  BY <1>2, <1>4 DEF File_Inode
<1>8. inodes' = Unlinked(f, j)
  BY <1>1 DEF m
<1>. HIDE DEF f
<1>9. /\ inodes' \in [DOMAIN inodes -> File_Inode]
      /\ \A k \in DOMAIN inodes \ {j} : inodes'[k] = m[k]
      /\ inodes'[j].kind = f[j].kind /\ inodes'[j].lookup_count = f[j].lookup_count
      /\ ~ inodes'[j].listed
  BY <1>2, <1>7, <1>8, UnlinkedFields
<1>10. DOMAIN inodes' = DOMAIN inodes
  BY <1>9
<1>11. Table'
  <2>1. TakesName(i, q, new_name, j)
    BY <1>1, <1>2, <1>3, <1>4, <1>5, <1>6, <1>9, <1>10 DEF TakesName
  <2>. QED
    BY <2>1, MoveKeepsTable
<1>12. TypeOK'
  <2>1. orphaned' \in BOOLEAN
    BY <1>1
  <2>. QED
    BY <1>3, <1>9, <1>10, <2>1 DEF IInv, TypeOK
<1>13. Kernel'
  <2>1. \A k \in DOMAIN inodes : /\ inodes[k].lookup_count \in Int /\ known[k] \in Int
                                 /\ m[k].lookup_count \in Int
    BY <1>4 DEF IInv, TypeOK, File_Inode
  <2>2. \A k \in DOMAIN inodes : /\ inodes'[k].kind = inodes[k].kind
                                 /\ inodes'[k].lookup_count >= inodes[k].lookup_count
                                 /\ inodes'[k].lookup_count \in Int
    BY <1>2, <1>4, <1>7, <1>9, <2>1
  <2>. QED
    BY <1>3, <1>10, <2>1, <2>2 DEF IInv, Kernel, KnownThere, Covered
<1>. QED
  BY <1>11, <1>12, <1>13 DEF IInv

LEMMA ReplaceForgottenKeeps ==
    ASSUME IInv, NEW p, NEW q \in Numbers, NEW name \in Names, NEW new_name \in Names,
           ReplaceForgotten(p, name, q, new_name)
    PROVE  IInv'
<1>1. PICK i \in Matches(p, name), j \in Matches(q, new_name) :
        /\ Replaces(i, j, p, q)
        /\ inodes[j].lookup_count + 1 <= 0
        /\ inodes' = Without(Moved(i, q, new_name), j) /\ Deleted(j)
        /\ orphaned' = (orphaned \/ Children(j) # {})
  BY DEF ReplaceForgotten
<1>2. /\ i \in DOMAIN inodes /\ i # Root /\ inodes[i].listed
      /\ j \in DOMAIN inodes /\ j # Root /\ j # i /\ Walked(q)
      /\ Matches(q, new_name) \ {j} = {} \/ restarted
  BY <1>1, ReplacedInode
<1>3. UNCHANGED <<opens, mounted, restarted, exact>>
  BY DEF ReplaceForgotten
<1>. DEFINE m == Moved(i, q, new_name)
<1>4. /\ m \in [DOMAIN inodes -> File_Inode]
      /\ \A k \in DOMAIN inodes \ {i} : m[k] = inodes[k]
      /\ \A k \in DOMAIN inodes :
            m[k].kind = inodes[k].kind /\ m[k].lookup_count >= inodes[k].lookup_count
  BY <1>2, MoveCounts
<1>5. /\ m[i].parent = q /\ m[i].name = new_name
      /\ m[i].st_nlink = inodes[i].st_nlink
  BY <1>2, MovedFields DEF IInv
<1>6. m[i].listed
  BY <1>2, MovedFields DEF IInv
<1>7. inodes' = Without(m, j)
  BY <1>1
<1>. HIDE DEF m
<1>8. /\ DOMAIN inodes' = DOMAIN inodes \ {j}
      /\ \A k \in DOMAIN inodes \ {j} : inodes'[k] = m[k]
  BY <1>4, <1>7 DEF Without
<1>9. Table'
  <2>1. TakesName(i, q, new_name, j)
    BY <1>1, <1>2, <1>3, <1>4, <1>5, <1>6, <1>8 DEF TakesName
  <2>. QED
    BY <2>1, MoveKeepsTable
<1>10. exact => opens'[j] = 0
  (* Resolved with no lookups left, j is a link, which has no handles. *)
  <2>1. SUFFICES ASSUME exact
                 PROVE  inodes[j].kind # "file"
    BY <1>2, <1>3 DEF IInv, TypeOK, Kernel, Covered
  <2>2. known[j] <= inodes[j].lookup_count
    BY <1>2, <2>1 DEF IInv, TypeOK, Kernel, Covered
  <2>3. ~ (known[j] > 0)
    BY <1>1, <1>2, <2>2 DEF IInv, TypeOK, File_Inode
  <2>. QED
    BY <1>1, <2>3 DEF Replaces, Resolved, Stands
<1>11. /\ opens' \in [Numbers -> Nat] /\ \A k \in Numbers : opens'[k] <= opens[k]
  BY <1>3 DEF IInv, TypeOK
<1>12. orphaned' \in BOOLEAN
  BY <1>1
<1>13. TypeOK' /\ Kernel'
  BY <1>1, <1>2, <1>3, <1>4, <1>7, <1>10, <1>11, <1>12, RemovalKeepsKernel
<1>. QED
  BY <1>9, <1>13 DEF IInv

-----------------------------------------------------------------------------
(* Where only handles change, all but their part of the kernel's does not.  *)
LEMMA SameTable ==
    ASSUME IInv, UNCHANGED <<inodes, restarted, orphaned>>
    PROVE  Table'
BY DEF IInv, Table, RootKept, NamesUnique, ListedLinked, Reachable

LEMMA OpenKeeps ==
    ASSUME IInv, NEW i \in Numbers, Open(i)
    PROVE  IInv'
<1>1. /\ i \in DOMAIN inodes /\ inodes[i].kind = "file"
      /\ opens' = [opens EXCEPT ![i] = @ + 1]
      /\ UNCHANGED <<inodes, known, ghost, mounted, restarted, orphaned, exact>>
  BY DEF Open, history
<1>2. Table'
  BY <1>1, SameTable
<1>3. TypeOK'
  BY <1>1 DEF IInv, TypeOK
<1>4. KnownThere'
  BY <1>1 DEF IInv, Kernel, KnownThere
<1>5. Covered'
  <2>1. \A k \in Numbers : k # i => opens'[k] = opens[k]
    BY <1>1 DEF IInv, TypeOK
  <2>. QED
    BY <1>1, <2>1 DEF IInv, Kernel, Covered
<1>. QED
  BY <1>2, <1>3, <1>4, <1>5 DEF IInv, Kernel

LEMMA FewerHandlesKeepKernel ==
    ASSUME IInv, opens' \in [Numbers -> Nat], \A k \in Numbers : opens'[k] <= opens[k],
           UNCHANGED <<inodes, known, ghost, exact>>
    PROVE  Kernel'
<1>1. \A k \in Numbers : opens'[k] > 0 => opens[k] > 0
  BY DEF IInv, TypeOK
<1>2. KnownThere'
  BY DEF IInv, Kernel, KnownThere
<1>3. Covered'
  BY <1>1 DEF IInv, Kernel, Covered
<1>. QED
  BY <1>2, <1>3 DEF Kernel

LEMMA ReleaseKeeps ==
    ASSUME IInv, NEW i \in Numbers, Release(i)
    PROVE  IInv'
<1>1. /\ opens[i] > 0 /\ opens' = [opens EXCEPT ![i] = @ - 1]
      /\ UNCHANGED <<mounted, restarted, orphaned, exact>>
  BY DEF Release, history
<1>2. opens' \in [Numbers -> Nat] /\ \A k \in Numbers : opens'[k] <= opens[k]
  BY <1>1 DEF IInv, TypeOK
<1>3. CASE UNCHANGED <<inodes, known, ghost>>
  <2>1. Table'
    BY <1>1, <1>3, SameTable
  <2>2. TypeOK'
    BY <1>1, <1>2, <1>3 DEF IInv, TypeOK
  <2>3. Kernel'
    BY <1>1, <1>2, <1>3, FewerHandlesKeepKernel
  <2>. QED
    BY <2>1, <2>2, <2>3 DEF IInv
<1>4. CASE /\ opens[i] = 1 /\ i \in DOMAIN inodes /\ inodes[i].st_nlink = 0
           /\ inodes' = Without(inodes, i) /\ Deleted(i)
  <2>1. i # Root /\ (restarted \/ orphaned \/ Children(i) = {})
    BY <1>4, UnlinkedIsEmpty
  <2>2. Table'
    BY <1>1, <1>4, <2>1, RemovalKeepsTable
  <2>3. exact => opens'[i] = 0
    BY <1>1, <1>4 DEF IInv, TypeOK
  <2>4. /\ inodes \in [DOMAIN inodes -> File_Inode] /\ orphaned' \in BOOLEAN
        /\ \A k \in DOMAIN inodes : inodes[k].lookup_count >= inodes[k].lookup_count
    BY <1>1 DEF IInv, TypeOK, File_Inode
  <2>5. TypeOK' /\ Kernel'
    BY <1>1, <1>2, <1>4, <2>1, <2>3, <2>4, RemovalKeepsKernel
  <2>. QED
    BY <2>2, <2>5 DEF IInv
<1>. QED
  BY <1>3, <1>4 DEF Release

LEMMA ReleaseFailsKeeps ==
    ASSUME IInv, NEW i \in Numbers, ReleaseFails(i)
    PROVE  IInv'
<1>1. /\ opens' = [opens EXCEPT ![i] = 0] /\ mounted' = FALSE
      /\ UNCHANGED <<inodes, known, ghost, restarted, orphaned, exact>>
  BY DEF ReleaseFails, history
<1>2. opens' \in [Numbers -> Nat] /\ \A k \in Numbers : opens'[k] <= opens[k]
  BY <1>1 DEF IInv, TypeOK
<1>3. Table'
  BY <1>1, SameTable
<1>4. TypeOK'
  <2>1. mounted' \in BOOLEAN
    BY <1>1
  <2>. QED
    BY <1>1, <1>2, <2>1 DEF IInv, TypeOK
<1>5. Kernel'
  BY <1>1, <1>2, FewerHandlesKeepKernel
<1>. QED
  BY <1>3, <1>4, <1>5 DEF IInv

(* The table after a forget of n lookups of i. *)
LEMMA LostKeepsTable ==
    ASSUME IInv, NEW i \in Numbers, NEW n \in Int, inodes' = Lost(i, n),
           UNCHANGED <<restarted, orphaned>>
    PROVE  Table'
<1>1. CASE i \notin DOMAIN inodes
  BY <1>1, SameTable DEF Lost
<1>2. CASE i \in DOMAIN inodes /\ Removes(i)
  <2>1. i # Root /\ (restarted \/ orphaned \/ Children(i) = {})
    BY <1>2, UnlinkedIsEmpty DEF Removes
  <2>2. inodes' = Without(inodes, i)
    BY <1>2 DEF Lost
  <2>. QED
    BY <1>2, <2>1, <2>2, RemovalKeepsTable
<1>3. CASE i \in DOMAIN inodes /\ ~ Removes(i)
  <2>1. inodes' = Counted(i, -n) /\ -n \in Int
    BY <1>3 DEF Lost
  <2>. QED
    BY <1>3, <2>1, CountKeepsTable
<1>. QED
  BY <1>1, <1>2, <1>3

LEMMA LostFields ==
    ASSUME IInv, NEW i \in Numbers, NEW n \in Int
    PROVE  /\ DOMAIN Lost(i, n) = IF i \in DOMAIN inodes /\ Removes(i)
                                  THEN DOMAIN inodes \ {i} ELSE DOMAIN inodes
           /\ Lost(i, n) \in [DOMAIN Lost(i, n) -> File_Inode]
           /\ Root \in DOMAIN Lost(i, n)
           /\ \A k \in DOMAIN Lost(i, n) :
                /\ Lost(i, n)[k].kind = inodes[k].kind
                /\ Lost(i, n)[k].lookup_count
                    = inodes[k].lookup_count - (IF k = i THEN n ELSE 0)
<1>1. CASE i \notin DOMAIN inodes
  <2>1. Lost(i, n) = inodes
    BY <1>1 DEF Lost
  <2>. QED
    BY <1>1, <2>1 DEF IInv, TypeOK, File_Inode
<1>2. CASE i \in DOMAIN inodes /\ Removes(i)
  <2>1. Lost(i, n) = Without(inodes, i)
    BY <1>2 DEF Lost
  <2>2. i # Root
    BY <1>2, UnlinkedIsEmpty DEF Removes
  <2>. QED
    BY <1>2, <2>1, <2>2 DEF IInv, TypeOK, File_Inode, Without
<1>3. CASE i \in DOMAIN inodes /\ ~ Removes(i)
  <2>1. Lost(i, n) = Counted(i, -n) /\ -n \in Int
    BY <1>3 DEF Lost
  <2>2. /\ DOMAIN Lost(i, n) = DOMAIN inodes
        /\ Lost(i, n) \in [DOMAIN inodes -> File_Inode]
        /\ \A k \in DOMAIN inodes :
            /\ Lost(i, n)[k].kind = inodes[k].kind
            /\ Lost(i, n)[k].lookup_count = inodes[k].lookup_count + (IF k = i THEN -n ELSE 0)
    BY <1>3, <2>1, CountedFields DEF IInv
  <2>3. Root \in DOMAIN inodes /\ \A k \in DOMAIN inodes : inodes[k].lookup_count \in Int
    BY DEF IInv, TypeOK, File_Inode
  <2>. QED
    BY <1>3, <2>2, <2>3
<1>. QED
  BY <1>1, <1>2, <1>3

LEMMA ForgetKeeps ==
    ASSUME IInv, NEW i \in Numbers, Forget(i)
    PROVE  IInv'
<1>1. /\ opens[i] = 0
      /\ inodes' = Lost(i, known[i])
      /\ known' = [known EXCEPT ![i] = 0]
      /\ UNCHANGED <<opens, ghost, mounted, restarted, orphaned, exact>>
  BY DEF Forget, history
<1>2. known[i] \in Int
  BY DEF IInv, TypeOK
<1>3. /\ DOMAIN inodes' = IF i \in DOMAIN inodes /\ Removes(i)
                           THEN DOMAIN inodes \ {i} ELSE DOMAIN inodes
      /\ inodes' \in [DOMAIN inodes' -> File_Inode]
      /\ Root \in DOMAIN inodes'
      /\ \A k \in DOMAIN inodes' :
            /\ inodes'[k].kind = inodes[k].kind
            /\ inodes'[k].lookup_count = inodes[k].lookup_count - (IF k = i THEN known[i] ELSE 0)
  BY <1>1, <1>2, LostFields
<1>4. Table'
  BY <1>1, <1>2, LostKeepsTable
<1>5. TypeOK'
  BY <1>1, <1>3 DEF IInv, TypeOK
<1>6. KnownThere'
  BY <1>1, <1>3 DEF IInv, TypeOK, Kernel, KnownThere
<1>7. Covered'
  <2>1. known'[i] = 0 /\ \A k \in Numbers \ {i} : known'[k] = known[k]
    BY <1>1 DEF IInv, TypeOK
  <2>2. \A k \in DOMAIN inodes : inodes[k].lookup_count \in Int
    BY DEF IInv, TypeOK, File_Inode
  <2>. QED
    BY <1>1, <1>2, <1>3, <2>1, <2>2 DEF IInv, Kernel, Covered
<1>. QED
  BY <1>4, <1>5, <1>6, <1>7 DEF IInv, Kernel

(* A late forget finds nothing, as long as the counts are exact.           *)
LEMMA ForgetGhostKeeps ==
    ASSUME IInv, NEW i \in Numbers, ForgetGhost(i)
    PROVE  IInv'
<1>1. /\ ghost[i] > 0
      /\ inodes' = Lost(i, ghost[i])
      /\ UNCHANGED <<opens, mounted, restarted, orphaned, exact>>
  BY DEF ForgetGhost, history
<1>2. ghost[i] \in Int
  BY DEF IInv, TypeOK
<1>3. /\ DOMAIN inodes' = IF i \in DOMAIN inodes /\ Removes(i)
                           THEN DOMAIN inodes \ {i} ELSE DOMAIN inodes
      /\ inodes' \in [DOMAIN inodes' -> File_Inode]
      /\ Root \in DOMAIN inodes'
  BY <1>1, <1>2, LostFields
<1>4. \/ /\ i \in DOMAIN inodes /\ Removes(i)
         /\ ghost' = [ghost EXCEPT ![i] = known[i]] /\ known' = [known EXCEPT ![i] = 0]
      \/ /\ ~ (i \in DOMAIN inodes /\ Removes(i))
         /\ ghost' = [ghost EXCEPT ![i] = 0] /\ known' = known
  BY DEF ForgetGhost
<1>5. Table'
  BY <1>1, <1>2, LostKeepsTable
<1>6. TypeOK'
  <2>1. ghost' \in [Numbers -> Nat] /\ known' \in [Numbers -> Nat]
    BY <1>4 DEF IInv, TypeOK
  <2>. QED
    BY <1>1, <1>3, <2>1 DEF IInv, TypeOK
<1>7. KnownThere'
  BY <1>3, <1>4 DEF IInv, TypeOK, Kernel, KnownThere
<1>8. Covered'
  <2>1. SUFFICES ASSUME exact
                 PROVE  Covered'
    BY <1>1 DEF Covered
  <2>2. i \notin DOMAIN inodes
    BY <1>1, <1>2, <2>1 DEF IInv, Kernel, Covered
  <2>3. inodes' = inodes /\ known' = known
    BY <1>1, <1>4, <2>2 DEF Lost
  <2>4. \A k \in Numbers \ {i} : ghost'[k] = ghost[k]
    BY <1>4, <2>2 DEF IInv, TypeOK
  <2>. QED
    BY <1>1, <2>2, <2>3, <2>4 DEF IInv, Kernel, Covered
<1>. QED
  BY <1>5, <1>6, <1>7, <1>8 DEF IInv, Kernel

(* Read back are a part of the inodes of before, the root among them.      *)
LEMMA ReadBackKeeps ==
    ASSUME IInv, NEW S \in SUBSET DOMAIN inodes, Root \in S,
           NEW f, DOMAIN f = S, \A k \in S : f[k] = inodes[k], ReadBack(f)
    PROVE  IInv'
<1>1. /\ inodes' = [i \in S |-> [f[i] EXCEPT !.lookup_count = 1, !.listed = TRUE]]
      /\ opens' = Nothing /\ known' = Nothing /\ ghost' = Nothing
      /\ mounted' = TRUE /\ restarted' = TRUE /\ exact' = TRUE /\ orphaned' = orphaned
  BY DEF ReadBack
<1>2. \A k \in S : inodes[k] \in File_Inode
  BY DEF IInv, TypeOK
<1>3. /\ DOMAIN inodes' = S /\ inodes' \in [S -> File_Inode]
      /\ \A k \in S : inodes'[k].lookup_count = 1
  <2>1. \A k \in S : [inodes[k] EXCEPT !.lookup_count = 1] \in File_Inode
    BY <1>2 DEF File_Inode
  <2>2. \A k \in S : [[inodes[k] EXCEPT !.lookup_count = 1] EXCEPT !.listed = TRUE] \in File_Inode
    BY <2>1 DEF File_Inode
  <2>3. \A k \in S : [[inodes[k] EXCEPT !.lookup_count = 1] EXCEPT !.listed = TRUE]
                        = [inodes[k] EXCEPT !.lookup_count = 1, !.listed = TRUE]
    BY <1>2 DEF File_Inode
  <2>4. \A k \in S : inodes'[k] = [inodes[k] EXCEPT !.lookup_count = 1, !.listed = TRUE]
    BY <1>1
  <2>5. \A k \in S : inodes'[k] \in File_Inode
    BY <2>2, <2>3, <2>4
  <2>6. \A k \in S : inodes'[k].lookup_count = 1
    BY <1>2, <2>4 DEF File_Inode
  <2>7. inodes' = [k \in S |-> inodes'[k]]
    BY <1>1
  <2>. QED
    BY <2>5, <2>6, <2>7
<1>4. TypeOK'
  <2>1. DOMAIN inodes' \subseteq Numbers /\ Root \in DOMAIN inodes'
    BY <1>3 DEF IInv, TypeOK
  <2>2. opens' \in [Numbers -> Nat] /\ known' \in [Numbers -> Nat] /\ ghost' \in [Numbers -> Nat]
    BY <1>1 DEF Nothing
  <2>3. mounted' \in BOOLEAN /\ restarted' \in BOOLEAN /\ exact' \in BOOLEAN
    BY <1>1
  <2>4. orphaned' \in BOOLEAN
    BY <1>1 DEF IInv, TypeOK
  <2>. QED
    BY <1>3, <2>1, <2>2, <2>3, <2>4 DEF TypeOK
<1>5. Table'
  <2>1. RootKept'
    BY <1>1, <1>2 DEF IInv, Table, RootKept, File_Inode
  <2>. QED
    BY <1>1, <2>1 DEF Table, NamesUnique, ListedLinked, Reachable
<1>6. Kernel'
  <2>1. \A k \in Numbers : opens'[k] = 0 /\ known'[k] = 0 /\ ghost'[k] = 0
    BY <1>1 DEF Nothing
  <2>. QED
    BY <1>3, <2>1 DEF Kernel, KnownThere, Covered
<1>. QED
  BY <1>4, <1>5, <1>6 DEF IInv

LEMMA RestartKeeps ==
    ASSUME IInv, Restart
    PROVE  IInv'
BY ReadBackKeeps DEF Restart, IInv, TypeOK

LEMMA ReplaceCrashKeeps ==
    ASSUME IInv, NEW p, NEW q \in Numbers, NEW name \in Names, NEW new_name \in Names,
           ReplaceCrash(p, name, q, new_name)
    PROVE  IInv'
<1>1. PICK j \in Matches(q, new_name) : ReadBack(Without(inodes, j))
  BY DEF ReplaceCrash
<1>2. j # Root
  BY Named
<1>. DEFINE S == DOMAIN inodes \ {j}
            f == Without(inodes, j)
<1>3. DOMAIN f = S /\ \A k \in S : f[k] = inodes[k]
  BY WithoutFields
<1>4. Root \in S /\ S \in SUBSET DOMAIN inodes
  BY <1>2 DEF IInv, TypeOK
<1>. HIDE DEF f, S
<1>5. ReadBack(f)
  BY <1>1 DEF f
<1>. QED
  BY <1>3, <1>4, <1>5, ReadBackKeeps

-----------------------------------------------------------------------------
LEMMA InitHolds == Init => IInv
<1>. SUFFICES ASSUME Init
              PROVE  IInv
  OBVIOUS
<1>. DEFINE root == Inode(Root, RootName, "dir", 1, 0)
<1>1. /\ Root \in Numbers /\ root \in File_Inode
      /\ root.name = RootName /\ root.st_nlink = 1 /\ root.kind = "dir"
      /\ root.listed /\ root.parent = Root /\ root.lookup_count = 1
  BY NamespaceAssumption DEF Inode, File_Inode, Numbers, Root, Kinds
<1>. HIDE DEF root
<1>2. inodes = [i \in {Root} |-> root]
  BY DEF Init, root
<1>3. DOMAIN inodes = {Root} /\ inodes[Root] = root
  BY <1>2
<1>4. TypeOK
  <2>1. opens \in [Numbers -> Nat] /\ known \in [Numbers -> Nat] /\ ghost \in [Numbers -> Nat]
    BY DEF Init, Nothing
  <2>2. mounted \in BOOLEAN /\ restarted \in BOOLEAN /\ orphaned \in BOOLEAN /\ exact \in BOOLEAN
    BY DEF Init
  <2>. QED
    BY <1>1, <1>2, <1>3, <2>1, <2>2 DEF TypeOK
<1>5. Table
  BY <1>1, <1>3 DEF Table, RootKept, NamesUnique, ListedLinked, Reachable
<1>6. Kernel
  <2>1. \A k \in Numbers : opens[k] = 0 /\ known[k] = 0 /\ ghost[k] = 0
    BY DEF Init, Nothing
  <2>. QED
    BY <1>1, <1>3, <2>1 DEF Kernel, KnownThere, Covered
<1>. QED
  BY <1>4, <1>5, <1>6 DEF IInv

LEMMA StepKeeps == IInv /\ [Next]_vars => IInv'
<1>. SUFFICES ASSUME IInv, [Next]_vars
              PROVE  IInv'
  OBVIOUS
<1>1. CASE UNCHANGED vars
  <2>1. TypeOK' /\ Table'
    BY <1>1, SameTable DEF vars, IInv, TypeOK
  <2>2. Kernel'
    BY <1>1 DEF vars, IInv, Kernel, KnownThere, Covered
  <2>. QED
    BY <2>1, <2>2 DEF IInv
<1>2. ASSUME NEW p \in Numbers, NEW name \in Names, OnName(p, name)
      PROVE  IInv'
  <2>1. CASE Lookup(p, name)
    BY <2>1, LookupKeeps
  <2>2. CASE Create(p, name)
    <3>1. New(p, name, "file", 1, 1) /\ "file" \in Kinds
      BY <2>2 DEF Create, Kinds
    <3>. QED
      BY <3>1, NewKeeps
  <2>3. CASE Mknod(p, name)
    <3>1. New(p, name, "file", 1, 0) /\ "file" \in Kinds
      BY <2>3 DEF Mknod, Kinds
    <3>. QED
      BY <3>1, NewKeeps
  <2>4. CASE Mkdir(p, name)
    <3>1. New(p, name, "dir", 1, 0) /\ "dir" \in Kinds
      BY <2>4 DEF Mkdir, Kinds
    <3>. QED
      BY <3>1, NewKeeps
  <2>5. CASE Symlink(p, name)
    <3>1. New(p, name, "symlink", 2, 0) /\ "symlink" \in Kinds
      BY <2>5 DEF Symlink, Kinds
    <3>. QED
      BY <3>1, NewKeeps
  <2>6. CASE \E i \in Numbers : Link(i, p, name)
    BY <2>6, LinkKeeps
  <2>7. CASE Unlink(p, name)
    BY <2>7, UnlinkKeeps
  <2>8. CASE Rmdir(p, name)
    BY <2>8, RmdirKeeps
  <2>9. CASE RmdirRefused(p, name)
    BY <2>9, RmdirRefusedKeeps
  <2>. QED
    BY <1>2, <2>1, <2>2, <2>3, <2>4, <2>5, <2>6, <2>7, <2>8, <2>9 DEF OnName
<1>3. ASSUME NEW p \in Numbers, NEW q \in Numbers, NEW name \in Names, NEW new_name \in Names,
             OnNames(p, name, q, new_name)
      PROVE  IInv'
  BY <1>3, RenameKeeps, ReplaceKeeps, ReplaceForgottenKeeps, ReplaceCrashKeeps DEF OnNames
<1>4. CASE \E p \in Numbers : Readdir(p)
  BY <1>4, ReaddirKeeps
<1>5. ASSUME NEW i \in Numbers, OnInode(i)
      PROVE  IInv'
  BY <1>5, OpenKeeps, ReleaseKeeps, ReleaseFailsKeeps, ForgetKeeps, ForgetGhostKeeps
  DEF OnInode
<1>6. CASE Restart
  BY <1>6, RestartKeeps
<1>. QED
  BY <1>1, <1>2, <1>3, <1>4, <1>5, <1>6 DEF Next

LEMMA Invariance == Spec => []IInv
BY InitHolds, StepKeeps, PTL DEF Spec

(* The table and what the kernel holds of it keep their types; in           *)
(* particular release never counts handles below zero and the root stays.   *)
THEOREM TypeCorrect == Spec => []TypeOK
<1>1. IInv => TypeOK
  BY DEF IInv
<1>. QED
  BY <1>1, Invariance, PTL

(* However files and directories are made, moved, replaced and removed, a   *)
(* name stands for one inode until inodes are read back from disk.          *)
THEOREM NamesStayUnique == Spec => []NamesUnique
<1>1. IInv => NamesUnique
  BY DEF IInv, Table
<1>. QED
  BY <1>1, Invariance, PTL

(* No removal of a directory, by rmdir, forget or release, leaves a listed  *)
(* entry behind in it.                                                      *)
THEOREM EntriesStayReachable == Spec => []Reachable
<1>1. IInv => Reachable
  BY DEF IInv, Table
<1>. QED
  BY <1>1, Invariance, PTL

(* While lookup_count covers the kernel's lookups an open file is there.    *)
THEOREM OpenFilesStay == Spec => []OpenKept
<1>1. IInv => OpenKept
  BY DEF IInv, Kernel, Covered, OpenKept
<1>. QED
  BY <1>1, Invariance, PTL
=============================================================================
