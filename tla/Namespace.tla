----------------------------- MODULE Namespace -----------------------------
(***************************************************************************)
(* The handlers of VeratyFS.py that make, name and remove inodes, with the  *)
(* kernel that calls them.  A handler has no await that lets another task   *)
(* run, so each is one step; each ends with a commit of what it changed, so *)
(* the disk has the inodes as memory does (FSMeta deletes at once, which    *)
(* ReplaceCrash is about).                                                  *)
(*                                                                          *)
(* Of the kernel is modelled what the FUSE protocol lets a file system rely *)
(* on: it uses an inode only while it knows it (known counts the replies    *)
(* that told it), forgets one that no process uses with all its lookups at  *)
(* once, makes a name only when there is none, and never renames a          *)
(* directory into itself.  A forget may arrive late: ghost counts the       *)
(* lookups of an inode that is gone from the table.                         *)
(*                                                                          *)
(* Left out: data (FileBlocks), attributes, offsets in a listing.           *)
(***************************************************************************)
EXTENDS Integers

CONSTANTS
    Names,
    MaxInode,   \* bound: inode numbers
    MaxLookups, \* bound: lookups (counted, and as the kernel knows) and links
    MaxOpens    \* bound: handles of an inode

Numbers == 1..MaxInode
Root == 1               \* pyfuse3.ROOT_INODE
RootName == "root"      \* '..', which no request asks for

ASSUME NamespaceAssumption ==
    /\ MaxInode \in Nat \ {0} /\ MaxLookups \in Nat /\ MaxOpens \in Nat
    /\ RootName \notin Names

Kinds == {"dir", "file", "symlink", "link"}

VARIABLES
    inodes,     \* FSMeta: File_Inode by number
    opens,      \* inode_open_count, the handles the kernel has
    known,      \* the kernel: lookups of an inode it has not forgotten
    ghost,      \* the kernel: those of an inode that is no longer there
    mounted,    \* no handler has raised anything but FUSEError
    restarted,  \* history: inodes were read back from disk
    orphaned,   \* history: a directory was replaced that was not empty
    exact       \* history: lookup_count has not fallen behind the kernel's

history == <<restarted, orphaned, exact>>
vars == <<inodes, opens, known, ghost, mounted, restarted, orphaned, exact>>

File_Inode ==
    [parent : Numbers, name : Names \cup {RootName}, kind : Kinds, st_nlink : Int,
     lookup_count : Int, listed : BOOLEAN, hard_link : 0..MaxInode]

TypeOK ==
    /\ DOMAIN inodes \subseteq Numbers /\ Root \in DOMAIN inodes
    /\ inodes \in [DOMAIN inodes -> File_Inode]
    /\ opens \in [Numbers -> Nat] /\ known \in [Numbers -> Nat] /\ ghost \in [Numbers -> Nat]
    /\ mounted \in BOOLEAN /\ restarted \in BOOLEAN
    /\ orphaned \in BOOLEAN /\ exact \in BOOLEAN

Inode(parent, name, kind, lookup_count, hard_link) ==
    [parent |-> parent, name |-> name, kind |-> kind, st_nlink |-> 1,
     lookup_count |-> lookup_count, listed |-> TRUE, hard_link |-> hard_link]

Nothing == [i \in Numbers |-> 0]

(* init_file_system *)
Init ==
    /\ inodes = [i \in {Root} |-> Inode(Root, RootName, "dir", 1, 0)]
    /\ opens = Nothing /\ known = Nothing /\ ghost = Nothing
    /\ mounted = TRUE /\ restarted = FALSE /\ orphaned = FALSE /\ exact = TRUE

-----------------------------------------------------------------------------
(* lookup: the inodes that a name in a directory may be taken for. *)
Matches(p, name) ==
    {i \in DOMAIN inodes :
        inodes[i].parent = p /\ inodes[i].name = name /\ inodes[i].listed}

(* The entries that readdir lists and rmdir looks for. *)
Children(p) == {i \in DOMAIN inodes : inodes[i].parent = p /\ inodes[i].listed}

(* gen_inode_number *)
IsNextNumber(n) == n - 1 \in DOMAIN inodes /\ \A i \in DOMAIN inodes : i < n

(* The kernel knows a directory it works in, and what a name stands for, if that  *)
(* was made by link from the reply, which gave the inode linked to.         *)
Walked(p) ==
    /\ mounted
    /\ p \in DOMAIN inodes /\ inodes[p].kind = "dir" /\ inodes[p].listed
    /\ p = Root \/ known[p] > 0
Stands(i) == IF inodes[i].kind = "link" THEN inodes[i].hard_link ELSE i
Resolved(i) == known[Stands(i)] > 0

MayLearn(i) == known[i] + ghost[i] < MaxLookups     \* bound

(* The directories on the way from p to the root, and p. *)
Above(p) ==
    LET up[n \in 0..MaxInode] ==
            IF n = 0 THEN {p}
            ELSE LET below == up[n-1]
                 IN  below \cup {inodes[i].parent : i \in below \cap DOMAIN inodes}
    IN  up[MaxInode]

Counted(i, n) == [inodes EXCEPT ![i].lookup_count = @ + n]
WithNew(f, n, inode) == [i \in DOMAIN f \cup {n} |-> IF i = n THEN inode ELSE f[i]]
Without(f, i) == [j \in DOMAIN f \ {i} |-> f[j]]

(* What the kernel knows of an inode after del self.inodes[i]. *)
Deleted(i) ==
    /\ known' = [known EXCEPT ![i] = 0]
    /\ ghost' = [ghost EXCEPT ![i] = @ + known[i]]

-----------------------------------------------------------------------------
Lookup(p, name) ==
    /\ Walked(p)
    /\ \E i \in Matches(p, name) :
        /\ inodes[i].kind # "link"    \* mode 0, which the kernel refuses
        /\ MayLearn(i) /\ inodes[i].lookup_count < MaxLookups
        /\ inodes' = Counted(i, 1)
        /\ known' = [known EXCEPT ![i] = @ + 1]
    /\ UNCHANGED <<opens, ghost, mounted, history>>

(* readdir: the reply to a listing is a lookup of every entry. *)
Readdir(p) ==
    /\ Walked(p)
    /\ \E i \in Children(p) \ {Root} :
        /\ inodes[i].kind # "link"
        /\ MayLearn(i)
        /\ known' = [known EXCEPT ![i] = @ + 1]
    /\ exact' = FALSE
    /\ UNCHANGED <<inodes, opens, ghost, mounted, restarted, orphaned>>

(* _create: a number that the kernel still knows from before is given again. *)
New(p, name, kind, lookup_count, handles) ==
    /\ Walked(p) /\ inodes[p].st_nlink # 0
    /\ Matches(p, name) = {}
    /\ \E n \in Numbers :
        /\ IsNextNumber(n)
        /\ MayLearn(n) /\ opens[n] + handles <= MaxOpens
        /\ inodes' = WithNew(inodes, n, Inode(p, name, kind, lookup_count, 0))
        /\ known' = [known EXCEPT ![n] = @ + 1]
        /\ opens' = [opens EXCEPT ![n] = @ + handles]
        /\ exact' = (exact /\ ghost[n] = 0)
    /\ UNCHANGED <<ghost, mounted, restarted, orphaned>>

Create(p, name) == New(p, name, "file", 1, 1)
Mknod(p, name) == New(p, name, "file", 1, 0)
Mkdir(p, name) == New(p, name, "dir", 1, 0)
Symlink(p, name) == New(p, name, "symlink", 2, 0)

(* link: the new name is an inode of its own, and the reply a lookup of the *)
(* other.                                                                   *)
Link(i, p, name) ==
    /\ i \in DOMAIN inodes /\ inodes[i].kind = "file" /\ inodes[i].listed
    /\ known[i] > 0 /\ MayLearn(i) /\ inodes[i].st_nlink < MaxLookups
    /\ Walked(p) /\ inodes[p].st_nlink # 0
    /\ Matches(p, name) = {}
    /\ \E n \in Numbers :
        /\ IsNextNumber(n)
        /\ inodes' = WithNew([inodes EXCEPT ![i].st_nlink = @ + 1], n,
                             Inode(p, name, "link", 1, i))
    /\ known' = [known EXCEPT ![i] = @ + 1]
    /\ exact' = FALSE
    /\ UNCHANGED <<opens, ghost, mounted, restarted, orphaned>>

UnlinkedInode(r) == [r EXCEPT !.st_nlink = r.st_nlink - 1, !.listed = FALSE]
Unlinked(f, i) == [f EXCEPT ![i] = UnlinkedInode(f[i])]

(* Mutant: the inode is removed with its last name. *)
UnlinkRemoves(p, name) ==
    /\ Walked(p)
    /\ \E i \in Matches(p, name) :
        /\ inodes[i].kind # "dir" /\ Resolved(i)
        /\ inodes' = Without(inodes, i) /\ Deleted(i)
    /\ UNCHANGED <<opens, mounted, history>>

(* The lookup in unlink is taken back. *)
Unlink(p, name) ==
    /\ Walked(p)
    /\ \E i \in Matches(p, name) :
        /\ inodes[i].kind # "dir" /\ Resolved(i)
        /\ inodes' = Unlinked(inodes, i)
    /\ UNCHANGED <<opens, known, ghost, mounted, history>>

(* Mutant: rmdir without the search for entries of the directory. *)
RmdirUnsearched(p, name) ==
    /\ Walked(p)
    /\ \E i \in Matches(p, name) :
        /\ inodes[i].kind = "dir" /\ known[i] > 0
        /\ inodes' = Without(inodes, i) /\ Deleted(i)
    /\ UNCHANGED <<opens, mounted, history>>

Rmdir(p, name) ==
    /\ Walked(p)
    /\ \E i \in Matches(p, name) :
        /\ inodes[i].kind = "dir" /\ known[i] > 0
        /\ Children(i) = {}
        /\ inodes' = Without(inodes, i) /\ Deleted(i)
    /\ UNCHANGED <<opens, mounted, history>>

(* rmdir answers ENOTEMPTY; its lookup stays counted. *)
RmdirRefused(p, name) ==
    /\ Walked(p)
    /\ \E i \in Matches(p, name) :
        /\ inodes[i].kind = "dir" /\ known[i] > 0
        /\ Children(i) # {}
        /\ inodes[i].lookup_count < MaxLookups
        /\ inodes' = Counted(i, 1)
    /\ UNCHANGED <<opens, known, ghost, mounted, history>>

-----------------------------------------------------------------------------
(* rename may take i from the directory p to q. *)
Moves(i, p, q) ==
    /\ Walked(p) /\ Walked(q) /\ Resolved(i)
    /\ inodes[i].lookup_count < MaxLookups
    /\ inodes[i].kind = "dir" => i \notin Above(q)

MovedInode(r, q, new_name) ==
    [r EXCEPT !.parent = q, !.name = new_name, !.lookup_count = r.lookup_count + 1]
Moved(i, q, new_name) ==
    [inodes EXCEPT ![i] = MovedInode(inodes[i], q, new_name)]

Rename(p, name, q, new_name) ==
    /\ Matches(q, new_name) = {}
    /\ \E i \in Matches(p, name) :
        /\ Moves(i, p, q)
        /\ inodes' = Moved(i, q, new_name)
    /\ UNCHANGED <<opens, known, ghost, mounted, history>>

(* _replace of another file, or a directory by a directory, of that name. *)
Replaces(i, j, p, q) ==
    /\ Moves(i, p, q) /\ Resolved(j)
    /\ Stands(i) # Stands(j)
    /\ inodes[i].kind = "dir" <=> inodes[j].kind = "dir"
    /\ inodes[j].lookup_count < MaxLookups

(* Mutant: the replaced inode stays listed under the name. *)
ReplaceListed(p, name, q, new_name) ==
    /\ \E i \in Matches(p, name), j \in Matches(q, new_name) :
        /\ Replaces(i, j, p, q)
        /\ inodes[j].lookup_count + 1 > 0
        /\ inodes' = [Moved(i, q, new_name) EXCEPT
                        ![j].lookup_count = @ + 1, ![j].st_nlink = @ - 1]
        /\ orphaned' = (orphaned \/ Children(j) # {})
    /\ UNCHANGED <<opens, known, ghost, mounted, restarted, exact>>

Replace(p, name, q, new_name) ==
    /\ \E i \in Matches(p, name), j \in Matches(q, new_name) :
        /\ Replaces(i, j, p, q)
        /\ inodes[j].lookup_count + 1 > 0
        /\ inodes' = Unlinked([Moved(i, q, new_name) EXCEPT ![j].lookup_count = @ + 1], j)
        /\ orphaned' = (orphaned \/ Children(j) # {})
    /\ UNCHANGED <<opens, known, ghost, mounted, restarted, exact>>

(* _replace of an inode that lookup_count says the kernel has forgotten. *)
ReplaceForgotten(p, name, q, new_name) ==
    /\ \E i \in Matches(p, name), j \in Matches(q, new_name) :
        /\ Replaces(i, j, p, q)
        /\ inodes[j].lookup_count + 1 <= 0
        /\ inodes' = Without(Moved(i, q, new_name), j) /\ Deleted(j)
        /\ orphaned' = (orphaned \/ Children(j) # {})
    /\ UNCHANGED <<opens, mounted, restarted, exact>>

-----------------------------------------------------------------------------
Open(i) ==
    /\ mounted
    /\ i \in DOMAIN inodes /\ inodes[i].kind = "file" /\ known[i] > 0
    /\ \E j \in DOMAIN inodes : Stands(j) = i /\ inodes[j].listed
    /\ opens[i] < MaxOpens
    /\ opens' = [opens EXCEPT ![i] = @ + 1]
    /\ UNCHANGED <<inodes, known, ghost, mounted, history>>

(* _remove asks for the parent first; there may be none. *)
Removable(i) == inodes[i].parent \in DOMAIN inodes

(* Mutant: the inode is asked for whatever handles there are. *)
ReleaseUncounted(i) ==
    /\ opens' = [opens EXCEPT ![i] = @ - 1]
    /\ UNCHANGED <<inodes, known, ghost, mounted, history>>

(* release; the last one of an unlinked file removes it. *)
Release(i) ==
    /\ mounted /\ opens[i] > 0
    /\ opens' = [opens EXCEPT ![i] = @ - 1]
    /\ \/ /\ opens[i] > 1 \/ (i \in DOMAIN inodes /\ inodes[i].st_nlink # 0)
          /\ UNCHANGED <<inodes, known, ghost>>
       \/ /\ opens[i] = 1
          /\ i \in DOMAIN inodes /\ inodes[i].st_nlink = 0 /\ Removable(i)
          /\ inodes' = Without(inodes, i) /\ Deleted(i)
    /\ UNCHANGED <<mounted, history>>

(* release raises KeyError, which no one catches. *)
ReleaseFails(i) ==
    /\ mounted /\ opens[i] = 1
    /\ i \in DOMAIN inodes => inodes[i].st_nlink = 0 /\ ~ Removable(i)
    /\ opens' = [opens EXCEPT ![i] = 0]
    /\ mounted' = FALSE
    /\ UNCHANGED <<inodes, known, ghost, history>>

(* forget of n lookups: an unlinked inode is removed, whatever its          *)
(* lookup_count; errors are ignored.                                        *)
Removes(i) == inodes[i].st_nlink <= 0 /\ Removable(i)

Lost(i, n) ==
    IF i \notin DOMAIN inodes THEN inodes
    ELSE IF Removes(i) THEN Without(inodes, i)
    ELSE Counted(i, -n)

(* The kernel forgets no directory before what it knows inside. *)
Forget(i) ==
    /\ mounted /\ known[i] > 0 /\ opens[i] = 0
    /\ \A j \in DOMAIN inodes : inodes[j].parent = i => known[j] = 0
    /\ i \in DOMAIN inodes => inodes[i].lookup_count - known[i] >= -1   \* bound
    /\ inodes' = Lost(i, known[i])
    /\ known' = [known EXCEPT ![i] = 0]
    /\ UNCHANGED <<opens, ghost, mounted, history>>

ForgetGhost(i) ==
    /\ mounted /\ ghost[i] > 0
    /\ i \in DOMAIN inodes => inodes[i].lookup_count - ghost[i] >= -1   \* bound
    /\ inodes' = Lost(i, ghost[i])
    /\ IF i \in DOMAIN inodes /\ Removes(i)
       THEN ghost' = [ghost EXCEPT ![i] = known[i]] /\ known' = [known EXCEPT ![i] = 0]
       ELSE ghost' = [ghost EXCEPT ![i] = 0] /\ UNCHANGED known
    /\ UNCHANGED <<opens, mounted, history>>

-----------------------------------------------------------------------------
(* init_from_disk; once, which bounds the states. *)
ReadBack(f) ==
    /\ ~ restarted
    /\ inodes' = [i \in DOMAIN f |-> [f[i] EXCEPT !.lookup_count = 1, !.listed = TRUE]]
    /\ opens' = Nothing /\ known' = Nothing /\ ghost' = Nothing
    /\ mounted' = TRUE /\ restarted' = TRUE /\ exact' = TRUE
    /\ UNCHANGED orphaned

Restart == ReadBack(inodes)

(* Killed in _replace, after the deletion and before the commit. *)
ReplaceCrash(p, name, q, new_name) ==
    \E i \in Matches(p, name), j \in Matches(q, new_name) :
        /\ Replaces(i, j, p, q)
        /\ inodes[j].lookup_count + 1 <= 0
        /\ ReadBack(Without(inodes, j))

-----------------------------------------------------------------------------
OnName(p, name) ==
    \/ Lookup(p, name)
    \/ Create(p, name) \/ Mknod(p, name) \/ Mkdir(p, name) \/ Symlink(p, name)
    \/ \E i \in Numbers : Link(i, p, name)
    \/ Unlink(p, name) \/ Rmdir(p, name) \/ RmdirRefused(p, name)

OnNames(p, name, q, new_name) ==
    \/ Rename(p, name, q, new_name) \/ Replace(p, name, q, new_name)
    \/ ReplaceForgotten(p, name, q, new_name) \/ ReplaceCrash(p, name, q, new_name)

OnInode(i) == Open(i) \/ Release(i) \/ ReleaseFails(i) \/ Forget(i) \/ ForgetGhost(i)

Next ==
    \/ \E p \in Numbers, name \in Names : OnName(p, name)
    \/ \E p, q \in Numbers, name, new_name \in Names :
        OnNames(p, name, q, new_name)
    \/ \E p \in Numbers : Readdir(p)
    \/ \E i \in Numbers : OnInode(i)
    \/ Restart

Spec == Init /\ [][Next]_vars

-----------------------------------------------------------------------------
(* As long as inodes are not read back from disk (which lists unlinked ones *)
(* again) a name stands for one inode: lookup, which takes the first it     *)
(* meets, has no choice, and unlink and rename reach the inode meant.       *)
NamesUnique ==
    ~ restarted => \A i, j \in DOMAIN inodes :
        /\ inodes[i].listed /\ inodes[j].listed
        /\ inodes[i].parent = inodes[j].parent /\ inodes[i].name = inodes[j].name
        => i = j

(* As long as no rename replaces a directory with entries, which _replace   *)
(* does not look for, every name is in a directory that has a name itself:  *)
(* no file gets out of reach when directories are removed and forgotten.    *)
Reachable ==
    ~ restarted /\ ~ orphaned => \A i \in DOMAIN inodes :
        inodes[i].listed =>
            /\ inodes[i].parent \in DOMAIN inodes
            /\ inodes[inodes[i].parent].listed /\ inodes[inodes[i].parent].kind = "dir"

(* As long as the kernel knows inodes from lookup and _create alone, and no *)
(* number is given again that it still knows, a file that is open is there, *)
(* whatever names it loses: read, write and release find it.                *)
OpenKept == exact => \A i \in Numbers : opens[i] > 0 => i \in DOMAIN inodes

(* release: "This method may return an error by raising `FUSEError`", and   *)
(* unlinked files are closed like others (tst_unlink).                      *)
MountStays == mounted
=============================================================================
