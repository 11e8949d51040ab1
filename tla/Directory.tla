----------------------------- MODULE Directory -----------------------------
(***************************************************************************)
(* What Namespace and FileBlocks take as one step and as a set: the table   *)
(* of inodes is a dict, which lookup and readdir go through in the order in *)
(* which its keys came; a truncation keeps a second inode in it, under a    *)
(* number of its own, while it copies the file block by block and lets      *)
(* other tasks run at each; and the first read of a file takes its inode    *)
(* out of the table, and off the disk, to put it back at the end.           *)
(*                                                                          *)
(* One directory and the files in it.  The kernel holds the lock of an      *)
(* inode while it truncates, writes, renames or unlinks it; lookups,        *)
(* listings and reads go on meanwhile.  The process can be killed between   *)
(* any two steps, and in the middle of a first read.                        *)
(*                                                                          *)
(* Left out: sizes (of data is kept whether it is all of the file), counts  *)
(* of lookups and links (Namespace), blocks (FileBlocks), the mirror        *)
(* (WriteBackMap).                                                          *)
(***************************************************************************)
EXTENDS Naturals, SequencesExt, FiniteSetsExt

CONSTANTS
    Names,
    MaxInode        \* bound: inode numbers; 1 is the root, 2 the directory

ASSUME BoundAssumption == MaxInode \in Nat

Numbers == 3..MaxInode

VARIABLES
    d,          \* inodes.d: from key to File_Inode
    order,      \* the keys of inodes.d in the order of the dict
    pending,    \* inodes.pending: its keys, for its values are those of d
    disk,       \* inodes.ht
    truncs,     \* the truncations under way: file and number of its second inode
    listing,    \* a listing that a process goes through
    made,       \* history: the numbers of the files that exist
    dirty       \* history: a second inode was left, or an unlinked one read back

vars == <<d, order, pending, disk, truncs, listing, made, dirty>>

(* Of a File_Inode its number (that of the file also in a second inode),    *)
(* name, list_on_dir_lookup, whether st_nlink is above zero, data (nothing, *)
(* all of the file or a part) and whether offsets is filled.                *)
Inode == [inode : Numbers, name : Names, listed : BOOLEAN, linked : BOOLEAN,
          data : {"none", "all", "part"}, offsets : BOOLEAN]

Listing == [off : Nat, got : SUBSET Numbers, want : SUBSET Numbers,
            may : SUBSET Numbers, at : {"none", "open", "end"}]
NoListing == [off |-> 0, got |-> {}, want |-> {}, may |-> {}, at |-> "none"]

TypeOK ==
    /\ DOMAIN d \subseteq Numbers /\ d \in [DOMAIN d -> Inode]
    /\ order \in Seq(Numbers) /\ ToSet(order) = DOMAIN d /\ IsInjective(order)
    /\ DOMAIN disk \subseteq Numbers /\ disk \in [DOMAIN disk -> Inode]
    /\ pending \subseteq DOMAIN d
    /\ truncs \subseteq [file : DOMAIN d, temp : DOMAIN d]
    /\ listing \in Listing
    /\ made \subseteq Numbers
    /\ dirty \in BOOLEAN

Init ==
    /\ d = <<>> /\ order = <<>> /\ pending = {} /\ disk = <<>>
    /\ truncs = {} /\ listing = NoListing
    /\ made = {} /\ dirty = FALSE

-----------------------------------------------------------------------------
(* dict and FSMeta.  A known key keeps its place, a new one comes last. *)

With(k, f) == [j \in DOMAIN d \union {k} |-> IF j = k THEN f ELSE d[j]]

Without(m, keys) == [k \in DOMAIN m \ keys |-> m[k]]

Pos(k) == CHOOSE i \in DOMAIN order : order[i] = k
OrderWithout(k) == RemoveAt(order, Pos(k))

(* What is on disk when keys are written as they are in memory by now. *)
Saved(keys) ==
    disk' = [k \in (DOMAIN disk \ keys) \union (DOMAIN d' \intersect keys) |->
                IF k \in keys THEN d'[k] ELSE disk[k]]

(* inodes.commit *)
Commits(keys) == pending' = {} /\ Saved(keys)

(* Mutant: one more than there are inodes. *)
IsNextOfAll(n) == n \in Numbers /\ n = Cardinality(DOMAIN d) + 3

(* gen_inode_number *)
IsNextNumber(n) ==
    /\ n \in Numbers /\ n - 1 \in DOMAIN d \union {2}
    /\ \A k \in DOMAIN d : k < n

(* lookup: the number in the first inode of that name, unless getattr then  *)
(* finds nothing under it.                                                  *)
Named(k, name) == d[k].listed /\ d[k].name = name
First(name) == {k \in DOMAIN d : Named(k, name) /\ \A j \in DOMAIN d : Named(j, name) => Pos(k) <= Pos(j)}
Answer(name) == {d[k].inode : k \in First(name)} \intersect DOMAIN d

(* The kernel's lock of an inode. *)
Locked(f) == \E t \in truncs : t.file = f

(* The files that requests speak of. *)
Files == made \intersect DOMAIN d

(* A listing is followed as long as nothing moves in the directory. *)
Disturb == listing' = NoListing

-----------------------------------------------------------------------------
(* create, mknod, symlink: of a name that the kernel finds not to be there. *)
Create(name) ==
    /\ Answer(name) = {}
    /\ \E n \in Numbers :
        /\ IsNextNumber(n)
        /\ d' = With(n, [inode |-> n, name |-> name, listed |-> TRUE,
                         linked |-> TRUE, data |-> "none", offsets |-> FALSE])
        /\ order' = Append(order, n)
        /\ Commits(pending \union {n})
        /\ made' = made \union {n}
        /\ listing' = [listing EXCEPT !.may = IF listing.at = "open" THEN @ \union {n} ELSE @]
    /\ UNCHANGED <<truncs, dirty>>

(* write appends to a file. *)
Write(f) ==
    /\ ~ Locked(f)
    /\ d' = [d EXCEPT ![f].data = "all"]
    /\ pending' = pending \union {f}
    /\ UNCHANGED <<order, disk, truncs, listing, made, dirty>>

(* Whether retrieve_data calls calc_offsets. *)
Unread(f) == d[f].data # "none" /\ ~ d[f].offsets

(* Mutant: no commit after calc_offsets. *)
FirstReadUncommitted(f) ==
    /\ Unread(f)
    /\ d' = [d EXCEPT ![f].offsets = TRUE]
    /\ order' = Append(OrderWithout(f), f)
    /\ pending' = pending \union {f}
    /\ disk' = Without(disk, {f})
    /\ Disturb
    /\ UNCHANGED <<truncs, made, dirty>>

(* The first read of a file: calc_offsets deletes its inode, sets it again  *)
(* and commits; at its end read sets the inode once more.                   *)
FirstRead(f) ==
    /\ Unread(f)
    /\ d' = [d EXCEPT ![f].offsets = TRUE]
    /\ order' = Append(OrderWithout(f), f)
    /\ pending' = {f}
    /\ Saved(pending \union {f})
    /\ Disturb
    /\ UNCHANGED <<truncs, made, dirty>>

(* Mutant: the second inode has the number it is kept under. *)
TruncateStartRenumbered(f) ==
    /\ d[f].data = "all" /\ ~ Locked(f)
    /\ \E n \in Numbers :
        LET temp == [d[f] EXCEPT !.inode = n, !.data = "part", !.offsets = FALSE]
        IN  /\ IsNextNumber(n)
            /\ truncs' = truncs \union {[file |-> f, temp |-> n]}
            /\ IF Unread(f)
               THEN /\ d' = [With(n, temp) EXCEPT ![f].offsets = TRUE]
                    /\ order' = OrderWithout(f) \o <<n, f>>
                    /\ Commits(pending \union {f, n})
               ELSE /\ d' = With(n, temp)
                    /\ order' = Append(order, n)
                    /\ pending' = pending \union {n}
                    /\ UNCHANGED disk
    /\ Disturb
    /\ UNCHANGED <<made, dirty>>

(* Mutant: the file gets the second inode before the data is copied. *)
TruncateStartSwapped(f) ==
    /\ d[f].data = "all" /\ ~ Locked(f)
    /\ \E n \in Numbers :
        LET temp == [d[f] EXCEPT !.data = "part", !.offsets = FALSE]
        IN  /\ IsNextNumber(n)
            /\ truncs' = truncs \union {[file |-> f, temp |-> n]}
            /\ d' = [With(n, temp) EXCEPT ![f] = temp]
            /\ order' = Append(order, n)
            /\ pending' = pending \union {f, n}
            /\ UNCHANGED disk
    /\ Disturb
    /\ UNCHANGED <<made, dirty>>

(* truncate_down: the second inode, and the read of the first block as far  *)
(* as its checkpoint, with calc_offsets when it is the first of the file.   *)
TruncateStart(f) ==
    /\ d[f].data = "all" /\ ~ Locked(f)
    /\ \E n \in Numbers :
        LET temp == [d[f] EXCEPT !.data = "part", !.offsets = FALSE]
        IN  /\ IsNextNumber(n)
            /\ truncs' = truncs \union {[file |-> f, temp |-> n]}
            /\ IF Unread(f)
               THEN /\ d' = [With(n, temp) EXCEPT ![f].offsets = TRUE]
                    /\ order' = OrderWithout(f) \o <<n, f>>
                    /\ Commits(pending \union {f, n})
               ELSE /\ d' = With(n, temp)
                    /\ order' = Append(order, n)
                    /\ pending' = pending \union {n}
                    /\ UNCHANGED disk
    /\ Disturb
    /\ UNCHANGED <<made, dirty>>

(* A block is copied, and the next one read as far as the checkpoint. *)
TruncateCopy(t) ==
    /\ pending' = pending \union {t.file, t.temp}
    /\ UNCHANGED <<d, order, disk, truncs, listing, made, dirty>>

(* The file gets the second inode, with what is left of its data. *)
Moved(t, data) == [d EXCEPT ![t.file] = [d[t.temp] EXCEPT !.data = data]]

(* Mutant: the second inode is not deleted. *)
TruncateEndKeeps(t) ==
    /\ \E data \in {"none", "all"} : d' = Moved(t, data)
    /\ pending' = pending \union {t.file}
    /\ truncs' = truncs \ {t}
    /\ Disturb
    /\ UNCHANGED <<order, disk, made, dirty>>

(* The last block is copied, the file gets the second inode, which leaves   *)
(* the table and the disk; setattr then sets the inode, and commits nothing.*)
TruncateEnd(t) ==
    /\ \E data \in {"none", "all"} : d' = Without(Moved(t, data), {t.temp})
    /\ order' = OrderWithout(t.temp)
    /\ pending' = (pending \ {t.temp}) \union {t.file}
    /\ disk' = Without(disk, {t.temp})
    /\ truncs' = truncs \ {t}
    /\ Disturb
    /\ UNCHANGED <<made, dirty>>

(* A read in it raises IOError: logged, and the second inode stays. *)
TruncateFails(t) ==
    /\ pending' = pending \union {t.file}
    /\ truncs' = truncs \ {t}
    /\ dirty' = TRUE
    /\ Disturb
    /\ UNCHANGED <<d, order, disk, made>>

(* unlink and rename look the name up, and change and commit the inode of   *)
(* the number they find.                                                    *)
Unlink(name) ==
    /\ \E f \in Files \intersect Answer(name) :
        /\ ~ Locked(f)
        /\ d' = [d EXCEPT ![f] = [@ EXCEPT !.listed = FALSE, !.linked = FALSE]]
        /\ Commits(pending \union {f})
    /\ Disturb
    /\ UNCHANGED <<order, truncs, made, dirty>>

Rename(old, new) ==
    /\ Answer(new) = {}
    /\ \E f \in Files \intersect Answer(old) :
        /\ ~ Locked(f)
        /\ d' = [d EXCEPT ![f].name = new]
        /\ Commits(pending \union {f})
    /\ UNCHANGED <<order, truncs, listing, made, dirty>>

(* forget or release: nobody has the unlinked file any more. *)
RemoveFile(f) ==
    /\ ~ d[f].linked /\ ~ Locked(f)
    /\ d' = Without(d, {f})
    /\ order' = OrderWithout(f)
    /\ pending' = {}
    /\ Saved(pending \union {f})
    /\ made' = made \ {f}
    /\ IF d[f].listed THEN Disturb ELSE UNCHANGED listing
    /\ UNCHANGED <<truncs, dirty>>

(* flush, release, forget: a commit of what others have changed. *)
Commit ==
    /\ pending # {}
    /\ UNCHANGED <<d, order, truncs, listing, made, dirty>>
    /\ Commits(pending)

-----------------------------------------------------------------------------
(* opendir, and readdir from the position after the last entry it gave.     *)
OpenDir ==
    /\ listing.at # "open"
    /\ ~ dirty /\ truncs = {}
    /\ LET there == {f \in Files : d[f].listed}
       IN  listing' = [off |-> 0, got |-> {}, want |-> there, may |-> there, at |-> "open"]
    /\ UNCHANGED <<d, order, pending, disk, truncs, made, dirty>>

(* Mutant: entries that were unlinked are listed too. *)
EntriesOfAll == DOMAIN d

(* dir_entries, of which the k-th has k others before it in the dict. *)
Entries == {k \in DOMAIN d : d[k].listed}
Before(k) == {j \in Entries : Pos(j) < Pos(k)}

Readdir ==
    /\ listing.at = "open"
    /\ IF listing.off < Cardinality(Entries)
       THEN \E k \in Entries :
                /\ Cardinality(Before(k)) = listing.off
                /\ listing' = [listing EXCEPT !.off = @ + 1, !.got = @ \union {d[k].inode}]
       ELSE listing' = [listing EXCEPT !.at = "end"]
    /\ UNCHANGED <<d, order, pending, disk, truncs, made, dirty>>

-----------------------------------------------------------------------------
(* The process is killed and the file system mounted again: init_from_disk  *)
(* lists every inode.  It gets the keys in the order of their bytes, of     *)
(* which the least comes first, so that 256 is before 1: any order here.    *)
ReadBack(items) ==
    /\ d' = [k \in DOMAIN items |-> [items[k] EXCEPT !.listed = TRUE]]
    /\ order' \in SetToSeqs(DOMAIN items)
    /\ dirty' = (dirty \/ \E k \in DOMAIN items : items[k].inode # k \/ ~ items[k].listed)
    /\ pending' = {} /\ truncs' = {}
    /\ Disturb

Restart ==
    /\ ReadBack(disk)
    /\ UNCHANGED <<disk, made>>

(* Killed when calc_offsets has deleted the inode and nothing has written   *)
(* it again: the file is gone.                                              *)
KilledInFirstRead(f) ==
    /\ Unread(f)
    /\ disk' = Without(disk, {f})
    /\ ReadBack(disk')
    /\ made' = made \ {f}

Next ==
    \/ \E name \in Names : Create(name) \/ Unlink(name)
    \/ \E old, new \in Names : Rename(old, new)
    \/ \E f \in Files : Write(f) \/ FirstRead(f) \/ TruncateStart(f) \/ RemoveFile(f)
                        \/ KilledInFirstRead(f)
    \/ \E t \in truncs : TruncateCopy(t) \/ TruncateEnd(t) \/ TruncateFails(t)
    \/ Commit \/ OpenDir \/ Readdir \/ Restart

Spec == Init /\ [][Next]_vars

-----------------------------------------------------------------------------
(* A name leads to its file, and so no two files have one name, also while  *)
(* a truncation keeps a second inode of that name, before the file or       *)
(* behind it: the second inode answers with the number of the file.         *)
NameFound ==
    ~ dirty =>
        \A f \in Files : d[f].listed => Answer(d[f].name) = {f}

(* What a truncation needed is gone when none is under way, from memory and *)
(* from the disk, to which other handlers may have committed it.            *)
SecondInodesGone ==
    ~ dirty /\ truncs = {} =>
        /\ \A k \in DOMAIN d : d[k].inode = k
        /\ \A k \in DOMAIN disk : disk[k].inode = k

(* Whoever reads a file, or mounts after a crash, finds all of it as it was *)
(* before a truncation or as it is after, however many tasks ran in between *)
(* and whatever they committed.                                             *)
FileWhole ==
    /\ \A k \in DOMAIN d : d[k].inode = k => d[k].data # "part"
    /\ \A k \in DOMAIN disk : disk[k].inode = k => disk[k].data # "part"

(* A file that was made is in memory and on disk until it is removed; no    *)
(* crash loses it but one in the middle of its first read, which takes the  *)
(* file off the disk for a moment.                                          *)
FilesKept == made \subseteq DOMAIN d /\ made \subseteq DOMAIN disk

(* A listing that nothing disturbs gives every file of the directory once,  *)
(* and none that was unlinked: files that are made, written, renamed or     *)
(* removed for good meanwhile do not move the positions of the others.      *)
ListingComplete ==
    listing.at = "end" =>
        /\ listing.want \subseteq listing.got
        /\ listing.got \subseteq listing.may
        /\ Cardinality(listing.got) = listing.off
=============================================================================
