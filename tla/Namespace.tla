----------------------------- MODULE Namespace -----------------------------
(***************************************************************************)
(* Names, directories and link counts on a journaled mount: create, mknod, *)
(* mkdir, link, unlink, rmdir, rename, rename_exchange and the release of  *)
(* what they unlink (ext4/low_level.rs, ext4/link.rs, ext4/dir.rs).        *)
(*                                                                         *)
(* The namespace lock makes these operations exclude each other, so one    *)
(* operation is one step.  Only what removes a last name, and the relink   *)
(* of an orphan, is a journal transaction; everything else is a row of     *)
(* writes of single blocks.  An operation is modelled by that row, each    *)
(* write with the file system after it and what the operation leaves when  *)
(* this write fails: the code's rollback, and whether it poisons the       *)
(* mount.  A process that stops in between leaves the writes made so far,  *)
(* and a lookup, which takes no lock, sees them.                           *)
(*                                                                         *)
(* From the callers' side: names are not "." or "..", a new name is one    *)
(* that lookup did not find, and directories are named as long as they are *)
(* used.  Blocks of a directory are abstracted: adding an entry may be     *)
(* refused for want of space.  Failing reads are left out.                 *)
(***************************************************************************)
EXTENDS Integers, Sequences, FiniteSets, FiniteSetsExt

CONSTANTS
    Names,      \* the names of directory entries
    MaxInode,   \* bound: inodes 1 .. MaxInode, 1 is the root directory
    MaxFaults,  \* bound: operations of which a write fails
    MaxAftermath    \* bound: operations after a failure that left a "name"

Inodes == 1 .. MaxInode
Root == 1
None == 0

ASSUME NamespaceAssumption ==
    /\ {MaxInode, MaxAftermath} \subseteq Nat \ {0} /\ MaxFaults \in Nat
    /\ IsFiniteSet(Names)

VARIABLES
    fs,         \* [kind, nlink, dotdot, entry] of each inode, and the orphan chain as a set
    poisoned,   \* Ext4::poisoned
    stopped,    \* the process stopped in the middle of an operation
    harm,       \* ghost: what failures without poison left: a "name" whose inode was freed
                \* or whose count was taken back, a "count" above the names
    request,    \* ghost: the last operation and its arguments
    faults, aftermath

vars == <<fs, poisoned, stopped, harm, request, faults, aftermath>>

Nothing == [n \in Names |-> None]
FreeInode == [kind |-> "free", nlink |-> 0, dotdot |-> None, entry |-> Nothing]
NewInode(kind) == [FreeInode EXCEPT !.kind = kind]

is_dir(f, i) == f.inode[i].kind = "dir"
Linked(f) == {i \in Inodes : f.inode[i].kind # "free" /\ f.inode[i].nlink > 0}
Dirs(f) == {i \in Linked(f) : is_dir(f, i)}

\* The places (directory, name) that lead to inode i.
NamesOf(f, i) == {p \in Dirs(f) \X Names : f.inode[p[1]].entry[p[2]] = i}

dir_find_entry(f, d, n) == f.inode[d].entry[n]
dir_is_empty(f, d) == f.inode[d].entry = Nothing

\* Writes of one field.
SetEntry(f, d, n, i) == [f EXCEPT !.inode[d].entry[n] = i]
SetDotdot(f, d, p) == [f EXCEPT !.inode[d].dotdot = p]
AddLinks(f, i, k) == [f EXCEPT !.inode[i].nlink = @ + k]

namespace_removal_is_final(f, i) == is_dir(f, i) \/ f.inode[i].nlink <= 1

-----------------------------------------------------------------------------
(* Operations as rows of writes. *)

\* What a failed operation leaves.
Left(f, poison, damage) == [fs |-> f, poisoned |-> poison, harm |-> damage]
Clean(f) == Left(f, FALSE, {})
Poisons(F) == {Left(f, TRUE, {}) : f \in F}

\* A write: the file system after it, and what may be left when it fails.
W(after, failed) == [fs |-> after, failed |-> failed]

\* poison_on_error around one write.
Guarded(before, after) == W(after, Poisons({before, after}))

\* A transaction whose commit fails may have committed or not.
commit(before, after) == <<Guarded(before, after)>>

free_inode(f, c) == [f EXCEPT !.inode[c] = FreeInode]

\* alloc_inode and its initialization; a failure in it is rolled back there, or poisons.
create_inode(f, c, kind) ==
    LET new == [f EXCEPT !.inode[c] = NewInode(kind)]
    IN  W(new, {Clean(f)} \cup Poisons({new}))

\* The last write of link_inode: when it fails the link counts are written back (to
\* those of f0), or the mount is poisoned when that fails too; the entry may be there.
AddLast(f0, f, d, n, c) ==
    LET added == SetEntry(f, d, n, c)
    IN  W(added, {Clean(f0), Left(SetEntry(f0, d, n, c), FALSE, {"name"}),
                  Left(f, TRUE, {}), Left(added, TRUE, {"name"})})

\* link_inode of a child whose link count is not zero, or new.
link_inode(f, d, c, n) ==
    LET up == AddLinks(f, c, 1)
    IN  << W(up, {Clean(f), Left(up, FALSE, {"count"})}), AddLast(f, up, d, n, c) >>

\* Each failure of link_inode is followed by the release of the new inode, which may fail
\* too and then leaves it allocated, without poison.
OrFree(writes, c) ==
    [k \in DOMAIN writes |->
        [writes[k] EXCEPT !.failed =
            UNION {{[x EXCEPT !.fs = free_inode(@, c)], x} : x \in @}]]

link_new_inode_or_free(f, d, c, n) == OrFree(link_inode(f, d, c, n), c)

\* create and mknod, which differ in the inode's contents only.
create(f, d, n, c) ==
    LET new == create_inode(f, c, "file")
    IN  <<new>> \o link_new_inode_or_free(new.fs, d, c, n)

\* Fault variant: the entry is published before the directory has its "..".
mkdir_publish_first(f, d, n, c) ==
    LET new == create_inode(f, c, "dir")
        named == SetEntry(new.fs, d, n, c)
        dots == SetDotdot(AddLinks(named, c, 2), c, d)
    IN  <<new, W(named, {Clean(f)}), W(dots, {Clean(f)}), W(AddLinks(dots, d, 1), {Clean(f)})>>

\* mkdir: "." and the entry "..", the parent's count, the child's count, the name.  The
\* parent's count is not taken back when the child's cannot be written.
mkdir(f, d, n, c) ==
    LET new == create_inode(f, c, "dir")
        dots == SetDotdot(new.fs, c, d)
        parent == AddLinks(dots, d, 1)
        child == AddLinks(parent, c, 2)
    IN  << new, W(new.fs, {Clean(free_inode(new.fs, c))} \cup Poisons({new.fs})) >>
        \o OrFree(<< W(dots, {Clean(new.fs), Clean(dots)}),
                     W(parent, {Clean(dots), Left(parent, FALSE, {"count"})}),
                     W(child, {Left(parent, FALSE, {"count"}), Left(child, FALSE, {"count"})}),
                     AddLast(AddLinks(dots, c, 1), child, d, n, c) >>, c)

\* link_inode of an orphan: off the chain, named and counted in one transaction.
relink(f, d, n, c) ==
    commit(f, [SetEntry(AddLinks(f, c, 1), d, n, c) EXCEPT !.orphans = @ \ {c}])

\* The removal of the last name of i, without the entry's own removal.
Orphaned(f, i) == [f EXCEPT !.inode[i].nlink = 0, !.orphans = @ \cup {i}]

unlink_inode(f, d, n) ==
    LET c == dir_find_entry(f, d, n)
        removed == SetEntry(f, d, n, None)
    IN  IF namespace_removal_is_final(f, c)
        THEN commit(f, Orphaned(AddLinks(removed, d, IF is_dir(f, c) THEN -1 ELSE 0), c))
        ELSE << W(removed, {Clean(f), Left(removed, FALSE, {"count"})}),
                Guarded(removed, AddLinks(removed, c, -1)) >>

-----------------------------------------------------------------------------
(* Rename. *)

\* The directories from d up to the root, along "..".
Ancestors(f, d) ==
    LET up[k \in 0 .. MaxInode] ==
            IF k = 0 THEN {d}
            ELSE up[k - 1] \cup ({f.inode[a].dotdot : a \in up[k - 1] \ {Root}} \ {None})
    IN  up[MaxInode]

\* Fault variant: only the target directory itself is compared.
cycle_one_level(f, i, target) == i = target

\* Whether check_ancestor_cycle refuses to move directory i into target.
check_ancestor_cycle(f, i, target) == i \in Ancestors(f, target)

\* Moving directory c from d to e: its ".." and both parents' counts.
Moved(f, c, d, e) == AddLinks(AddLinks(SetDotdot(f, c, e), d, -1), e, 1)

MovesDir(f, c, d, e) == is_dir(f, c) /\ d # e

\* The row of a directory's move, each write guarded.
MoveRow(f, c, d, e) ==
    LET dots == SetDotdot(f, c, e)
        lower == AddLinks(dots, d, -1)
    IN  IF MovesDir(f, c, d, e)
        THEN <<Guarded(f, dots), Guarded(dots, lower), Guarded(lower, AddLinks(lower, e, 1))>>
        ELSE <<>>

\* Fault variant: the old entry is removed before the new one is added.
rename_remove_first(f, d, n, e, m) ==
    LET c == dir_find_entry(f, d, n)
        removed == SetEntry(f, d, n, None)
        added == SetEntry(removed, e, m, c)
    IN  <<Guarded(f, removed), Guarded(removed, added)>> \o MoveRow(added, c, d, e)

\* Fault variant: every failure to add the new entry counts as a clean one.
rename_unclassified(f, d, n, e, m) ==
    LET c == dir_find_entry(f, d, n)
        added == SetEntry(f, e, m, c)
        removed == SetEntry(added, d, n, None)
    IN  <<W(added, {Clean(f), Clean(added)}), Guarded(added, removed)>>
        \o MoveRow(removed, c, d, e)

\* Rename to a free name: add, then remove, then the directory's parents.
rename_simple(f, d, n, e, m) ==
    LET c == dir_find_entry(f, d, n)
        added == SetEntry(f, e, m, c)
        removed == SetEntry(added, d, n, None)
    IN  << W(added, {Clean(f)} \cup Poisons({f, added})), Guarded(added, removed) >>
        \o MoveRow(removed, c, d, e)

\* Rename over another inode: everything in one transaction.
rename_replace(f, d, n, e, m) ==
    LET c == dir_find_entry(f, d, n)
        t == dir_find_entry(f, e, m)
        renamed == SetEntry(SetEntry(f, e, m, c), d, n, None)
        counted == IF is_dir(f, t) THEN AddLinks(renamed, e, -1) ELSE renamed
        moved == IF MovesDir(f, c, d, e) THEN Moved(counted, c, d, e) ELSE counted
    IN  commit(f, IF namespace_removal_is_final(f, t) THEN Orphaned(moved, t)
                  ELSE AddLinks(moved, t, -1))

\* Type checks of a replacement; a target that was freed cannot become an orphan.
may_replace(f, c, t) ==
    /\ is_dir(f, c) = is_dir(f, t) /\ (is_dir(f, t) => dir_is_empty(f, t))
    /\ f.inode[t].kind # "free"

\* rename_exchange: the two entries are replaced one after the other, then the parents
\* of the directories among them.
exchange(f, d, n, e, m) ==
    LET a == dir_find_entry(f, d, n)
        b == dir_find_entry(f, e, m)
        first == SetEntry(f, d, n, b)
        second == SetEntry(first, e, m, a)
        rowA == MoveRow(second, a, d, e)
        afterA == IF rowA = <<>> THEN second ELSE rowA[Len(rowA)].fs
    IN  <<Guarded(f, first), Guarded(first, second)>> \o rowA \o MoveRow(afterA, b, e, d)

-----------------------------------------------------------------------------
(* The steps. *)

Init ==
    /\ fs = [inode |-> [i \in Inodes |->
                           IF i = Root
                           THEN [kind |-> "dir", nlink |-> 2, dotdot |-> Root, entry |-> Nothing]
                           ELSE FreeInode],
             orphans |-> {}]
    /\ poisoned = FALSE /\ stopped = FALSE
    /\ harm = {}
    /\ request = <<"mount">>
    /\ faults = 0 /\ aftermath = 0

\* ensure_mutable, of a process that runs.
Mutable == ~poisoned /\ ~stopped

Completes(row) ==
    fs' = row[Len(row)].fs /\ UNCHANGED <<poisoned, stopped, harm, faults>>

Fails(row) ==
    /\ faults < MaxFaults /\ faults' = faults + 1
    /\ \E k \in DOMAIN row : \E x \in row[k].failed :
           fs' = x.fs /\ poisoned' = x.poisoned /\ harm' = harm \cup x.harm
    /\ UNCHANGED stopped

Stops(row) ==
    /\ \E k \in 1 .. Len(row) - 1 : fs' = row[k].fs
    /\ stopped' = TRUE
    /\ UNCHANGED <<poisoned, harm, faults>>

Runs(row) == Completes(row) \/ Fails(row) \/ Stops(row)

\* The directories a caller knows.
Known == {d \in Dirs(fs) : d = Root \/ NamesOf(fs, d) # {}}

Vacant(d, n) == dir_find_entry(fs, d, n) = None

\* The inode the allocator finds first.
Available == {i \in Inodes : fs.inode[i].kind = "free"}

Create == Mutable /\ Available # {} /\ \E d \in Known, n \in Names :
    /\ Vacant(d, n)
    /\ Runs(create(fs, d, n, Min(Available)))
    /\ request' = <<"create", d, n, Min(Available)>>

Mkdir == Mutable /\ Available # {} /\ \E d \in Known, n \in Names :
    /\ Vacant(d, n)
    /\ Runs(mkdir(fs, d, n, Min(Available)))
    /\ request' = <<"create", d, n, Min(Available)>>

Link == Mutable /\ \E d \in Known, n \in Names, c \in Inodes :
    /\ Vacant(d, n)
    /\ fs.inode[c].kind = "file"
    /\ IF fs.inode[c].nlink > 0
       THEN Runs(link_inode(fs, d, c, n))
       ELSE c \in fs.orphans /\ Runs(relink(fs, d, n, c))
    /\ request' = <<"create", d, n, c>>

Unlink == Mutable /\ \E d \in Known, n \in Names :
    /\ ~Vacant(d, n)
    /\ fs.inode[dir_find_entry(fs, d, n)].kind = "file"
    /\ Runs(unlink_inode(fs, d, n))
    /\ request' = <<"remove", d, n>>

Rmdir == Mutable /\ \E d \in Known, n \in Names :
    /\ ~Vacant(d, n)
    /\ is_dir(fs, dir_find_entry(fs, d, n))
    /\ dir_is_empty(fs, dir_find_entry(fs, d, n))
    /\ Runs(unlink_inode(fs, d, n))
    /\ request' = <<"remove", d, n>>

Rename == Mutable /\ \E d, e \in Known, n, m \in Names :
    LET c == dir_find_entry(fs, d, n)
        t == dir_find_entry(fs, e, m)
    IN  /\ c # None /\ c # t
        /\ MovesDir(fs, c, d, e) => ~check_ancestor_cycle(fs, c, e)
        /\ IF t = None THEN Runs(rename_simple(fs, d, n, e, m))
           ELSE may_replace(fs, c, t) /\ Runs(rename_replace(fs, d, n, e, m))
        /\ request' = <<"rename", d, n, e, m>>

RenameExchange == Mutable /\ \E d, e \in Known, n, m \in Names :
    LET a == dir_find_entry(fs, d, n)
        b == dir_find_entry(fs, e, m)
    IN  /\ a # None /\ b # None /\ a # b
        /\ MovesDir(fs, a, d, e) => ~check_ancestor_cycle(fs, a, e)
        /\ MovesDir(fs, b, e, d) => ~check_ancestor_cycle(fs, b, d)
        /\ Runs(exchange(fs, d, n, e, m))
        /\ request' = <<"exchange", d, n, e, m>>

\* reclaim_inode, here one step: OrphanReclaim has its transactions.
Reclaim == Mutable /\ \E i \in fs.orphans :
    /\ fs' = [fs EXCEPT !.inode[i] = FreeInode, !.orphans = @ \ {i}]
    /\ request' = <<"reclaim", i>>
    /\ UNCHANGED <<poisoned, stopped, harm, faults>>

\* A poisoned mount refuses every mutation, a stopped one makes none, and the
\* exploration ends at the bound.
Halted == (~Mutable \/ aftermath = MaxAftermath) /\ UNCHANGED vars

Operation ==
    Create \/ Mkdir \/ Link \/ Unlink \/ Rmdir \/ Rename \/ RenameExchange \/ Reclaim

Next ==
    \/ /\ aftermath < MaxAftermath /\ Operation
       /\ aftermath' = IF "name" \in harm THEN aftermath + 1 ELSE aftermath
    \/ Halted

Spec == Init /\ [][Next]_vars

-----------------------------------------------------------------------------
(* Properties. *)

\* The shape of the state: a free inode holds nothing, and the chain has the orphans.
TypeOK ==
    /\ \A i \in Inodes :
           /\ fs.inode[i].kind \in {"free", "file", "dir"}
           /\ fs.inode[i].nlink \in 0 .. Cardinality(Inodes \X Names) + 2
           /\ fs.inode[i].entry \in [Names -> Inodes \cup {None}]
           /\ fs.inode[i].kind = "file" => fs.inode[i].entry = Nothing
    /\ \A i \in fs.orphans : fs.inode[i].kind # "free" /\ fs.inode[i].nlink = 0
    /\ poisoned \in BOOLEAN /\ stopped \in BOOLEAN
    /\ harm \subseteq {"name", "count"}
    /\ faults \in 0 .. MaxFaults /\ aftermath \in 0 .. MaxAftermath

\* A failure that left a "name": when the last write of a new name reports an error,
\* link_inode takes the link count back, and link_new_inode_or_free frees the new inode
\* (link.rs:61-71, low_level.rs:539-550), although the write may have reached the device;
\* the mount is not poisoned.  What follows is outside the properties below:
\* OrphansUnnamed and NamesLead show what is then lost.
Trusted == "name" \notin harm

\* The directories form a tree under every sequence of mkdir, rename, exchange and rmdir,
\* failed ones too: each has one name, ".." is where that name is, and following ".."
\* ends at the root.  rmdir and check_ancestor_cycle, which read "..", rely on it.
TreeShape ==
    Mutable /\ Trusted =>
        \A i \in Dirs(fs) \ {Root} : NamesOf(fs, i) # {} =>
            /\ \E d \in Dirs(fs), n \in Names :
                   NamesOf(fs, i) = {<<d, n>>} /\ fs.inode[i].dotdot = d
            /\ Root \in Ancestors(fs, i)

\* Link counts are right: a file's is the number of its names, a directory's two and one
\* for each directory in it.  The failures that leave no "name" may leave a count too
\* high, never too low: the next unlink would then be judged final with a name left.
LinkCounts ==
    Mutable /\ Trusted =>
        \A i \in Linked(fs) : (i = Root \/ NamesOf(fs, i) # {}) =>
            LET exact == IF is_dir(fs, i)
                         THEN 2 + Cardinality({c \in Dirs(fs) :
                                                  \E n \in Names : fs.inode[i].entry[n] = c})
                         ELSE Cardinality(NamesOf(fs, i))
            IN  /\ fs.inode[i].nlink >= exact
                /\ harm = {} => fs.inode[i].nlink = exact

\* Names, "..", and link counts describe one tree (mkdir, rmdir, rename, rename_exchange
\* and the link counts they change on the way).
TreeSound == TreeShape /\ LinkCounts

NamesLead ==
    \A d \in Dirs(fs), n \in Names :
        fs.inode[d].entry[n] # None => fs.inode[d].entry[n] \in Linked(fs)

\* Until a failure leaves a "name", no name leads to an inode that is free or waits to be
\* reclaimed, also on a mount that was poisoned or stopped in the middle of an operation.
EntriesLive == Trusted => NamesLead

\* Where the names lead.
Tree(f) == [d \in Inodes |-> f.inode[d].entry]

\* The places an operation was asked to change.
Places(r) ==
    IF r[1] \in {"create", "remove"} THEN {<<r[2], r[3]>>}
    ELSE IF r[1] \in {"rename", "exchange"} THEN {<<r[2], r[3]>>, <<r[4], r[5]>>}
    ELSE {}

\* A file or directory that has a name keeps one through every step, completed, failed or
\* stopped half way, except the one whose name an unlink or rmdir removes or a rename
\* takes.  rename adds before it removes for this.  rename_exchange does not promise it,
\* and after a failure that left a "name" an inode number may be in two places.
NamesKept ==
    [][LET victims == {fs.inode[p[1]].entry[p[2]] :
                          p \in IF request'[1] = "remove" THEN Places(request')
                                ELSE IF request'[1] = "rename" THEN {<<request'[4], request'[5]>>}
                                ELSE {}}
       IN  Trusted /\ request'[1] # "exchange" =>
               \A i \in Inodes : NamesOf(fs, i) # {} /\ NamesOf(fs', i) = {} => i \in victims]_vars

\* The operation r could fail without poison and yet change its name: the last write of
\* a create or link, and the first of an unlink that is not the last (link.rs:61, 131),
\* return an error as it is though they may have reached the device.
Uncertain(r) ==
    \/ r[1] = "create" /\ ~Trusted'
    \/ r[1] = "remove" /\ ~namespace_removal_is_final(fs, dir_find_entry(fs, r[2], r[3]))

\* An operation that returned an error without poisoning the mount changed no name, but
\* for the two writes of Uncertain; a rename that succeeded changed what it was asked to;
\* and no operation, however it ends, changes another place.  After a failure that left
\* a "name" nothing is promised.
AllOrNothing ==
    [][Trusted =>
       /\ \A d \in Inodes, n \in Names :
              <<d, n>> \notin Places(request') /\ d \in Dirs(fs)
                  => fs'.inode[d].entry[n] = fs.inode[d].entry[n]
       /\ faults' # faults /\ ~poisoned' /\ ~Uncertain(request')
              => \A i \in Dirs(fs) : Tree(fs')[i] = Tree(fs)[i]
       /\ faults' = faults /\ ~stopped' /\ request'[1] = "rename" /\ fs' # fs
              => /\ fs'.inode[request'[4]].entry[request'[5]]
                      = fs.inode[request'[2]].entry[request'[3]]
                 /\ fs'.inode[request'[2]].entry[request'[3]] = None]_vars

\* What an inode that waits to be reclaimed has lost is its last name (unlink_inode).
OrphansUnnamed == Mutable => \A i \in fs.orphans : NamesOf(fs, i) = {}

\* Both entries of an exchange are swapped or neither is.
ExchangeAtomic ==
    [][request'[1] = "exchange" =>
           \/ Tree(fs') = Tree(fs)
           \/ /\ fs'.inode[request'[2]].entry[request'[3]] = fs.inode[request'[4]].entry[request'[5]]
              /\ fs'.inode[request'[4]].entry[request'[5]] = fs.inode[request'[2]].entry[request'[3]]]_vars

=============================================================================
