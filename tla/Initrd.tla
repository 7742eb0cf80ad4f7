------------------------------- MODULE Initrd -------------------------------
(***************************************************************************)
(* The RAM disk of fs/initrd.c behind the calls of fs/fs.c: the walk over  *)
(* the tar archive that builds the array of nodes, reading a directory,    *)
(* and the look-up of a path.                                              *)
(*                                                                         *)
(* tar --format=posix writes two headers per file, an extended one and the *)
(* file's own; i counts both, from 2.  An entry of the archive is the name *)
(* of a file within its directory, its depth and whether it is a           *)
(* directory; a directory comes before what it holds.  Nodes are numbered  *)
(* from 0, the root; nodes[n + 1] is node n.  Names are compared over the  *)
(* length of a path's component only, which is what HasPrefix stands for.  *)
(***************************************************************************)
EXTENDS Integers, Sequences, FiniteSets, SequencesExt

CONSTANTS
    Names,
    Beginnings,     \* <<a, b>> : the name a is the beginning of the name b
    MaxDepth,       \* bound: depth of the tree
    MaxEntries,     \* bound: entries of the archive
    Garbage         \* bound: what memory that was never written holds

ASSUME InitrdAssumption ==
    /\ Beginnings \subseteq Names \X Names
    /\ MaxDepth \in Nat /\ MaxEntries \in Nat /\ Garbage \subseteq Nat

VARIABLES
    archive,
    i,          \* headers passed, plus 2
    stack,      \* activations of tar_parse_rec, the innermost last
    nodes,
    dir,        \* the open directory: its node, offset and, a ghost, what it gave
    look,       \* the look-up under way: path, the component, the result
    phase

vars == <<archive, i, stack, nodes, dir, look, phase>>

Null == -1
Uninit == -1
NoDir == [node |-> Null]
NoLook == [path |-> <<>>]
rd_entry_num == Len(nodes)

HasPrefix(name, part) == part = name \/ <<part, name>> \in Beginnings

----------------------------------------------------------------------------
\* The reference: what the archive says, by position in it.

\* The directory that holds entry k, 0 for the root.
Parent(k) ==
    LET above == {j \in 1 .. k - 1 : archive[j].depth < archive[k].depth}
    IN  IF above = {} THEN 0 ELSE CHOOSE j \in above : \A h \in above : h <= j

Children(n) == {k \in DOMAIN archive : Parent(k) = n}

PathTo[k \in 0 .. Len(archive)] ==
    IF k = 0 THEN <<>> ELSE Append(PathTo[Parent(k)], archive[k].name)

EmptyDirs == {k \in DOMAIN archive : archive[k].dir /\ Children(k) = {}}

----------------------------------------------------------------------------
\* tar, and tar_parse up to the first call of tar_parse_rec.

Init ==
    /\ archive = <<>>
    /\ i = 2
    /\ stack = << [depth |-> 1, parent |-> 0, sub_ent_num |-> 0] >>
    /\ nodes = << [name |-> "/", dir |-> TRUE, sub_ent_num |-> Uninit] >>
    /\ dir = NoDir /\ look = NoLook
    /\ phase = "pack"

Distinct == \A j, k \in DOMAIN archive : j # k => PathTo[j] # PathTo[k]

\* tar adds a file to the last directory that is open at this depth.
Pack(name, depth, isdir) ==
    /\ phase = "pack" /\ Len(archive) < MaxEntries
    /\ depth = 1 \/ (archive # <<>> /\ depth <= Last(archive).depth + IF Last(archive).dir THEN 1 ELSE 0)
    /\ archive' = Append(archive, [name |-> name, depth |-> depth, dir |-> isdir])
    /\ Distinct'
    /\ UNCHANGED <<i, stack, nodes, dir, look, phase>>

Packed ==
    /\ phase = "pack" /\ archive # <<>>
    /\ phase' = "parse"
    /\ UNCHANGED <<archive, i, stack, nodes, dir, look>>

----------------------------------------------------------------------------
\* tar_parse_rec, one step per turn of its loop.

Top == Last(stack)
AtEnd == i = 2 * Len(archive) + 2
Header == archive[(i - 1) \div 2]

SkipPax ==
    /\ phase = "parse" /\ ~AtEnd /\ i % 2 = 0
    /\ i' = i + 1
    /\ UNCHANGED <<archive, stack, nodes, dir, look, phase>>

\* A file at the depth of this activation becomes a node.  A directory's
\* sub_ent_num is written when its contents have been read, if it has any.
AddNode ==
    /\ phase = "parse" /\ ~AtEnd /\ i % 2 = 1 /\ Header.depth = Top.depth
    /\ nodes' = Append(nodes, [name |-> Header.name, dir |-> Header.dir,
                               sub_ent_num |-> IF Header.dir THEN Uninit ELSE 0])
    /\ stack' = [stack EXCEPT ![Len(stack)].sub_ent_num = @ + 1]
    /\ i' = i + 1
    /\ UNCHANGED <<archive, dir, look, phase>>

\* A deeper file: the node added last is its directory.
Descend ==
    /\ phase = "parse" /\ ~AtEnd /\ i % 2 = 1 /\ Header.depth > Top.depth
    /\ stack' = Append(stack, [depth |-> Header.depth, parent |-> Len(nodes) - 1, sub_ent_num |-> 0])
    /\ UNCHANGED <<archive, i, nodes, dir, look, phase>>

\* A file less deep, or the end of the archive: the caller goes on with the same
\* header, or tar_parse returns and the nodes are put in order.
\* Faulty variant: the count is added to that of the directory above.
Ascend_Total ==
    /\ phase = "parse"
    /\ AtEnd \/ (i % 2 = 1 /\ Header.depth < Top.depth)
    /\ nodes' = [nodes EXCEPT ![Top.parent + 1].sub_ent_num = Top.sub_ent_num]
    /\ stack' = LET up == SubSeq(stack, 1, Len(stack) - 1)
                IN  IF up = <<>> THEN up
                    ELSE [up EXCEPT ![Len(up)].sub_ent_num = @ + Top.sub_ent_num]
    /\ phase' = IF Len(stack) = 1 THEN "ready" ELSE phase
    /\ UNCHANGED <<archive, i, dir, look>>

Ascend ==
    /\ phase = "parse"
    /\ AtEnd \/ (i % 2 = 1 /\ Header.depth < Top.depth)
    /\ nodes' = [nodes EXCEPT ![Top.parent + 1].sub_ent_num = Top.sub_ent_num]
    /\ stack' = SubSeq(stack, 1, Len(stack) - 1)
    /\ phase' = IF Len(stack) = 1 THEN "ready" ELSE phase
    /\ UNCHANGED <<archive, i, dir, look>>

----------------------------------------------------------------------------
\* Directories.

\* initrd_opendir, through opendir_fs: a file's node has no opendir.
opendir(n) == [node |-> n, offset |-> 1, gave |-> <<>>]

\* initrd_readdir: the end of a directory is the end of the array.
\* Faulty variant: the last node is out of reach.
ReadEnds_Early == dir.offset > rd_entry_num - dir.node - 2

ReadEnds == dir.offset > rd_entry_num - dir.node - 1

Ent == dir.node + dir.offset

\* The offset then passes the entry and as many nodes as it has children.
\* Faulty variant: the children of the directory are passed instead.
NextOffsets_Dir == {dir.offset + nodes[dir.node + 1].sub_ent_num + 1}

NextOffsets ==
    {dir.offset + s + 1 : s \in IF nodes[Ent + 1].sub_ent_num = Uninit THEN Garbage
                                ELSE {nodes[Ent + 1].sub_ent_num}}

readdir ==
    \E o \in NextOffsets : dir' = [dir EXCEPT !.offset = o, !.gave = Append(@, Ent)]

OpenDir(n) ==
    /\ phase = "ready" /\ nodes[n + 1].dir
    /\ dir' = opendir(n)
    /\ phase' = "reading"
    /\ UNCHANGED <<archive, i, stack, nodes, look>>

ReadDir ==
    /\ phase = "reading" /\ ~ReadEnds
    /\ readdir
    /\ UNCHANGED <<archive, i, stack, nodes, look, phase>>

CloseDir ==
    /\ phase = "reading" /\ ReadEnds
    /\ dir' = NoDir /\ phase' = "ready"
    /\ UNCHANGED <<archive, i, stack, nodes, look>>

----------------------------------------------------------------------------
\* initrd_get_node: for every component of a path, the directory found last is
\* read until an entry fits.

LookUp(path) ==
    /\ phase = "ready"
    /\ look' = [path |-> path, component |-> 1, result |-> 0]
    /\ dir' = IF path = <<>> THEN NoDir ELSE opendir(0)
    /\ phase' = IF path = <<>> THEN "found" ELSE "look"
    /\ UNCHANGED <<archive, i, stack, nodes>>

\* ent_name_eq: all components but the last end in a slash, which is left out of
\* the comparison for directories only.
ent_name_eq(n, component) ==
    /\ HasPrefix(nodes[n + 1].name, look.path[component])
    /\ nodes[n + 1].dir \/ component = Len(look.path)

LookNext ==
    /\ phase = "look" /\ ~ReadEnds /\ ~ent_name_eq(Ent, look.component)
    /\ readdir
    /\ UNCHANGED <<archive, i, stack, nodes, look, phase>>

LookFits ==
    /\ phase = "look" /\ ~ReadEnds /\ ent_name_eq(Ent, look.component)
    /\ look' = [look EXCEPT !.component = @ + 1, !.result = Ent]
    /\ IF look.component = Len(look.path)
       THEN dir' = NoDir /\ phase' = "found"
       ELSE dir' = opendir(Ent) /\ UNCHANGED phase
    /\ UNCHANGED <<archive, i, stack, nodes>>

\* No entry fits: NULL, at the next component or at once if this is the last.
LookFails ==
    /\ phase = "look" /\ ReadEnds
    /\ look' = [look EXCEPT !.result = Null]
    /\ dir' = NoDir /\ phase' = "found"
    /\ UNCHANGED <<archive, i, stack, nodes>>

Used ==
    /\ phase = "found"
    /\ look' = NoLook /\ phase' = "ready"
    /\ UNCHANGED <<archive, i, stack, nodes, dir>>

Next ==
    \/ \E name \in Names, depth \in 1 .. MaxDepth, isdir \in BOOLEAN : Pack(name, depth, isdir)
    \/ Packed
    \/ SkipPax \/ AddNode \/ Descend \/ Ascend
    \/ \E n \in 0 .. Len(nodes) - 1 : OpenDir(n)
    \/ ReadDir \/ CloseDir
    \/ \E path \in {PathTo[k] : k \in 0 .. Len(archive)} \cup {<<n>> : n \in Names} : LookUp(path)
    \/ LookNext \/ LookFits \/ LookFails \/ Used

Spec == Init /\ [][Next]_vars

----------------------------------------------------------------------------
\* Properties.

Parsed == phase \notin {"pack", "parse"}

\* The recursion, which returns one level at a time on a header that belongs
\* several levels up, gives every node the number of its own entries: the array has
\* the archive's order, and only directories with no entry keep an unset count.
CountsExact ==
    Parsed => /\ rd_entry_num = Len(archive) + 1 /\ rd_entry_num = i \div 2
              /\ \A k \in 0 .. Len(archive) :
                    nodes[k + 1].sub_ent_num = IF k \in EmptyDirs THEN Uninit ELSE Cardinality(Children(k))

\* Reading a directory to its end gives each of its entries, although readdir
\* passes the children of an entry and not its whole subtree: the offset never
\* jumps out of a subtree.  (It gives nodes of other directories besides, and a
\* directory with no entry has a count that was never written.)
ListsChildren ==
    (phase = "reading" /\ ReadEnds /\ EmptyDirs = {}) => Children(dir.node) \subseteq Range(dir.gave)

\* Between the directory of entry k and k, the archive has no entry that fits k's
\* name as a component.
Unambiguous(k, last) ==
    \A h \in Parent(k) + 1 .. k - 1 :
        (archive[h].dir \/ last) => ~HasPrefix(archive[h].name, archive[k].name)

\* The path of a file in the archive leads to that file, as long as at every level
\* no entry between the directory and the one sought fits the component as well.
FindsArchived ==
    (phase = "found" /\ EmptyDirs = {}) =>
        \A k \in DOMAIN archive :
            (/\ look.path = PathTo[k]
             /\ \A j \in DOMAIN archive : (IsPrefix(PathTo[j], PathTo[k])) => Unambiguous(j, j = k))
            => look.result = k

=============================================================================
