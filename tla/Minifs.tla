------------------------------- MODULE Minifs -------------------------------
(***************************************************************************)
(* The persistent file system of src/kernel/fs/minifs/minifs.c: inodes,    *)
(* pointer tables, the bitmap with its next-fit cursor, and directories.   *)
(*                                                                         *)
(* Every call holds minifs_lock from beginning to end and is one action; a *)
(* call that answers -1 before it changes anything is left out.  Commands  *)
(* of the disk do not fail here (BlockCache is about those); running out   *)
(* of blocks or of inodes is.  What the files hold is left out: a block is *)
(* what refers to it, a directory its entries, a size counts units of      *)
(* which PerBlock fit into a block.                                        *)
(***************************************************************************)
EXTENDS Integers, Sequences, FiniteSets, SequencesExt

CONSTANTS Inodes,      \* MINIFS_INODES; inode 0 is never used
          Blocks,      \* MINIFS_BLOCKS, also MINIFS_MAX_FILE_BLOCKS
          Direct,      \* MINIFS_DIRECT
          PerTable,    \* MINIFS_INDIRECT_ENTRIES
          PerBlock,    \* directory entries, or units of file data, in a block
          Name,
          Path,        \* the paths used: sequences of names below the root
          Positions,   \* where a write may begin
          Counts,      \* what it may ask for
          IntoItself   \* whether a directory may be renamed to a path below itself

ASSUME GeometryAssumption ==
  /\ Inodes \in Nat /\ Inodes > 1
  /\ {Direct, PerTable, PerBlock} \subseteq Nat \ {0}
  /\ Blocks \in 1 .. Direct + PerTable + PerTable * PerTable
ASSUME PathAssumption == Path \subseteq Seq(Name) \ {<<>>}
ASSUME WriteAssumption == Positions \subseteq 0 .. Blocks * PerBlock - 1 /\ Counts \subseteq Nat \ {0}
ASSUME IntoItselfAssumption == IntoItself \in BOOLEAN

Ino == 1 .. Inodes - 1
Root == 1
Block == 1 .. Blocks   \* a block by its number plus one, as inodes and tables store it

VARIABLES inodes,       \* used, type, parent and size; ptr holds block[], indirect and
                        \* double_indirect in this order
          entries,      \* entries[d]: the directory entries of d; a freed one has ino 0
          tables,       \* tables[b]: what b holds when it is read as a pointer table
          block_used,
          alloc_cursor

vars == <<inodes, entries, tables, block_used, alloc_cursor>>

(* A volume, as the operations below hand it on, and what they answer.     *)
Volume == [inodes |-> inodes, entries |-> entries, tables |-> tables,
           used |-> block_used, cursor |-> alloc_cursor]
Becomes(v) ==
  /\ inodes' = v.inodes /\ entries' = v.entries /\ tables' = v.tables
  /\ block_used' = v.used /\ alloc_cursor' = v.cursor
Done(v) == [ok |-> TRUE, v |-> v]
Failed(v) == [ok |-> FALSE, v |-> v]

NoPtr == [k \in 0 .. Direct + 1 |-> 0]
NoTable == [k \in 0 .. PerTable - 1 |-> 0]
FreeInode == [used |-> FALSE, type |-> "free", parent |-> 0, size |-> 0, ptr |-> NoPtr]

(* format_fs.                                                              *)
Init ==
  /\ inodes = [i \in Ino |-> IF i = Root
       THEN [FreeInode EXCEPT !.used = TRUE, !.type = "dir", !.parent = Root] ELSE FreeInode]
  /\ entries = [i \in Ino |-> <<>>]
  /\ tables = [b \in Block |-> NoTable]
  /\ block_used = [b \in Block |-> FALSE]
  /\ alloc_cursor = 1

-----------------------------------------------------------------------------
(* Where the pointer to a block of a file is: the place in the inode, then *)
(* the places in the tables on the way to it.                              *)
Route(l) ==
  IF l < Direct THEN <<l>>
  ELSE IF l < Direct + PerTable THEN <<Direct, l - Direct>>
  ELSE LET n == l - Direct - PerTable IN <<Direct + 1, n \div PerTable, n % PerTable>>

(* The block a route leads to in inode i, 0 if there is none.              *)
Pointer(v, b, k) == IF b = 0 THEN 0 ELSE v.tables[b][k]
Follow(v, i, r) ==
  LET b == v.inodes[i].ptr[r[1]] IN
  CASE Len(r) = 1 -> b
    [] Len(r) = 2 -> Pointer(v, b, r[2])
    [] Len(r) = 3 -> Pointer(v, Pointer(v, b, r[2]), r[3])

Routes == {<<k>> : k \in 0 .. Direct + 1}
          \cup {<<Direct, k>> : k \in 0 .. PerTable - 1}
          \cup {<<Direct + 1, k>> : k \in 0 .. PerTable - 1}
          \cup {<<Direct + 1, j, k>> : j, k \in 0 .. PerTable - 1}

(* alloc_block: the first free block from the cursor on, around the end.   *)
Distance(v, b) == (b - v.cursor) % Blocks
Alloc(v) ==
  {b \in Block : ~v.used[b] /\ \A c \in Block : ~v.used[c] => Distance(v, b) <= Distance(v, c)}
After(b) == (b % Blocks) + 1

(* The pointer at the end of route r is set to a block of its own, if it   *)
(* is not yet; a block that becomes a table is cleared.                    *)
Link(v, i, r, isTable) ==
  IF Follow(v, i, r) # 0 THEN Done(v)
  ELSE IF Alloc(v) = {} THEN Failed(v)
  ELSE LET b == CHOOSE c \in Alloc(v) : TRUE
           at == Follow(v, i, Front(r))
           w == [v EXCEPT !.used[b] = TRUE, !.cursor = After(b),
                          !.tables[b] = IF isTable THEN NoTable ELSE @]
       IN Done(IF Len(r) = 1 THEN [w EXCEPT !.inodes[i].ptr[r[1]] = b]
                             ELSE [w EXCEPT !.tables[at][Last(r)] = b])

(* ensure_block: every block on the way to block l of the file.  What was  *)
(* linked before the blocks ran out stays.                                 *)
Extend(x, i, r, n) ==
  IF x.ok /\ n <= Len(r) THEN Link(x.v, i, SubSeq(r, 1, n), n < Len(r)) ELSE x
EnsureBlock(v, i, l) ==
  LET r == Route(l) IN
  IF l < Blocks THEN Extend(Extend(Extend(Done(v), i, r, 1), i, r, 2), i, r, 3) ELSE Failed(v)

(* One block after the other, until they run out.                          *)
EnsureBlocks(v, i, first, count) ==
  LET done[n \in Nat] ==
        IF n = 0 THEN Done(v)
        ELSE LET x == done[n - 1] IN IF x.ok THEN EnsureBlock(x.v, i, first + n - 1) ELSE x
  IN done[count]

BlocksOf(v, i) == {Follow(v, i, r) : r \in Routes} \ {0}

(* free_inode_blocks.                                                      *)
FreeOuterOnly(v, i) ==   \* mutant: what the inner tables refer to is not freed
  LET freed == {Follow(v, i, r) : r \in {s \in Routes : Len(s) < 3}} IN
  [v EXCEPT !.used = [b \in Block |-> v.used[b] /\ b \notin freed],
            !.inodes[i].ptr = NoPtr, !.inodes[i].size = 0, !.cursor = 1]

FreeBlocks(v, i) ==
  [v EXCEPT !.used = [b \in Block |-> v.used[b] /\ b \notin BlocksOf(v, i)],
            !.inodes[i].ptr = NoPtr, !.inodes[i].size = 0, !.cursor = 1]

-----------------------------------------------------------------------------
(* The directory entries: dir_find, dir_add, dir_remove and dir_is_empty.  *)
Places(v, d, n) == {k \in DOMAIN v.entries[d] : v.entries[d][k].ino # 0 /\ v.entries[d][k].name = n}
DirFind(v, d, n) ==
  IF Places(v, d, n) = {} THEN 0 ELSE v.entries[d][Min(Places(v, d, n))].ino

EmptyPlaces(v, d) == {k \in DOMAIN v.entries[d] : v.entries[d][k].ino = 0}

DirAdd(v, d, n, i, type) ==
  LET place == Min(EmptyPlaces(v, d) \cup {Len(v.entries[d]) + 1})
      x == EnsureBlock(v, d, (place - 1) \div PerBlock)
      entry == [name |-> n, ino |-> i, type |-> type]
  IN IF DirFind(v, d, n) # 0 \/ ~x.ok THEN Failed(IF DirFind(v, d, n) # 0 THEN v ELSE x.v)
     ELSE Done([x.v EXCEPT !.entries[d] = [k \in 1 .. Max({Len(@), place}) |->
                                             IF k = place THEN entry ELSE @[k]],
                           !.inodes[d].size = Max({@, place})])

DirRemove(v, d, n) == [v EXCEPT !.entries[d][Min(Places(v, d, n))].ino = 0]

DirIsEmpty(v, d) == \A k \in DOMAIN v.entries[d] : v.entries[d][k].ino = 0

IsDir(v, i) == v.inodes[i].used /\ v.inodes[i].type = "dir"

(* resolve and resolve_parent: the inodes that a path leads through from   *)
(* the root on, 0 once there is none.                                      *)
Walk(v, p) ==
  LET at[n \in Nat] ==
        IF n = 0 THEN Root
        ELSE LET i == at[n - 1] IN IF i # 0 /\ IsDir(v, i) THEN DirFind(v, i, p[n]) ELSE 0
  IN at
Resolve(v, p) == Walk(v, p)[Len(p)]
ResolveParent(v, p) ==
  LET i == Walk(v, p)[Len(p) - 1] IN IF i # 0 /\ v.inodes[i].type = "dir" THEN i ELSE 0

-----------------------------------------------------------------------------
(* minifs_create and minifs_mkdir: the inode is taken first, and given     *)
(* back, with its type and its parent, when there is no room for the entry.*)
MakeKeepsInode(p, type) ==   \* mutant: the inode is not given back
  LET d == ResolveParent(Volume, p) IN
  /\ d # 0 /\ DirFind(Volume, d, Last(p)) = 0
  /\ \E i \in Ino \ {Root} :
       /\ ~inodes[i].used /\ \A j \in Ino : ~inodes[j].used => i <= j
       /\ LET v == [Volume EXCEPT !.inodes[i] =
                      [FreeInode EXCEPT !.used = TRUE, !.type = type, !.parent = d]]
          IN Becomes(DirAdd(v, d, Last(p), i, type).v)

Make(p, type) ==
  LET d == ResolveParent(Volume, p) IN
  /\ d # 0 /\ DirFind(Volume, d, Last(p)) = 0
  /\ \E i \in Ino \ {Root} :
       /\ ~inodes[i].used /\ \A j \in Ino : ~inodes[j].used => i <= j
       /\ LET v == [Volume EXCEPT !.inodes[i] =
                      [FreeInode EXCEPT !.used = TRUE, !.type = type, !.parent = d]]
              x == DirAdd(v, d, Last(p), i, type)
          IN Becomes(IF x.ok THEN x.v ELSE [x.v EXCEPT !.inodes[i].used = FALSE])

(* minifs_unlink and minifs_rmdir.                                         *)
Erase(i, d, n) ==
  LET v == FreeBlocks(DirRemove(Volume, d, n), i) IN
  Becomes([v EXCEPT !.inodes[i] = FreeInode, !.entries[i] = <<>>])

Unlink(p) ==
  LET d == ResolveParent(Volume, p)
      i == DirFind(Volume, d, Last(p))
  IN /\ d # 0 /\ i > Root
     /\ inodes[i].type = "file"
     /\ Erase(i, d, Last(p))

RmdirFull(p) ==   \* mutant: the directory need not be empty
  LET d == ResolveParent(Volume, p)
      i == DirFind(Volume, d, Last(p))
  IN /\ d # 0 /\ i > Root
     /\ inodes[i].type = "dir"
     /\ Erase(i, d, Last(p))

Rmdir(p) ==
  LET d == ResolveParent(Volume, p)
      i == DirFind(Volume, d, Last(p))
  IN /\ d # 0 /\ i > Root
     /\ inodes[i].type = "dir" /\ DirIsEmpty(Volume, i)
     /\ Erase(i, d, Last(p))

(* minifs_rename: no check that q is not below p.                          *)
RenameKeepsParent(p, q) ==   \* mutant: the inode's parent is not updated
  LET d == ResolveParent(Volume, p)
      e == ResolveParent(Volume, q)
      i == DirFind(Volume, d, Last(p))
      x == DirAdd(Volume, e, Last(q), i, inodes[i].type)
  IN /\ p # q /\ (IntoItself \/ ~IsStrictPrefix(p, q))
     /\ d # 0 /\ e # 0 /\ i > Root
     /\ DirFind(Volume, e, Last(q)) = 0
     /\ Becomes(IF x.ok THEN DirRemove(x.v, d, Last(p)) ELSE x.v)

Rename(p, q) ==
  LET d == ResolveParent(Volume, p)
      e == ResolveParent(Volume, q)
      i == DirFind(Volume, d, Last(p))
      x == DirAdd(Volume, e, Last(q), i, inodes[i].type)
  IN /\ p # q /\ (IntoItself \/ ~IsStrictPrefix(p, q))
     /\ d # 0 /\ e # 0 /\ i > Root
     /\ DirFind(Volume, e, Last(q)) = 0
     /\ Becomes(IF x.ok THEN [DirRemove(x.v, d, Last(p)) EXCEPT !.inodes[i].parent = e] ELSE x.v)

(* minifs_truncate.                                                        *)
Truncate(p) ==
  LET i == Resolve(Volume, p) IN
  /\ i > Root /\ inodes[i].type = "file"
  /\ Becomes(FreeBlocks(Volume, i))

(* minifs_write through a descriptor of inode i: when the blocks run out   *)
(* the size stays what it was.                                             *)
Write(i, pos, count) ==
  LET end == Min({pos + count, Blocks * PerBlock})
      first == pos \div PerBlock
      last == (end - 1) \div PerBlock
      y == EnsureBlocks(Volume, i, first, last - first + 1)
  IN /\ inodes[i].used /\ inodes[i].type = "file"
     /\ Becomes(IF y.ok THEN [y.v EXCEPT !.inodes[i].size = Max({@, end})] ELSE y.v)

(* minifs_mount of what a shutdown or a sync has left on the disk.         *)
Mount ==
  /\ LET free == {b \in Block : ~block_used[b]} IN
       alloc_cursor' = IF free = {} THEN 1 ELSE Min(free)
  /\ UNCHANGED <<inodes, entries, tables, block_used>>

Next ==
  \/ \E p \in Path : \/ \E type \in {"file", "dir"} : Make(p, type)
                     \/ Unlink(p) \/ Rmdir(p) \/ Truncate(p)
                     \/ \E q \in Path : Rename(p, q)
  \/ \E i \in Ino, pos \in Positions, n \in Counts : Write(i, pos, n)
  \/ Mount

Spec == Init /\ [][Next]_vars

-----------------------------------------------------------------------------
Used == {i \in Ino : inodes[i].used}

(* The variables stay in their ranges; a directory's size is the number of *)
(* its entries, each in a block the directory has; the root is its own     *)
(* parent.                                                                 *)
TypeOK ==
  /\ inodes \in [Ino -> [used : BOOLEAN, type : {"free", "file", "dir"}, parent : 0 .. Inodes - 1,
                         size : 0 .. Blocks * PerBlock, ptr : [0 .. Direct + 1 -> 0 .. Blocks]]]
  /\ tables \in [Block -> [0 .. PerTable - 1 -> 0 .. Blocks]]
  /\ block_used \in [Block -> BOOLEAN] /\ alloc_cursor \in Block
  /\ inodes[Root].used /\ inodes[Root].type = "dir" /\ inodes[Root].parent = Root

(* "Duplicate, out-of-range, leaked, or unmarked data blocks" do not exist *)
(* (docs/minifs.md, tools/check_minifs.py): a block is marked in the       *)
(* bitmap exactly when a file, a directory or one of their tables refers   *)
(* to it, and then from one place only.  A free inode refers to none.      *)
References(b) == {x \in Ino \X Routes : Follow(Volume, x[1], x[2]) = b}
BlocksExact ==
  /\ TypeOK
  /\ \A b \in Block : Cardinality(References(b)) = IF block_used[b] THEN 1 ELSE 0

(* The directories describe the inodes: a name is used once in a directory *)
(* (docs/minifs.md: "names, duplicate names, types, and parent links"); an *)
(* entry carries the type of its inode, which has the directory as parent; *)
(* every inode but the root has one entry; and each entry has its block.   *)
Links == {x \in Used \X (1 .. Blocks * PerBlock) :
            x[2] <= Len(entries[x[1]]) /\ entries[x[1]][x[2]].ino # 0}
EntriesExact ==
  /\ \A x, y \in Links : x[1] = y[1] /\ entries[x[1]][x[2]].name = entries[y[1]][y[2]].name => x = y
  /\ \A x \in Links : LET e == entries[x[1]][x[2]] IN
       /\ inodes[x[1]].type = "dir"
       /\ e.ino \in Used /\ e.type = inodes[e.ino].type /\ inodes[e.ino].parent = x[1]
  /\ \A i \in Used \ {Root} : Cardinality({x \in Links : entries[x[1]][x[2]].ino = i}) = 1
  /\ \A d \in Used : inodes[d].type = "dir" =>
       /\ inodes[d].size = Len(entries[d])
       /\ \A k \in DOMAIN entries[d] : Follow(Volume, d, Route((k - 1) \div PerBlock)) # 0

(* "Reachability of every used inode from the root directory"              *)
(* (docs/minifs.md): no set of inodes is cut off from it.                  *)
Reachable ==
  \A S \in SUBSET Used :
    Root \in S /\ (\A x \in Links : x[1] \in S => entries[x[1]][x[2]].ino \in S) => S = Used

(***************************************************************************)
(* Inodes, entries and blocks implement the tree of names.                 *)
(***************************************************************************)
TreeKind == [i \in Ino |-> IF inodes[i].used THEN inodes[i].type ELSE "free"]
TreeNames ==
  {[dir |-> x[1], name |-> entries[x[1]][x[2]].name, node |-> entries[x[1]][x[2]].ino] : x \in Links}
TreeSize == [i \in Ino |-> IF inodes[i].type = "file" THEN inodes[i].size ELSE 0]

Abstract == INSTANCE FileTree WITH
  Node <- Ino, kind <- TreeKind, names <- TreeNames, size <- TreeSize
ImplementsFileTree == Abstract!Spec
=============================================================================
