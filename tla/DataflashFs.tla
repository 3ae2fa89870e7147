----------------------------- MODULE DataflashFs -----------------------------
(***************************************************************************)
(* The copy-on-write file system on an AT45 dataflash chip                 *)
(* (hardware/storage/dataflash/fs.c) as its users reach it (vfs_df.c).     *)
(*                                                                         *)
(* Every step that programs a flash page (df_buf_save) is one action, so   *)
(* that the power can fail between any two of them, or during one: what    *)
(* the page then holds is a guess, see Torn.  What a function reads and    *)
(* computes between two programmed pages belongs to the step that programs *)
(* the second.  A root page left half programmed fails its CRC, so that    *)
(* only complete root pages are of kind "root".  A call that fails at      *)
(* once, having programmed nothing, is a stuttering step.                  *)
(***************************************************************************)
EXTENDS Integers, Sequences, FiniteSets, FiniteSetsExt, SequencesExt

CONSTANTS
    NumPages,    \* DF_PAGES
    DataSize,    \* FS_DATASIZE
    NumTables,   \* FS_ROOTNODE_INODETABLE_SIZE
    PerTable,    \* FS_INODES_PER_TABLE
    NumNodes,    \* FS_NODES_IN_ROOT
    Names,       \* file names, numbered in the order of strncmp
    Bytes,       \* the bytes that are written
    Absent, Junk,
    MaxFailures, \* bound on the number of power failures during a call or fs_init
    Avoided,     \* what the users of the file system do not do, see MayCall
    MaxSize,     \* bound on the size of a file
    MaxWrite,    \* bound on the length of one write
    MaxVersion   \* bound on fs.version at the start of a call

Pages == 0 .. NumPages - 1
NoPage == NumPages                      \* 0xffff
NumInodes == NumTables * PerTable
Inodes == 0 .. NumInodes - 1
NodeIndex == 0 .. NumNodes - 1
NoName == 0

ASSUME DataflashAssumption ==
    /\ NumTables \in Nat \ {0} /\ PerTable \in Nat \ {0} /\ DataSize \in Nat \ {0}
    /\ NumPages > NumTables + 1
    /\ Names \subseteq Nat \ {NoName}
    /\ NumNodes > Cardinality(Names)
    /\ Avoided \subseteq {"reserve", "crossing", "boundary", "lap", "ghost", "inodes"}

VARIABLES
    flash,      \* the contents of every page
    root,       \* fs.root
    version,    \* fs.version
    last_free,  \* fs.last_free
    used,       \* the bitmap of used pages in DF_BUF2
    call,       \* the call in progress, and its arguments
    op,         \* how far it is, and its local variables
    failures,   \* the number of power failures so far
    handed,     \* the number of pages handed out since fs_init
    shown       \* the files as they were before the call in progress

vars == <<flash, root, version, last_free, used, call, op, failures, handed, shown>>

-----------------------------------------------------------------------------
(* What the pages hold.  Read as part of a file, a page that was never     *)
(* written as one has its eof bit set (so fs_format leaves root pages and  *)
(* inode tables, and erased pages read as ones) and junk in it.            *)
Blank == [kind |-> "blank"]
RootPage(v, t, n) == [kind |-> "root", version |-> v, inodetable |-> t, nodes |-> n]
TablePage(i) == [kind |-> "table", inodes |-> i]
DataPage(eof, next, data) ==
    [kind |-> "data", eof |-> eof, next_inode |-> next, data |-> data]

(* A page left half erased or half programmed: erased, or with any header  *)
(* and junk.  Only root pages have a CRC that tells.                       *)
Torn ==
    {Blank, DataPage(TRUE, NumInodes - 1, <<>>)}
    \cup {DataPage(eof, next, Junk) : eof \in BOOLEAN, next \in Inodes}

AsData(p) ==
    IF flash[p].kind = "data" THEN flash[p] ELSE DataPage(TRUE, NumInodes - 1, Junk)

EmptyNode == [unused |-> TRUE, name |-> NoName, inode |-> 0]
Nodes == flash[root].nodes

fs_inodetable(t) == flash[root].inodetable[t]
fs_page(inode) == flash[fs_inodetable(inode \div PerTable)].inodes[inode % PerTable]

(* The inode is kept in 12 bits: 0xffff, for none, is stored as the last   *)
(* inode, and the callers' comparison with 0xffff never succeeds.          *)
fs_new_inode ==
    LET free == {i \in Inodes : fs_page(i) = NoPage} IN
    IF free = {} THEN NumInodes - 1 ELSE Min(free)

(* The first page that is not marked, going round from last_free; NoPage   *)
(* when the search is back where it began.                                 *)
NewPageFrom(last) ==
    LET dist == {d \in 1 .. NumPages - 1 : (last + d) % NumPages \notin used} IN
    IF dist = {} THEN NoPage ELSE (last + Min(dist)) % NumPages

LastNode == Min({k \in NodeIndex : Nodes[k].unused})
LiveNodes == {k \in NodeIndex : k < LastNode}

(* fs_get_inode compares the name before it looks at the unused bit.       *)
Found(name) == {k \in 0 .. LastNode : Nodes[k].name = name}
fs_get_inode(name) == Nodes[Min(Found(name))].inode

Entry(name) == {k \in LiveNodes : Nodes[k].name = name}

(* The pages of a file, in order, as fs_init, fs_size and fs_read follow   *)
(* them.  NumInodes + 1 steps are enough to see that the chain is cyclic.  *)
Follow(inode) ==
    LET walk[p \in Pages \cup {NoPage}, k \in 0 .. NumInodes] ==
            IF k = 0 \/ p = NoPage \/ AsData(p).eof THEN <<p>>
            ELSE <<p>> \o walk[fs_page(AsData(p).next_inode), k - 1]
    IN walk[fs_page(inode), NumInodes]

Ends(inode) == LET p == Last(Follow(inode)) IN p # NoPage => AsData(p).eof

Content(inode) ==
    LET w == Follow(inode) IN
    IF w = <<NoPage>> THEN <<>>
    ELSE IF \E k \in DOMAIN w : w[k] = NoPage \/ AsData(w[k]).data = Junk THEN Junk
    ELSE FlattenSeq([k \in DOMAIN w |-> AsData(w[k]).data])

(* The pages fs_read skips; a mutant: as fs_write does.                    *)
ReadSkipsLate(offset) == IF offset > DataSize THEN (offset - 1) \div DataSize ELSE 0
ReadSkips(offset) == offset \div DataSize

(* fs_read: the bytes it returns the number of, and how many bytes it      *)
(* stores in the caller's buffer.                                          *)
fs_read(inode, offset, length) ==
    LET w == Follow(inode)
        first == ReadSkips(offset) + 1
        start == offset - ReadSkips(offset) * DataSize
        read[k \in DOMAIN w, off \in 0 .. DataSize, len \in 0 .. length] ==
            LET page == AsData(w[k])
                rest == SubSeq(page.data, off + 1, Len(page.data))
            IN  IF len + off <= Len(page.data)
                THEN [data |-> SubSeq(rest, 1, len), stored |-> len + off]
                ELSE IF page.eof
                THEN [data |-> rest, stored |-> Len(rest)]
                ELSE LET next == read[k + 1, 0, len - Len(rest)]
                     IN  [data |-> rest \o next.data, stored |-> DataSize - off + next.stored]
    IN  IF \/ w = <<NoPage>>
           \/ first > Len(w)
           \/ start >= Len(AsData(w[first]).data)
        THEN [data |-> <<>>, stored |-> 0]
        ELSE read[first, start, length]

(* fs_size is 0 for a file without pages, for one with empty pages and for *)
(* one whose chain of pages breaks off; a page with junk has another size. *)
(* It is called only of chains that fs_init could follow to an end.        *)
IsEmpty(inode) == Last(Follow(inode)) = NoPage \/ Content(inode) = <<>>

View == [n \in Names |->
            IF Entry(n) = {} THEN Absent ELSE Content(Nodes[Min(Entry(n))].inode)]

(* Mutants: only the first page of each file, no inode table is marked. *)
MarkedNoTables ==
    LET files == {Nodes[k].inode : k \in {j \in NodeIndex : ~Nodes[j].unused}} IN
    ({root} \cup UNION {Range(Follow(i)) : i \in files}) \ {NoPage}

MarkedUsed ==
    LET files == {Nodes[k].inode : k \in {j \in NodeIndex : ~Nodes[j].unused}} IN
    ({root} \cup {fs_inodetable(t) : t \in 0 .. NumTables - 1}
            \cup UNION {Range(Follow(i)) : i \in files}) \ {NoPage}

-----------------------------------------------------------------------------
(* The call in progress: its function in vfs_df.c, the file, and what it   *)
(* was called with (truncate: pos is the new length).                      *)
Called(fn, name, pos, buf) == [fn |-> fn, name |-> name, pos |-> pos, buf |-> buf]
NoCall == Called("none", Absent, 0, <<>>)

(* Where it is: what it programs next (at), the function of fs.c ("new" is *)
(* the second half of fs_write) and the local variables of that.           *)
Local(at, in, inode, offset, buf, old) ==
    [at |-> at, in |-> in, inode |-> inode, offset |-> offset, buf |-> buf, old |-> old,
     page |-> NoPage, eof |-> FALSE, table |-> NoPage]

Idle == Local("idle", "none", 0, 0, <<>>, NoPage)
Boot == Local("boot", "fs_init", 0, 0, <<>>, NoPage)

Init ==
    /\ flash = [p \in Pages |-> Blank]
    /\ root = 0 /\ version = 0 /\ last_free = 0 /\ used = {} /\ handed = 0
    /\ call = NoCall /\ op = Boot
    /\ failures = 0
    /\ shown = [n \in Names |-> Absent]

Return == call' = NoCall /\ op' = Idle
Continue(next) == UNCHANGED call /\ op' = next

-----------------------------------------------------------------------------
(* fs_init.  fs_scan takes the complete root page with the highest version;*)
(* without one fs_format programs the empty inode tables, then a root in   *)
(* page 0.  The pages in use are marked once, here.                        *)
Roots == {p \in Pages : flash[p].kind = "root"}
(* A mutant: any complete root page is as good, the first is taken. *)
FirstRoot == Min(Roots)

NewestRoot == CHOOSE p \in Roots : \A q \in Roots : flash[p].version >= flash[q].version

(* A mutant: the version found is not kept. *)
fs_scan_unversioned ==
    /\ op.at = "boot"
    /\ Roots # {}
    /\ root' = NewestRoot
    /\ version' = 1
    /\ op' = [op EXCEPT !.at = "mark"]
    /\ UNCHANGED <<flash, last_free, used, call, failures, handed, shown>>

fs_scan ==
    /\ op.at = "boot"
    /\ Roots # {}
    /\ root' = NewestRoot
    /\ version' = flash[NewestRoot].version
    /\ op' = [op EXCEPT !.at = "mark"]
    /\ UNCHANGED <<flash, last_free, used, call, failures, handed, shown>>

fs_format ==
    /\ op.at = "boot"
    /\ Roots = {}
    /\ version' = 1
    /\ op' = [op EXCEPT !.at = "format"]
    /\ UNCHANGED <<flash, root, last_free, used, call, failures, handed, shown>>

FormatTable ==
    /\ op.at = "format"
    /\ op.offset < NumTables
    /\ flash' = [flash EXCEPT ![op.offset + 1] = TablePage([i \in 0 .. PerTable - 1 |-> NoPage])]
    /\ op' = [op EXCEPT !.offset = @ + 1]
    /\ UNCHANGED <<root, version, last_free, used, call, failures, handed, shown>>

FormatRoot ==
    /\ op.at = "format"
    /\ op.offset = NumTables
    /\ flash' = [flash EXCEPT ![0] = RootPage(version, [t \in 0 .. NumTables - 1 |-> t + 1],
                                              [k \in NodeIndex |-> EmptyNode])]
    /\ root' = 0
    /\ op' = [op EXCEPT !.at = "mark"]
    /\ UNCHANGED <<version, last_free, used, call, failures, handed, shown>>

(* The loop over the pages of a file ends only if the chain does.          *)
MarkUsed ==
    /\ op.at = "mark"
    /\ \A k \in LiveNodes : Ends(Nodes[k].inode)
    /\ used' = MarkedUsed
    /\ Return
    /\ UNCHANGED <<flash, root, version, last_free, failures, handed, shown>>

-----------------------------------------------------------------------------
(* The steps that program a page.  Without a page the call fails.          *)
Allocate(p, n) == last_free' = p /\ handed' = handed + n

Fail ==
    /\ Return
    /\ UNCHANGED <<flash, root>>

(* fs_increment, of a root page in DF_BUF1 with these contents.            *)
fs_increment(tables, nodes, after) ==
    LET r == NewPageFrom(last_free) IN
    /\ version' = version + 1
    /\ IF r = NoPage
       THEN Fail /\ UNCHANGED <<last_free, handed>>
       ELSE /\ Allocate(r, 1)
            /\ flash' = [flash EXCEPT ![r] = RootPage(version + 1, tables, nodes)]
            /\ root' = r
            /\ IF after = Idle THEN Return ELSE Continue(after)
    /\ UNCHANGED <<used, failures, shown>>

Inserted(name, inode) ==
    LET index == Cardinality({k \in LiveNodes : Nodes[k].name < name}) IN
    [k \in NodeIndex |->
        IF k = index THEN [unused |-> FALSE, name |-> name, inode |-> inode]
        ELSE IF k \in index + 1 .. LastNode THEN Nodes[k - 1]
        ELSE Nodes[k]]

(* The entry behind the last file is the last node read, marked unused:    *)
(* the one that was moved, or the old end of the list.                     *)
Removed(name) ==
    LET index == Min(Entry(name))
        last  == LastNode - 1
    IN  [k \in NodeIndex |->
            IF k = last
            THEN [Nodes[IF index < last THEN last ELSE LastNode] EXCEPT !.unused = TRUE]
            ELSE IF k \in index .. last - 1 THEN Nodes[k + 1]
            ELSE Nodes[k]]

(* fs_truncate to length 0 of a file that is not empty.                    *)
Emptying(inode) == Local("table", "fs_truncate", inode, 0, <<>>, fs_page(inode))

(* fs_create and the first half of fs_remove program a root page.          *)
SaveNodes ==
    /\ op.at = "nodes"
    /\ IF op.in = "fs_create"
       THEN LET inode == fs_new_inode IN
            fs_increment(flash[root].inodetable, Inserted(call.name, inode),
                         IF IsEmpty(inode) THEN Idle ELSE Emptying(inode))
       ELSE fs_increment(flash[root].inodetable, Removed(call.name), [op EXCEPT !.at = "table"])

(* The first half of fs_update_inodetable, with the page that is to hold   *)
(* the data allocated before it.                                           *)
TablePageFor(page) == NewPageFrom(IF page = NoPage THEN last_free ELSE page)

SaveTable ==
    LET page == IF op.in = "fs_remove" THEN NoPage ELSE NewPageFrom(last_free)
        new  == TablePageFor(page)
        t    == fs_inodetable(op.inode \div PerTable)
    IN  /\ op.at = "table"
        /\ IF page = NoPage /\ op.in # "fs_remove"
           THEN Fail /\ UNCHANGED <<last_free, handed>>
           ELSE IF new = NoPage
           THEN Fail /\ Allocate(IF page = NoPage THEN last_free ELSE page, 1)
           ELSE /\ Allocate(new, IF page = NoPage THEN 1 ELSE 2)
                /\ flash' = [flash EXCEPT ![new] =
                                [flash[t] EXCEPT !.inodes[op.inode % PerTable] = page]]
                /\ Continue([op EXCEPT !.at = "root", !.page = page, !.table = new])
                /\ UNCHANGED root
        /\ UNCHANGED <<version, used, failures, shown>>

(* The second half of fs_update_inodetable.                                *)
SaveRoot ==
    /\ op.at = "root"
    /\ fs_increment([flash[root].inodetable EXCEPT ![op.inode \div PerTable] = op.table], Nodes,
                    IF op.in = "fs_remove" THEN Idle ELSE [op EXCEPT !.at = "data"])

(* The data page of fs_truncate: the old page, cut at offset.  What        *)
(* followed it is left in the inode table.                                 *)
Truncated ==
    LET old == AsData(op.old) IN
    DataPage(TRUE, old.next_inode,
             IF op.offset = 0 THEN <<>>
             ELSE IF old.data = Junk THEN Junk
             ELSE SubSeq(old.data, 1, op.offset))

(* A data page of fs_write: as much of buf as fits is put at offset of the *)
(* old page; with more to come the page is full and another inode follows. *)
(* Past the end of the old file (eof) its last page only serves as scratch.*)
More == Len(op.buf) + op.offset > DataSize
Fits == DataSize - op.offset

Patched(old, buf, size) ==
    IF old = Junk THEN Junk
    ELSE LET end == op.offset + Len(buf) IN
         SubSeq(SubSeq(old, 1, op.offset) \o buf \o SubSeq(old, end + 1, Len(old)), 1, size)

(* The inode that follows; a mutant: the page points back to its own.      *)
OwnInode == op.inode
FollowingInode == fs_new_inode

Written ==
    LET old == AsData(op.old)
        end == Len(op.buf) + op.offset
    IN  IF More
        THEN DataPage(FALSE, FollowingInode, Patched(old.data, SubSeq(op.buf, 1, Fits), DataSize))
        ELSE DataPage(old.eof \/ op.eof, old.next_inode,
                      IF op.eof THEN op.buf
                      ELSE IF old.data = Junk THEN Junk
                      ELSE Patched(old.data, op.buf, IF end > Len(old.data) THEN end ELSE Len(old.data)))

(* A data page of a file that had none.                                    *)
FirstWritten ==
    IF More
    THEN DataPage(FALSE, fs_new_inode, SubSeq(op.buf, 1, DataSize))
    ELSE DataPage(TRUE, NumInodes - 1, op.buf)

(* Whether the old file ended here; a mutant: that is forgotten.           *)
NeverEnded == FALSE
OldEnded == op.in # "new" /\ (op.eof \/ AsData(op.old).eof)

(* The rest of a write: length is reduced by what was written, buf is the  *)
(* same pointer.                                                           *)
Remaining ==
    LET old == AsData(op.old)
        new == op.in = "new"
    IN  [op EXCEPT !.at = "table",
                   !.inode = fs_new_inode,
                   !.offset = 0,
                   !.buf = SubSeq(@, 1, Len(@) - Fits),
                   !.eof = OldEnded,
                   !.old = IF new \/ old.eof THEN @ ELSE fs_page(old.next_inode)]

SaveData ==
    /\ op.at = "data"
    /\ flash' = [flash EXCEPT ![op.page] =
                    CASE op.in = "fs_truncate" -> Truncated
                      [] op.in = "fs_write"    -> Written
                      [] op.in = "new"         -> FirstWritten]
    /\ IF op.in # "fs_truncate" /\ More THEN Continue(Remaining) ELSE Return
    /\ UNCHANGED <<root, version, last_free, used, failures, handed, shown>>

-----------------------------------------------------------------------------
(* The calls.  A file is opened by its name for each of them.  MayCall     *)
(* bounds the instance and says what the users of the file system avoid:   *)
(*   lap       to have more pages handed out since fs_init than were free; *)
(*   reserve   to create or extend a file while another one is empty;      *)
(*   inodes    to create or extend a file with almost no unused inode;     *)
(*   crossing  to write across the end of a page from before it;           *)
(*   boundary  to truncate a file at the end of a page that is not its last*)
(*   ghost     to open a file that was removed.                            *)
MayCall(need) ==
    /\ op.at = "idle"
    /\ version <= MaxVersion
    /\ "lap" \in Avoided => handed + need <= NumPages - Cardinality(used)

MayGrow(name) ==
    /\ "reserve" \in Avoided =>
          \A k \in LiveNodes : Nodes[k].name # name => fs_page(Nodes[k].inode) # NoPage
    /\ "inodes" \in Avoided => Cardinality({i \in Inodes : fs_page(i) = NoPage}) > 1

Opens(name) == IF "ghost" \in Avoided THEN Entry(name) # {} ELSE Found(name) # {}

Start(called, local) ==
    /\ call' = called
    /\ op' = local
    /\ shown' = View
    /\ UNCHANGED <<flash, root, version, last_free, used, failures, handed>>

vfs_df_create(name) ==
    /\ MayCall(4) /\ MayGrow(name)
    /\ Start(Called("create", name, 0, <<>>),
             IF Entry(name) = {} THEN Local("nodes", "fs_create", 0, 0, <<>>, NoPage)
             ELSE IF IsEmpty(fs_get_inode(name)) THEN Local("return", "fs_create", 0, 0, <<>>, NoPage)
             ELSE Emptying(fs_get_inode(name)))

vfs_df_unlink(name) ==
    /\ MayCall(3)
    /\ Entry(name) # {}
    /\ Start(Called("remove", name, 0, <<>>),
             Local("nodes", "fs_remove", Nodes[Min(Entry(name))].inode, 0, <<>>, NoPage))

(* Where position pos of a file is, as fs_write and fs_truncate seek: the  *)
(* end of a full page is in that page.                                     *)
Skipped(pos) == IF pos > DataSize THEN (pos - 1) \div DataSize ELSE 0
SeekInode(inode, pos) ==
    IF Skipped(pos) = 0 THEN inode ELSE AsData(Follow(inode)[Skipped(pos)]).next_inode

vfs_df_write(name) ==
    LET inode == fs_get_inode(name)
        size  == IF Content(inode) = Junk THEN 0 ELSE Len(Content(inode))
    IN  /\ MayCall(6) /\ MayGrow(name)
        /\ Opens(name)
        /\ \E pos \in 0 .. size, length \in 1 .. MaxWrite : \E buf \in [1 .. length -> Bytes] :
              LET offset == pos - Skipped(pos) * DataSize
                  i      == SeekInode(inode, pos)
              IN  /\ pos + length <= MaxSize
                  /\ "crossing" \in Avoided => offset = DataSize \/ offset + length <= DataSize
                  /\ Start(Called("write", name, pos, buf),
                           IF fs_page(inode) = NoPage
                           THEN Local("table", "new", inode, pos, buf, NoPage)
                           ELSE Local("table", "fs_write", i, offset, buf, fs_page(i)))

(* Nothing is done when length is the size of the page it falls in.        *)
vfs_df_truncate(name) ==
    LET inode == fs_get_inode(name) IN
    /\ MayCall(3)
    /\ Opens(name)
    /\ fs_page(inode) # NoPage
    /\ \E length \in 0 .. IF Content(inode) = Junk THEN 0 ELSE Len(Content(inode)) :
          LET i == SeekInode(inode, length)
              p == fs_page(i)
              offset == length - Skipped(length) * DataSize
          IN  /\ "boundary" \in Avoided => AsData(p).eof \/ offset # DataSize
              /\ Start(Called("truncate", name, length, <<>>),
                       IF AsData(p).data # Junk /\ offset = Len(AsData(p).data)
                       THEN Local("return", "fs_truncate", i, offset, <<>>, p)
                       ELSE Local("table", "fs_truncate", i, offset, <<>>, p))

ReturnAtOnce ==
    /\ op.at = "return"
    /\ Return
    /\ UNCHANGED <<flash, root, version, last_free, used, failures, handed, shown>>

-----------------------------------------------------------------------------
(* The page that the next step of the call programs.                       *)
Programs ==
    CASE op.at = "format" -> IF op.offset < NumTables THEN op.offset + 1 ELSE 0
      [] op.at \in {"nodes", "root"} -> NewPageFrom(last_free)
      [] op.at = "table" -> TablePageFor(IF op.in = "fs_remove" THEN NoPage
                                         ELSE NewPageFrom(last_free))
      [] op.at = "data" -> op.page
      [] OTHER -> NoPage

Restart ==
    /\ root' = 0 /\ version' = 0 /\ last_free' = 0 /\ used' = {} /\ handed' = 0
    /\ op' = Boot

Reset ==
    /\ op.at = "idle"
    /\ Restart
    /\ shown' = View
    /\ UNCHANGED <<flash, failures, call>>

PowerFailure ==
    /\ op.at # "idle"
    /\ failures < MaxFailures
    /\ failures' = failures + 1
    /\ \/ UNCHANGED flash
       \/ /\ Programs # NoPage
          /\ \E torn \in Torn : flash' = [flash EXCEPT ![Programs] = torn]
    /\ Restart
    /\ UNCHANGED <<call, shown>>

Step ==
    fs_scan \/ fs_format \/ FormatTable \/ FormatRoot \/ MarkUsed
    \/ SaveNodes \/ SaveTable \/ SaveRoot \/ SaveData \/ ReturnAtOnce

Next ==
    \/ Step
    \/ \E n \in Names : vfs_df_create(n) \/ vfs_df_unlink(n) \/ vfs_df_write(n) \/ vfs_df_truncate(n)
    \/ Reset
    \/ PowerFailure

Spec == Init /\ [][Next]_vars

-----------------------------------------------------------------------------
(* The state of the driver, the chip and the call in progress.             *)
TypeOK ==
    /\ DOMAIN flash = Pages
    /\ \A p \in Pages : flash[p].kind \in {"blank", "root", "table", "data"}
    /\ \A p \in Pages : flash[p].kind = "data" /\ flash[p].data # Junk =>
          flash[p].next_inode \in Inodes /\ Len(flash[p].data) <= DataSize
    /\ root \in Pages /\ last_free \in Pages /\ used \subseteq Pages
    /\ version \in Nat /\ handed \in Nat /\ failures \in 0 .. MaxFailures
    /\ op.inode \in Inodes /\ op.offset \in Nat
    /\ op.page \in Pages \cup {NoPage} /\ op.old \in Pages \cup {NoPage}

(* Pages that the current root page leads to, except the page of the call  *)
(* in progress whose inode was entered before its data was written.        *)
Live ==
    {root} \cup {fs_inodetable(t) : t \in 0 .. NumTables - 1}
           \cup (UNION {Range(Follow(Nodes[k].inode)) : k \in LiveNodes} \ {NoPage, op.page})

Mounted == op.at \notin {"boot", "format", "mark"}

(* Copy on write: while the file system is mounted no step of create,      *)
(* write, truncate or remove, and no power failure in one, changes a page  *)
(* that the current root page leads to.                                    *)
CopyOnWrite ==
    [][Mounted => \A p \in Live : flash'[p] = flash[p]]_vars

(* The newest complete root page on the chip is the one in memory, so that *)
(* fs_scan finds after a power failure what fs_increment committed last.   *)
NewestIsCurrent ==
    Mounted => \A p \in Roots : flash[p].version <= flash[root].version

(* fs_init can follow the pages of every file to an end.                   *)
ChainsEnd == op.at = "mark" => \A k \in LiveNodes : Ends(Nodes[k].inode)

(* No inode belongs to two files.                                          *)
InodesNotShared ==
    Mounted => \A j, k \in LiveNodes : Nodes[j].inode = Nodes[k].inode => j = k

(* Every fs_read of any part of any file: its length is up to MaxSize.     *)
Reads(P(_, _)) ==
    op.at = "idle" =>
        \A k \in LiveNodes, offset \in 0 .. MaxSize, length \in 1 .. MaxSize :
            LET c == Content(Nodes[k].inode) IN
            c # Junk => P(fs_read(Nodes[k].inode, offset, length),
                          SubSeq(c, offset + 1, IF offset + length < Len(c) THEN offset + length ELSE Len(c)))

(* fs_read returns the bytes of the file from offset on, across the pages  *)
(* of the file, as many as asked for or as there are.                      *)
ReadsTheFile == Reads(LAMBDA r, bytes : r.data = bytes)

(* fs_read stores no more bytes in the buffer than it says it has read.    *)
StoresWhatItReads == Reads(LAMBDA r, bytes : r.stored = Len(r.data))

(* A name that fs_remove took out of the directory cannot be opened.       *)
RemovedNotOpened ==
    op.at = "idle" => \A n \in Names : Entry(n) = {} => Found(n) = {}

(* The file system does what FileStore promises: each call has the effect  *)
(* its arguments ask for when it returns, on its file alone, and a power   *)
(* failure in it damages at most this file.  For the uses that are not in  *)
(* Avoided and, with power failures, for files of one page: a longer one   *)
(* may be left with a successor that the next file created gets.           *)
Store == INSTANCE FileStore WITH
    files <- IF op.at = "idle" THEN View ELSE shown,
    pending <- call,
    PowerFails <- MaxFailures > 0

ImplementsFileStore == Store!FSSpec

=============================================================================
