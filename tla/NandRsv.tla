------------------------------- MODULE NandRsv -------------------------------
(***************************************************************************)
(* One region of the NAND reserved area (env, key, dtb or ddr parameters;  *)
(* drivers/amlogic/mtd/aml_rsv.c): a few blocks, of which one holds the    *)
(* valid content and the others are a free list.  Every save takes the     *)
(* next pages of the valid block, and the first of the free list when it   *)
(* is full.  A content takes PageNum pages; each page carries the region's *)
(* name and a timestamp that grows with every new block, which is how the  *)
(* scan after power-up finds the last content again.                       *)
(*                                                                         *)
(* One action runs the code from one flash operation to the next, so that  *)
(* the power can be cut in every one of them.                              *)
(*                                                                         *)
(* Left out: the erase counts (nothing reads them), the bad block table    *)
(* region, whose save is called from inside mtd_block_markbad, the gap the *)
(* bad block table makes in the block numbers, and the protection of       *)
(* blocks from other users of the chip.  A block whose erase fails in a    *)
(* save is marked bad; elsewhere only marked blocks fail to erase.         *)
(*                                                                         *)
(* The size of a region is a multiple of the page size, or less than one   *)
(* page: the scan rounds it down to pages and the save rounds it up, and   *)
(* PageNum is both.                                                        *)
(***************************************************************************)
EXTENDS Integers, Sequences, FiniteSets

CONSTANTS
  Values,       \* contents
  None,         \* no content
  NoJob,        \* no call in progress
  NBlocks,      \* blocks of the region
  PagesPerBlk,
  PageNum,      \* pages of one content
  NodeCount,    \* nodes of the free list this region can get
  TimestampMod, \* 2^15: the width of oobinfo_t.timestamp
  MaxTimestamp, \* bound: no new save beyond it
  MaxCuts,      \* bound on power cuts
  MaxBad,       \* bound on blocks that go bad
  MaxFails      \* bound on pages that fail to program

ASSUME RsvAssumption ==
  /\ NBlocks \in Nat \ {0} /\ PageNum \in Nat \ {0} /\ PagesPerBlk \in Nat \ {0}
  /\ PagesPerBlk % PageNum = 0
  /\ NodeCount \in Nat /\ TimestampMod \in Nat \ {0} /\ MaxTimestamp \in Nat
  /\ MaxCuts \in Nat /\ MaxBad \in Nat /\ MaxFails \in Nat
  /\ None \notin Values /\ NoJob \notin Values \cup {None}

Blocks == 0 .. NBlocks - 1
Pages == 0 .. PagesPerBlk - 1
Starts == {p \in Pages : p % PageNum = 0}    \* first pages of the copies
HeaderReads == 8                             \* the scan gives a block up when scan_status++ > 6
Headers == {p \in Starts : p < HeaderReads * PageNum}
NoBlock == -1

Page == [st : {"erased", "torn", "data"}, val : Values \cup {None},
         part : 0 .. PageNum - 1, ts : 0 .. TimestampMod - 1]
Erased == [st |-> "erased", val |-> None, part |-> 0, ts |-> 0]
Torn == [Erased EXCEPT !.st = "torn"]        \* its ECC cannot be corrected
EmptyBlock == [p \in Pages |-> Erased]
RuinedBlock == [p \in Pages |-> Torn]        \* after an erase cut short

VARIABLES
  flash,   \* [Blocks -> [Pages -> Page]]
  bad,     \* blocks marked bad
  mem,     \* struct meson_rsv_info_t
  pc,      \* the flash operation that is next
  job,     \* the content being saved, None for an erase
  next,    \* progress of the call: page of the content, or place in the free list
  scan,    \* locals of meson_rsv_scan: good_addr, ret = -1, start
  ret,     \* what the last save or erase since power-up returned
  cuts, fails

vars == <<flash, bad, mem, pc, job, next, scan, ret, cuts, fails>>

Mem == [valid : BOOLEAN, abnormal : BOOLEAN, blk_addr : Blocks \cup {NoBlock},
        page_addr : -1 .. PagesPerBlk + PageNum, timestamp : Nat, nfree : Seq(Blocks)]

\* meson_rsv_init: nothing is known before the scan.
NothingKnown == [valid |-> FALSE, abnormal |-> FALSE, blk_addr |-> NoBlock,
                 page_addr |-> 0, timestamp |-> 0, nfree |-> <<>>]

NewScan == [good |-> {}, incomplete |-> FALSE, start |-> 0]

\* Bug: get_free_node without the test for MTD_RSV_BLOCK_CNT.
Bug_NodeLeft(nfree) == TRUE

\* get_free_node finds a clear bit.
NodeLeft(nfree) == Len(nfree) < NodeCount

---------------------------------------------------------------------------
(* meson_rsv_scan *)

\* The first copy whose oob can be read decides what the block is.
Readable(b) == {p \in Headers : flash[b][p].st # "torn"}
Header(b) == flash[b][CHOOSE p \in Readable(b) : \A q \in Readable(b) : p <= q]

\* The block becomes the valid one, or is put on the free list.
Listed(m, b) == [m EXCEPT !.nfree = Append(@, b)]
Taken(m, b) == [m EXCEPT !.valid = TRUE, !.blk_addr = b, !.page_addr = 0, !.timestamp = Header(b).ts]

\* Bug: the block with the smaller timestamp wins.
Bug_Visit(m, b) ==
  CASE Header(b).st # "data" -> Listed(m, b)
    [] Header(b).st = "data" /\ m.blk_addr = NoBlock -> Taken(m, b)
    [] Header(b).st = "data" /\ m.blk_addr # NoBlock ->
         IF Header(b).ts < m.timestamp THEN Taken(Listed(m, m.blk_addr), b)
         ELSE [Listed(m, b) EXCEPT !.valid = TRUE]

\* One round of the loop over the blocks.  A block without a readable header is in no
\* list; one of two blocks with the region's name is put on the free list.
Visit(m, b) ==
  CASE Header(b).st # "data" -> Listed(m, b)
    [] Header(b).st = "data" /\ m.blk_addr = NoBlock -> Taken(m, b)
    [] Header(b).st = "data" /\ m.blk_addr # NoBlock ->
         IF Header(b).ts > m.timestamp THEN Taken(Listed(m, m.blk_addr), b)
         ELSE [Listed(m, b) EXCEPT !.valid = TRUE]

NeedsNode(b) == Header(b).st # "data" \/ mem.blk_addr # NoBlock

scan_block ==
  /\ pc = "scan"
  /\ LET b == scan.start
         m == [mem EXCEPT !.abnormal = FALSE]
         rest == IF b + 1 < NBlocks THEN "scan" ELSE "select"
         more == [scan EXCEPT !.start = IF b + 1 < NBlocks THEN b + 1 ELSE 0]
     IN \/ /\ Readable(b) = {}
           /\ pc' = rest /\ scan' = more
           /\ UNCHANGED mem
        \/ /\ Readable(b) # {}
           /\ NeedsNode(b) => NodeLeft(mem.nfree)
           /\ pc' = rest /\ scan' = more
           /\ mem' = Visit(m, b)
        \/ /\ Readable(b) # {} /\ NeedsNode(b) /\ ~NodeLeft(mem.nfree)   \* -ENOMEM
           /\ mem' = [m EXCEPT !.valid = @ \/ Header(b).st = "data"]
           /\ pc' = "idle" /\ scan' = NewScan
  /\ UNCHANGED <<flash, bad, job, next, ret, cuts, fails>>

\* Step 2, the pages of the valid block up to the first that is not the region's.
Seen(b) == {p \in Pages : \A q \in 0 .. p : flash[b][q].st # "erased"}
Good(b) == {p \in Seen(b) : flash[b][p].st = "data"}
Highest(S) == CHOOSE p \in S : \A q \in S : q <= p

\* The newest complete copy of the block.  After a round that found none, which is
\* kept in scan, any complete copy will do, and good_addr still has the pages of that
\* round.  A read starts again after a scan, which is a read of its own; the other
\* callers ignore the result.
select_copy ==
  /\ pc = "select"
  /\ LET b == mem.blk_addr
         last == IF Good(b) = {} THEN mem.page_addr ELSE Highest(Good(b))
         cutoff == (last + 1) % PageNum # 0
         good == scan.good \cup Good(b)
         copies == {p \in Starts : \A k \in 0 .. PageNum - 1 : p + k \in good}
         retry == cutoff \/ scan.incomplete
     IN \/ /\ ~mem.valid
           /\ pc' = "idle" /\ scan' = NewScan
           /\ UNCHANGED mem
        \/ /\ mem.valid
           /\ retry => copies # {}
           /\ mem' = [mem EXCEPT !.page_addr = IF retry THEN Highest(copies) ELSE last - (PageNum - 1),
                                 !.abnormal = cutoff \/ Seen(b) # Good(b)]
           /\ pc' = "idle" /\ scan' = NewScan
        \/ /\ mem.valid /\ retry /\ copies = {}
           /\ scan' = [good |-> good, incomplete |-> TRUE, start |-> 0]
           /\ pc' = "free"
           /\ UNCHANGED mem
  /\ UNCHANGED <<flash, bad, job, next, ret, cuts, fails>>

\* Bug: the erase is forgotten.
Bug_ErasedFlash(b) == flash

\* mtd_erase of a block: it works unless the block is marked bad.
ErasedFlash(b) == IF b \in bad THEN flash ELSE [flash EXCEPT ![b] = EmptyBlock]

\* No copy of the newest block is complete: erase it, forget the lists, scan again.
meson_rsv_free ==
  /\ pc = "free"
  /\ flash' = ErasedFlash(mem.blk_addr)
  /\ mem' = NothingKnown
  /\ pc' = "scan"
  /\ UNCHANGED <<bad, job, next, scan, ret, cuts, fails>>

---------------------------------------------------------------------------
(* meson_rsv_save and meson_rsv_write *)

meson_rsv_save(v) ==
  /\ pc = "idle"
  /\ mem.timestamp + fails < MaxTimestamp /\ mem.page_addr <= PagesPerBlk   \* bounds
  /\ job' = v
  /\ mem' = IF mem.abnormal THEN [mem EXCEPT !.page_addr = PagesPerBlk] ELSE mem
  /\ pc' = "search"
  /\ UNCHANGED <<flash, bad, next, scan, ret, cuts, fails>>

Return(result) == pc' = "idle" /\ job' = NoJob /\ ret' = result

\* Bug: the timestamp of the new block is that of the old one.
Bug_SameTimestamp(m) == [m EXCEPT !.blk_addr = Head(m.nfree), !.page_addr = 0, !.nfree = Tail(@)]

\* Bug: the block stays on the free list.
Bug_KeepHead(m) == [m EXCEPT !.blk_addr = Head(m.nfree), !.page_addr = 0, !.timestamp = @ + 1]

\* The first of the free list becomes the valid block.
TakeHead(m) == [m EXCEPT !.blk_addr = Head(m.nfree), !.page_addr = 0,
                         !.timestamp = @ + 1, !.nfree = Tail(@)]

\* Bug: the block that is left is not put on the free list.
Bug_MoveToNextBlock(m) ==
  /\ mem' = IF m.nfree = <<>> THEN m ELSE TakeHead(m)
  /\ pc' = IF m.nfree = <<>> THEN "abort" ELSE "prepare"
  /\ UNCHANGED <<job, ret>>

\* The valid block goes to the end of the list.  nfree is read through when it
\* is empty ("abort"), and -ENOMEM leaves page_addr advanced.
MoveToNextBlock(m) ==
  \/ /\ ~NodeLeft(m.nfree)
     /\ mem' = m
     /\ Return("fail")
  \/ /\ NodeLeft(m.nfree)
     /\ mem' = IF m.nfree = <<>> THEN m
               ELSE TakeHead([m EXCEPT !.nfree = Append(@, m.blk_addr)])
     /\ pc' = IF m.nfree = <<>> THEN "abort" ELSE "prepare"
     /\ UNCHANGED <<job, ret>>

\* RE_SEARCH with a valid block: the next pages of it, if there is room.
search_same ==
  /\ pc = "search" /\ mem.valid
  /\ mem.page_addr + 2 * PageNum <= PagesPerBlk
  /\ mem' = [mem EXCEPT !.page_addr = @ + PageNum]
  /\ pc' = "write" /\ next' = 0
  /\ UNCHANGED <<flash, bad, job, scan, ret, cuts, fails>>

\* RE_SEARCH with a full block, or with one that is left for its state.
search_next ==
  /\ pc = "search" /\ mem.valid
  /\ mem.page_addr + 2 * PageNum > PagesPerBlk
  /\ LET m == [mem EXCEPT !.page_addr = @ + PageNum]
     IN IF mem.page_addr = PagesPerBlk
        THEN mem' = m /\ pc' = "wipe" /\ UNCHANGED <<job, ret>>
        ELSE MoveToNextBlock(m)
  /\ UNCHANGED <<flash, bad, next, scan, cuts, fails>>

\* "erasing bad info block": the valid block is erased before the next is written.
wipe ==
  /\ pc = "wipe"
  /\ flash' = ErasedFlash(mem.blk_addr)
  /\ MoveToNextBlock(mem)
  /\ UNCHANGED <<bad, next, scan, cuts, fails>>

\* RE_SEARCH without a valid block.  With an empty list the code goes on to write
\* wherever page_addr points ("abort").
search_first ==
  /\ pc = "search" /\ ~mem.valid
  /\ mem' = IF mem.nfree = <<>> THEN mem ELSE TakeHead(mem)
  /\ pc' = IF mem.nfree = <<>> THEN "abort" ELSE "prepare"
  /\ UNCHANGED <<flash, bad, job, next, scan, ret, cuts, fails>>

\* A new block is skipped when it is marked bad, and erased.
prepare ==
  /\ pc = "prepare"
  /\ \/ /\ mem.blk_addr \in bad
        /\ mem' = [mem EXCEPT !.page_addr = PagesPerBlk - PageNum]
        /\ pc' = "search"
        /\ UNCHANGED <<flash, bad, next>>
     \/ /\ mem.blk_addr \notin bad
        /\ flash' = ErasedFlash(mem.blk_addr)
        /\ pc' = "write" /\ next' = 0
        /\ UNCHANGED <<bad, mem>>
     \/ /\ mem.blk_addr \notin bad
        /\ Cardinality(bad) < MaxBad
        /\ bad' = bad \cup {mem.blk_addr}
        /\ mem' = [mem EXCEPT !.page_addr = PagesPerBlk]
        /\ pc' = "search"
        /\ UNCHANGED <<flash, next>>
  /\ UNCHANGED <<job, scan, ret, cuts, fails>>

\* The page that meson_rsv_write programs next, and what it programs.
Target == mem.page_addr + next
Program(page) == flash' = [flash EXCEPT ![mem.blk_addr][Target] = page]
Content == [st |-> "data", val |-> job, part |-> next, ts |-> mem.timestamp % TimestampMod]

write ==
  /\ pc = "write"
  /\ Program(Content)
  /\ IF next = PageNum - 1
     THEN /\ mem' = [mem EXCEPT !.valid = TRUE, !.abnormal = FALSE]
          /\ next' = 0
          /\ Return("ok")
     ELSE /\ next' = next + 1
          /\ UNCHANGED <<mem, pc, job, ret>>
  /\ UNCHANGED <<bad, scan, cuts, fails>>

\* mtd_write_oob fails: the save returns, page_addr stays on the failed copy.
write_fails ==
  /\ pc = "write"
  /\ fails < MaxFails
  /\ fails' = fails + 1
  /\ Program(Torn)
  /\ next' = 0
  /\ Return("fail")
  /\ UNCHANGED <<bad, mem, scan, cuts>>

---------------------------------------------------------------------------
(* meson_rsv_read and meson_rsv_erase *)

\* When a page of the valid copy cannot be read, scan again, on top of what is known.
meson_rsv_read ==
  /\ pc = "idle"
  /\ LET fails_at(k) == /\ mem.page_addr + k \in Pages
                        /\ flash[mem.blk_addr][mem.page_addr + k].st = "torn"
     IN pc' = IF mem.valid /\ (\E k \in 0 .. PageNum - 1 : fails_at(k)) THEN "scan" ELSE pc
  /\ UNCHANGED <<flash, bad, mem, job, next, scan, ret, cuts, fails>>

\* meson_ext_rsv_info_erase: only a valid region; the valid block goes to the end
\* of the list that is then erased.  Bound: not with bad blocks (see the README).
meson_rsv_erase ==
  /\ pc = "idle" /\ mem.valid
  /\ bad = {}
  /\ LET m == [mem EXCEPT !.valid = FALSE, !.page_addr = -1, !.timestamp = 1]
     IN \/ /\ ~NodeLeft(m.nfree)
           /\ mem' = m /\ ret' = "fail"
           /\ UNCHANGED <<pc, job, next>>
        \/ /\ NodeLeft(m.nfree)
           /\ mem' = [m EXCEPT !.nfree = Append(@, m.blk_addr)]
           /\ pc' = IF m.nfree = <<>> THEN "abort" ELSE "erase"
           /\ job' = None /\ next' = 1
           /\ UNCHANGED ret
  /\ UNCHANGED <<flash, bad, scan, cuts, fails>>

erase_block ==
  /\ pc = "erase"
  /\ flash' = ErasedFlash(mem.nfree[next])
  /\ IF next = Len(mem.nfree)
     THEN next' = 0 /\ Return("ok")
     ELSE next' = next + 1 /\ UNCHANGED <<pc, job, ret>>
  /\ UNCHANGED <<bad, mem, scan, cuts, fails>>

---------------------------------------------------------------------------
(* The power *)

\* The block an erase in progress is working on.
Erasing == CASE pc \in {"wipe", "free", "prepare"} -> {mem.blk_addr} \ bad
             [] pc = "erase" -> {mem.nfree[next]} \ bad
             [] OTHER -> {}

\* The operation in progress is not begun, half done or done.
PowerCut ==
  /\ pc # "off" /\ cuts < MaxCuts
  /\ cuts' = cuts + 1
  /\ \/ UNCHANGED flash
     \/ \E b \in Erasing, result \in {EmptyBlock, RuinedBlock} : flash' = [flash EXCEPT ![b] = result]
     \/ pc = "write" /\ \E page \in {Torn, Content} : Program(page)
  /\ pc' = "off" /\ job' = NoJob /\ next' = 0
  /\ mem' = NothingKnown /\ scan' = NewScan /\ ret' = "none"
  /\ UNCHANGED <<bad, fails>>

\* meson_rsv_init and meson_rsv_check.
PowerUp ==
  /\ pc = "off"
  /\ pc' = "scan"
  /\ UNCHANGED <<flash, bad, mem, job, next, scan, ret, cuts, fails>>

\* An empty chip.
Init ==
  /\ flash = [b \in Blocks |-> EmptyBlock]
  /\ bad = {} /\ mem = NothingKnown /\ pc = "off" /\ job = NoJob /\ next = 0
  /\ scan = NewScan /\ ret = "none" /\ cuts = 0 /\ fails = 0

\* The driver goes on by itself.
Driver == \/ PowerUp \/ scan_block \/ select_copy \/ meson_rsv_free
          \/ search_same \/ search_next \/ search_first \/ wipe \/ prepare
          \/ write \/ write_fails \/ erase_block

Next == \/ Driver
        \/ \E v \in Values : meson_rsv_save(v)
        \/ meson_rsv_read \/ meson_rsv_erase
        \/ PowerCut

Spec == Init /\ [][Next]_vars

\* The driver is one thread that runs while there is power.
FairSpec == Spec /\ WF_vars(Driver)
=============================================================================
