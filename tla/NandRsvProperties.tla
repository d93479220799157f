-------------------------- MODULE NandRsvProperties --------------------------
(***************************************************************************)
(* What the reserved area is for: the last content saved is found again.   *)
(* The reference for "the last content" is a definition on the flash alone, *)
(* without the lists and loops of the scan.                                *)
(***************************************************************************)
EXTENDS NandRsv

Types ==
  /\ flash \in [Blocks -> [Pages -> Page]]
  /\ bad \subseteq Blocks
  /\ mem \in Mem /\ Len(mem.nfree) <= NodeCount
  /\ pc \in {"off", "scan", "select", "free", "idle", "search", "wipe", "prepare", "write", "erase", "abort"}
  /\ job \in Values \cup {None, NoJob}
  /\ next \in Nat
  /\ scan \in [good : SUBSET Pages, incomplete : BOOLEAN, start : Blocks]
  /\ ret \in {"none", "ok", "fail"}
  /\ cuts \in 0 .. MaxCuts /\ fails \in 0 .. MaxFails

Addressable ==
  /\ pc \in {"wipe", "free", "prepare", "write"} => mem.blk_addr \in Blocks
  /\ pc = "write" => Target \in Pages
  /\ pc = "erase" => next \in DOMAIN mem.nfree

\* Every variable keeps to its type, and every flash operation of the driver finds
\* what it addresses: a block of the region to erase or program, a page of that block
\* (page_addr runs past the end of it in meson_rsv_save, but not when a page is
\* programmed), a node of the free list while that is erased.
TypeOK == Types /\ Addressable

\* A copy whose pages are all there and belong together.
Complete(b, p) ==
  /\ flash[b][p].st = "data"
  /\ \A k \in 0 .. PageNum - 1 : flash[b][p + k] = [flash[b][p] EXCEPT !.part = k]

Whole(b) == {p \in Starts : Complete(b, p)}
CopyAt(b, p) == [blk |-> b, page |-> p, ts |-> flash[b][p].ts, val |-> flash[b][p].val]
Places == {c \in Blocks \X Starts : Complete(c[1], c[2])}
Copies == {CopyAt(c[1], c[2]) : c \in Places}

\* The newest of some copies: the largest timestamp, then the first block and in it
\* the last copy.
Newer(c, d) == \/ c.ts > d.ts
               \/ c.ts = d.ts /\ c.blk < d.blk
               \/ c.blk = d.blk /\ c.page >= d.page
Newest(copies) == CHOOSE c \in copies : \A d \in copies : Newer(c, d)
Stored(copies) == IF copies = {} THEN None ELSE Newest(copies).val

\* Traces of an interrupted save in the valid block make the next save erase that block
\* first; until it is done nothing is safe.  Nothing is promised after a page has failed
\* to program.
Damaged == \/ mem.valid /\ mem.abnormal /\ job # NoJob
           \/ fails > 0

\* What is stored as a history variable, which follows the others step by step.
VARIABLE stored

HInit == Init /\ stored = Stored(Copies)
HNext == Next /\ \E copies \in {Copies'} : stored' = Stored(copies)
HSpec == HInit /\ [][HNext]_<<vars, stored>>
HFairSpec == HSpec /\ WF_vars(Driver)

\* A region implements the abstract register, whatever is cut, fails or goes bad:
\* what a power cut would leave behind changes only to what is being saved, once per
\* call and before a successful return.
Reg == INSTANCE Register WITH content <- stored, damaged <- Damaged
ActsAsRegister == Reg!Spec

\* Between the calls the driver reads what is stored: after power-up, saves and erases.
InUse == IF mem.valid THEN Complete(mem.blk_addr, mem.page_addr)
                           /\ flash[mem.blk_addr][mem.page_addr].val = stored
         ELSE stored = None
ReadsWhatIsStored == pc = "idle" /\ ~Damaged => InUse

\* "step 2, find the newest in the block": right after the scan of power-up the driver
\* is on the newest complete copy of its block.
FindsNewestInBlock ==
  pc = "idle" /\ ret = "none" /\ mem.valid /\ Whole(mem.blk_addr) # {}
     => mem.page_addr = Highest(Whole(mem.blk_addr))

\* Flash pages are programmed once: a page that holds something is erased with its
\* block before it is written again.
ProgramsErasedPages ==
  [][\A b \in Blocks, p \in Pages :
        flash[b][p].st = "data" /\ flash'[b][p] # flash[b][p] => flash'[b] \in {EmptyBlock, RuinedBlock}]_flash

\* The free list never holds the valid block, and no block twice: a save cannot be
\* handed the block that holds the only copy.
FreeListSound ==
  mem.valid /\ fails = 0 => /\ \A i \in DOMAIN mem.nfree : mem.nfree[i] # mem.blk_addr
                            /\ \A i, j \in DOMAIN mem.nfree : i # j => mem.nfree[i] # mem.nfree[j]

\* The free list is never read through when it is empty.
NeverOutOfBlocks == pc # "abort"

\* Every call and every power-up ends.
CallsEnd == pc # "idle" ~> pc = "idle" \/ pc = "off"
=============================================================================
