---------------------------- MODULE NandRsvProofs ----------------------------
(***************************************************************************)
(* Proofs about NandRsv for every number of blocks, pages and faults: type *)
(* correctness, that the free list is sound and not read through, that no  *)
(* page is programmed twice, that the driver reads what is stored, and     *)
(* that a region implements Register.                                      *)
(***************************************************************************)
EXTENDS NandRsvProperties, FiniteSetTheorems, SequenceTheorems, TLAPS

-----------------------------------------------------------------------------
(* Pages and the copies they make up.                                      *)

LEMMA Sizes ==
    /\ PageNum \in Nat \ {0} /\ PagesPerBlk \in Nat \ {0} /\ NBlocks \in Nat \ {0}
    /\ NodeCount \in Nat /\ TimestampMod \in Nat \ {0} /\ MaxFails \in Nat /\ MaxCuts \in Nat
    /\ MaxBad \in Nat /\ Pages \subseteq Nat /\ Starts \subseteq Pages /\ Headers \subseteq Starts
    /\ Blocks \subseteq Nat /\ NoBlock \notin Blocks
  BY RsvAssumption DEF Pages, Starts, Headers, Blocks, NoBlock

LEMMA PageRange == \A p \in Pages : /\ p \in Nat /\ p \in Int /\ p < PagesPerBlk
                                       /\ p \in -1 .. PagesPerBlk + PageNum
  BY Sizes DEF Pages

\* The multiples of the length of a copy.
Mult(x) == x % PageNum = 0

LEMMA Multiples ==
    ASSUME NEW x \in Int
    PROVE  Mult(x) <=> \E k \in Int : x = PageNum * k
  <1>1. x = PageNum * (x \div PageNum) + (x % PageNum) /\ x \div PageNum \in Int
    BY Sizes
  <1>2. ASSUME NEW k \in Int, x = PageNum * k PROVE x % PageNum = 0
    BY <1>2, Sizes
  <1>3. ASSUME x % PageNum = 0 PROVE x = PageNum * (x \div PageNum)
    BY <1>1, <1>3, Sizes
  <1> QED BY <1>1, <1>2, <1>3 DEF Mult

LEMMA MultSteps ==
    /\ Mult(0) /\ Mult(PagesPerBlk)
    /\ \A x \in Int : Mult(x) => Mult(x + PageNum) /\ Mult(x - PageNum)
    /\ \A x, y \in Int : Mult(x) /\ Mult(y) /\ x < y => x + PageNum <= y
  <1>1. Mult(0) /\ Mult(PagesPerBlk)
    <2>1. 0 = PageNum * 0
      BY Sizes
    <2> QED BY <2>1, Multiples, Sizes, RsvAssumption DEF Mult
  <1>2. ASSUME NEW x \in Int, Mult(x) PROVE Mult(x + PageNum) /\ Mult(x - PageNum)
    <2>1. PICK k \in Int : x = PageNum * k
      BY <1>2, Multiples
    <2>2. x + PageNum = PageNum * (k + 1) /\ x - PageNum = PageNum * (k - 1)
      BY <2>1, Sizes
    <2>3. x + PageNum \in Int /\ x - PageNum \in Int /\ k + 1 \in Int /\ k - 1 \in Int
      BY Sizes
    <2> QED BY <2>2, <2>3, Multiples
  <1>3. ASSUME NEW x \in Int, NEW y \in Int, Mult(x), Mult(y), x < y
        PROVE  x + PageNum <= y
    <2>1. PICK k \in Int : x = PageNum * k
      BY <1>3, Multiples
    <2>2. PICK j \in Int : y = PageNum * j
      BY <1>3, Multiples
    <2>3. k < j
      <3>1. ASSUME j <= k PROVE FALSE
        <4>1. PageNum * j <= PageNum * k
          BY <3>1, Sizes
        <4> QED BY <4>1, <2>1, <2>2, <1>3
      <3> QED BY <3>1
    <2>4. PageNum * (k + 1) <= PageNum * j
      BY <2>3, Sizes
    <2> QED BY <2>1, <2>2, <2>4, Sizes
  <1> QED BY <1>1, <1>2, <1>3

LEMMA MultBack ==
    ASSUME NEW x \in Int, Mult(x)
    PROVE  Mult(x - PageNum)
  <1>1. PICK k \in Int : x = PageNum * k
    BY Multiples
  <1>2. x - PageNum = PageNum * (k - 1) /\ x - PageNum \in Int /\ k - 1 \in Int
    BY <1>1, Sizes
  <1> QED BY <1>2, Multiples

\* The first and the last page of a set, and what the code takes for them.
LEMMA Least ==
    ASSUME NEW S, S \subseteq Nat, S # {}
    PROVE  \E p \in S : \A q \in S : p <= q
  <1>1. PICK p \in S : \A q \in S : ~(<<q, p>> \in OpToRel(<, Nat))
    BY NatLessThanWellFounded, WFMin
  <1>2. \A q \in S : ~(q < p)
    BY <1>1 DEF OpToRel
  <1> QED BY <1>2

LEMMA Greatest ==
    ASSUME NEW S, S \subseteq Pages, S # {}
    PROVE  Highest(S) \in S /\ \A q \in S : q <= Highest(S)
  <1> DEFINE T == {PagesPerBlk - q : q \in S}
  <1>1. T \subseteq Nat /\ T # {}
    <2>1. \A q \in S : PagesPerBlk - q \in Nat
      BY Sizes DEF Pages
    <2> QED BY <2>1
  <1>2. PICK t \in T : \A u \in T : t <= u
    BY <1>1, Least
  <1>3. PICK p \in S : t = PagesPerBlk - p
    BY <1>2
  <1>4. \A q \in S : q <= p
    <2> TAKE q \in S
    <2>1. PagesPerBlk - p <= PagesPerBlk - q
      BY <1>2, <1>3
    <2> QED BY <2>1, Sizes DEF Pages
  <1> HIDE DEF T
  <1>5. \E x \in S : \A q \in S : q <= x
    BY <1>4
  <1> QED BY <1>5 DEF Highest

LEMMA HeaderPage ==
    ASSUME NEW b \in Blocks, Readable(b) # {}
    PROVE  \E p \in Readable(b) : /\ Header(b) = flash[b][p]
                                  /\ \A q \in Readable(b) : p <= q
  <1>1. Readable(b) \subseteq Nat
    BY Sizes DEF Readable
  <1>2. \E p \in Readable(b) : \A q \in Readable(b) : p <= q
    BY <1>1, Least
  <1> QED BY <1>2 DEF Header

-----------------------------------------------------------------------------
(* The free list, and the records it is part of.                           *)

Unlike(s) == \A i, j \in DOMAIN s : i # j => s[i] # s[j]

LEMMA AppendList ==
    ASSUME NEW s \in Seq(Blocks), NEW b \in Blocks
    PROVE  /\ Append(s, b) \in Seq(Blocks) /\ Len(Append(s, b)) = Len(s) + 1
           /\ Append(s, b) # <<>>
           /\ Range(Append(s, b)) = Range(s) \cup {b}
           /\ Unlike(s) /\ b \notin Range(s) => Unlike(Append(s, b))
  <1> DEFINE t == Append(s, b)
  <1>1. /\ t \in Seq(Blocks) /\ t # <<>> /\ Len(t) = Len(s) + 1
        /\ \A i \in 1 .. Len(s) : t[i] = s[i]
        /\ t[Len(s) + 1] = b
    BY AppendProperties
  <1>2. /\ Len(s) \in Nat /\ DOMAIN s = 1 .. Len(s) /\ DOMAIN t = 1 .. Len(s) + 1
    BY <1>1, LenProperties
  <1> HIDE DEF t
  <1>3. Range(t) = Range(s) \cup {b}
    BY <1>1, <1>2 DEF Range
  <1>4. ASSUME Unlike(s), b \notin Range(s) PROVE Unlike(t)
    BY <1>1, <1>2, <1>4 DEF Range, Unlike
  <1> QED BY <1>1, <1>3, <1>4 DEF t

LEMMA HeadList ==
    ASSUME NEW s \in Seq(Blocks), s # <<>>
    PROVE  /\ Head(s) \in Blocks /\ Tail(s) \in Seq(Blocks) /\ Len(Tail(s)) = Len(s) - 1
           /\ Len(s) \in Nat \ {0}
           /\ Range(s) = Range(Tail(s)) \cup {Head(s)}
           /\ Unlike(s) => Unlike(Tail(s)) /\ Head(s) \notin Range(Tail(s))
  <1> DEFINE t == Tail(s)
             h == Head(s)
  <1>1. /\ h \in Blocks /\ t \in Seq(Blocks) /\ Len(t) = Len(s) - 1
        /\ \A i \in 1 .. Len(t) : t[i] = s[i + 1]
        /\ h = s[1]
    BY HeadTailProperties
  <1>2. /\ Len(s) \in Nat \ {0} /\ DOMAIN s = 1 .. Len(s) /\ DOMAIN t = 1 .. Len(s) - 1
    BY <1>1, LenProperties, EmptySeq
  <1> HIDE DEF t, h
  <1>3. Range(s) = Range(t) \cup {h}
    <2>1. ASSUME NEW i \in 1 .. Len(s) PROVE s[i] = h \/ s[i] \in Range(t)
      <3>1. CASE i = 1
        BY <3>1, <1>1
      <3>2. CASE i # 1
        <4>1. i - 1 \in DOMAIN t /\ t[i - 1] = s[i]
          BY <3>2, <1>1, <1>2
        <4> QED BY <4>1 DEF Range
      <3> QED BY <3>1, <3>2
    <2>2. ASSUME NEW i \in DOMAIN t PROVE t[i] \in Range(s)
      BY <2>2, <1>1, <1>2 DEF Range
    <2>3. h \in Range(s)
      BY <1>1, <1>2 DEF Range
    <2> QED BY <2>1, <2>2, <2>3, <1>2 DEF Range
  <1>4. ASSUME Unlike(s) PROVE Unlike(t) /\ h \notin Range(t)
    <2>1. \A i \in DOMAIN t : i + 1 \in DOMAIN s /\ t[i] = s[i + 1] /\ i + 1 # 1
      BY <1>1, <1>2
    <2>2. 1 \in DOMAIN s
      BY <1>2
    <2>3. \A i \in DOMAIN t : t[i] # h
      BY <2>1, <2>2, <1>1, <1>4 DEF Unlike
    <2>4. \A i, j \in DOMAIN t : i # j => i + 1 # j + 1
      BY <1>2
    <2>5. Unlike(t)
      BY <2>1, <2>4, <1>4 DEF Unlike
    <2> QED BY <2>3, <2>5 DEF Range
  <1> QED BY <1>1, <1>2, <1>3, <1>4 DEF t, h

LEMMA MemFields ==
    ASSUME NEW m \in Mem
    PROVE  /\ m.valid \in BOOLEAN /\ m.abnormal \in BOOLEAN
           /\ m.blk_addr \in Blocks \cup {NoBlock} /\ m.timestamp \in Nat
           /\ m.page_addr \in -1 .. PagesPerBlk + PageNum /\ m.page_addr \in Int
           /\ m.nfree \in Seq(Blocks) /\ Len(m.nfree) \in Nat
           /\ DOMAIN m.nfree = 1 .. Len(m.nfree)
           /\ Range(m.nfree) \subseteq Blocks
  <1>1. m.nfree \in Seq(Blocks)
    BY DEF Mem
  <1>2. Len(m.nfree) \in Nat /\ DOMAIN m.nfree = 1 .. Len(m.nfree)
        /\ m.nfree \in [1 .. Len(m.nfree) -> Blocks]
    BY <1>1, LenProperties
  <1>3. Range(m.nfree) \subseteq Blocks
    BY <1>2 DEF Range
  <1> QED BY <1>1, <1>2, <1>3, Sizes DEF Mem

LEMMA ListedFields ==
    ASSUME NEW m \in Mem, NEW b \in Blocks
    PROVE  /\ Listed(m, b) \in Mem
           /\ Listed(m, b).valid = m.valid /\ Listed(m, b).abnormal = m.abnormal
           /\ Listed(m, b).blk_addr = m.blk_addr /\ Listed(m, b).page_addr = m.page_addr
           /\ Listed(m, b).timestamp = m.timestamp
           /\ Listed(m, b).nfree = Append(m.nfree, b)
  <1>1. m.nfree \in Seq(Blocks) /\ Append(m.nfree, b) \in Seq(Blocks)
    BY AppendList DEF Mem
  <1> QED BY <1>1 DEF Listed, Mem

LEMMA HeadFields ==
    ASSUME NEW m \in Mem, m.nfree # <<>>
    PROVE  /\ TakeHead(m) \in Mem
           /\ TakeHead(m).valid = m.valid /\ TakeHead(m).abnormal = m.abnormal
           /\ TakeHead(m).blk_addr = Head(m.nfree) /\ TakeHead(m).page_addr = 0
           /\ TakeHead(m).timestamp = m.timestamp + 1
           /\ TakeHead(m).nfree = Tail(m.nfree)
  <1>1. m.nfree \in Seq(Blocks) /\ Tail(m.nfree) \in Seq(Blocks) /\ Head(m.nfree) \in Blocks
    BY HeadList DEF Mem
  <1>2. 0 \in -1 .. PagesPerBlk + PageNum /\ m.timestamp + 1 \in Nat
    BY Sizes DEF Mem
  <1> QED BY <1>1, <1>2 DEF TakeHead, Mem

\* The valid block goes to the end of the list and the first of it becomes the valid one.
LEMMA RotateFields ==
    ASSUME NEW m \in Mem, m.blk_addr \in Blocks, m.nfree # <<>>
    PROVE  LET new == TakeHead([m EXCEPT !.nfree = Append(@, m.blk_addr)])
           IN  /\ new \in Mem
               /\ new.valid = m.valid /\ new.abnormal = m.abnormal
               /\ new.blk_addr = Head(m.nfree) /\ new.page_addr = 0
               /\ new.timestamp = m.timestamp + 1
               /\ new.nfree = Append(Tail(m.nfree), m.blk_addr)
               /\ Len(new.nfree) = Len(m.nfree)
  <1> DEFINE l == Listed(m, m.blk_addr)
             new == TakeHead(l)
  <1>1. [m EXCEPT !.nfree = Append(@, m.blk_addr)] = l
    BY DEF Listed
  <1>2. /\ l \in Mem /\ l.valid = m.valid /\ l.abnormal = m.abnormal
        /\ l.timestamp = m.timestamp /\ l.nfree = Append(m.nfree, m.blk_addr)
    BY ListedFields
  <1>3. m.nfree \in Seq(Blocks) /\ l.nfree # <<>>
    BY <1>2, AppendList, MemFields
  <1>4. Head(l.nfree) = Head(m.nfree) /\ Tail(l.nfree) = Append(Tail(m.nfree), m.blk_addr)
    BY <1>2, <1>3, HeadTailAppend
  <1>5. Len(Append(Tail(m.nfree), m.blk_addr)) = Len(m.nfree)
    BY <1>3, HeadList, AppendList
  <1> HIDE DEF l
  <1>6. /\ new \in Mem /\ new.valid = l.valid /\ new.abnormal = l.abnormal
        /\ new.blk_addr = Head(l.nfree) /\ new.page_addr = 0
        /\ new.timestamp = l.timestamp + 1 /\ new.nfree = Tail(l.nfree)
    BY <1>2, <1>3, HeadFields
  <1> HIDE DEF new
  <1> QED BY <1>1, <1>2, <1>4, <1>5, <1>6 DEF new

LEMMA TakenFields ==
    ASSUME NEW m \in Mem, NEW b \in Blocks, Header(b).ts \in Nat
    PROVE  /\ Taken(m, b) \in Mem
           /\ Taken(m, b).valid /\ Taken(m, b).abnormal = m.abnormal
           /\ Taken(m, b).blk_addr = b /\ Taken(m, b).page_addr = 0
           /\ Taken(m, b).timestamp = Header(b).ts /\ Taken(m, b).nfree = m.nfree
  <1>1. 0 \in -1 .. PagesPerBlk + PageNum
    BY Sizes
  <1> QED BY <1>1 DEF Taken, Mem

-----------------------------------------------------------------------------
(* Types, and what the driver knows at each point.                         *)

Working == {"search", "wipe", "prepare", "write"}

PcOK ==
    /\ mem.valid \/ pc \in {"prepare", "write"}
         => mem.blk_addr \in Blocks /\ mem.page_addr >= 0
    /\ mem.page_addr >= 0 => Mult(mem.page_addr)
    /\ pc \in {"wipe", "free"} => mem.valid
    /\ pc = "search" => mem.page_addr <= PagesPerBlk
    /\ pc = "wipe" => mem.page_addr = PagesPerBlk + PageNum
    /\ pc = "prepare" => mem.page_addr = 0
    /\ pc = "write" => mem.page_addr + PageNum <= PagesPerBlk /\ next < PageNum
    /\ pc \in Working => job \in Values
    /\ pc = "erase" => next \in 1 .. Len(mem.nfree) /\ ~mem.valid
    /\ pc = "off" => mem = NothingKnown
    /\ pc \notin {"scan", "select", "free"} => scan = NewScan
    /\ pc \in {"select", "free"} => scan.start = 0
    /\ pc \in {"scan", "off", "select"} /\ ~mem.valid => mem.blk_addr = NoBlock

Sound == Types /\ PcOK

LEMMA MemOK == Types => /\ mem \in Mem /\ mem.page_addr \in Int /\ mem.timestamp \in Nat
                         /\ mem.nfree \in Seq(Blocks) /\ Len(mem.nfree) \in Nat
                         /\ mem.valid \in BOOLEAN /\ mem.abnormal \in BOOLEAN
                         /\ mem.blk_addr \in Blocks \cup {NoBlock}
                         /\ mem.page_addr \in -1 .. PagesPerBlk + PageNum
  BY MemFields DEF Types

LEMMA NothingFields ==
    /\ NothingKnown \in Mem /\ ~NothingKnown.valid /\ ~NothingKnown.abnormal
    /\ NothingKnown.blk_addr = NoBlock /\ NothingKnown.page_addr = 0
    /\ NothingKnown.timestamp = 0 /\ NothingKnown.nfree = <<>> /\ Len(NothingKnown.nfree) = 0
    /\ Range(NothingKnown.nfree) = {}
  <1>1. 0 \in -1 .. PagesPerBlk + PageNum
    BY Sizes
  <1>2. <<>> \in Seq(Blocks) /\ Len(<<>>) = 0 /\ Range(<<>>) = {}
    BY EmptySeq DEF Range
  <1> QED BY <1>1, <1>2 DEF NothingKnown, Mem

LEMMA BlockTypes ==
    /\ EmptyBlock \in [Pages -> Page] /\ RuinedBlock \in [Pages -> Page] /\ Torn \in Page
    /\ Torn.st = "torn" /\ Erased.st = "erased"
    /\ \A p \in Pages : EmptyBlock[p] = Erased /\ RuinedBlock[p] = Torn
  <1>1. 0 \in 0 .. PageNum - 1 /\ 0 \in 0 .. TimestampMod - 1
    BY Sizes
  <1>2. Erased \in Page /\ Torn \in Page /\ Torn.st = "torn" /\ Erased.st = "erased"
    BY <1>1 DEF Erased, Torn, Page
  <1> QED BY <1>2 DEF EmptyBlock, RuinedBlock

LEMMA ErasedType ==
    ASSUME Types, NEW b
    PROVE  /\ ErasedFlash(b) \in [Blocks -> [Pages -> Page]]
           /\ \A c \in Blocks : ErasedFlash(b)[c] = IF c = b /\ b \notin bad THEN EmptyBlock
                                                    ELSE flash[c]
  BY BlockTypes DEF ErasedFlash, Types

LEMMA ContentPage ==
    ASSUME Types, next < PageNum, job \in Values
    PROVE  /\ Content \in Page /\ Content.st = "data" /\ Content.val = job
           /\ Content.part = next /\ Content.ts = mem.timestamp % TimestampMod
           /\ Content.ts \in Nat /\ Content.ts <= mem.timestamp
  <1>1. /\ mem.timestamp % TimestampMod \in 0 .. TimestampMod - 1
        /\ mem.timestamp % TimestampMod <= mem.timestamp
    BY MemOK, Sizes
  <1>2. next \in 0 .. PageNum - 1
    BY Sizes DEF Types
  <1> QED BY <1>1, <1>2 DEF Content, Page

\* One page changes.
LEMMA Programmed ==
    ASSUME Types, NEW page \in Page, Program(page), mem.blk_addr \in Blocks
    PROVE  /\ flash' \in [Blocks -> [Pages -> Page]]
           /\ \A b \in Blocks, p \in Pages :
                flash'[b][p] = IF b = mem.blk_addr /\ p = Target THEN page ELSE flash[b][p]
  <1> DEFINE old == flash[mem.blk_addr]
             t == Target
  <1>1. flash' = [flash EXCEPT ![mem.blk_addr] = [old EXCEPT ![t] = page]]
    BY DEF Program
  <1>2. old \in [Pages -> Page] /\ flash \in [Blocks -> [Pages -> Page]]
    BY DEF Types
  <1> HIDE DEF t
  <1>3. /\ [old EXCEPT ![t] = page] \in [Pages -> Page]
        /\ \A p \in Pages : [old EXCEPT ![t] = page][p] = IF p = t THEN page ELSE old[p]
    BY <1>2
  <1> DEFINE new == [old EXCEPT ![t] = page]
  <1>4. new \in [Pages -> Page] /\ \A p \in Pages : new[p] = IF p = t THEN page ELSE old[p]
    BY <1>3
  <1> HIDE DEF new
  <1>5. flash' = [flash EXCEPT ![mem.blk_addr] = new]
    BY <1>1 DEF new
  <1>6. \A b \in Blocks : flash'[b] = IF b = mem.blk_addr THEN new ELSE flash[b]
    BY <1>2, <1>5
  <1>7. flash' \in [Blocks -> [Pages -> Page]]
    BY <1>2, <1>4, <1>5
  <1> QED BY <1>4, <1>6, <1>7 DEF t

LEMMA VisitFields ==
    ASSUME Types, NEW m \in Mem, NEW b \in Blocks, Readable(b) # {}
    PROVE  LET new == Visit(m, b)
           IN  /\ Header(b) \in Page /\ Header(b).ts \in Nat
               /\ new \in Mem /\ new.abnormal = m.abnormal
               /\ Header(b).st # "data" =>
                    /\ new.valid = m.valid /\ new.blk_addr = m.blk_addr
                    /\ new.page_addr = m.page_addr /\ new.timestamp = m.timestamp
                    /\ new.nfree = Append(m.nfree, b)
               /\ Header(b).st = "data" /\ m.blk_addr = NoBlock =>
                    /\ new.valid /\ new.blk_addr = b /\ new.page_addr = 0
                    /\ new.timestamp = Header(b).ts /\ new.nfree = m.nfree
               /\ Header(b).st = "data" /\ m.blk_addr # NoBlock /\ Header(b).ts > m.timestamp =>
                    /\ new.valid /\ new.blk_addr = b /\ new.page_addr = 0
                    /\ new.timestamp = Header(b).ts /\ new.nfree = Append(m.nfree, m.blk_addr)
               /\ Header(b).st = "data" /\ m.blk_addr # NoBlock /\ ~(Header(b).ts > m.timestamp) =>
                    /\ new.valid /\ new.blk_addr = m.blk_addr
                    /\ new.page_addr = m.page_addr /\ new.timestamp = m.timestamp
                    /\ new.nfree = Append(m.nfree, b)
  <1> DEFINE h == Header(b)
             new == Visit(m, b)
  <1>1. h \in Page /\ h.ts \in Nat
    <2>1. PICK p \in Readable(b) : h = flash[b][p]
      BY HeaderPage
    <2>2. p \in Pages
      BY Sizes DEF Readable
    <2>3. h \in Page
      BY <2>1, <2>2 DEF Types
    <2> QED BY <2>3, Sizes DEF Page
  <1>2. CASE h.st # "data"
    <2>1. new = Listed(m, b)
      BY <1>2 DEF Visit
    <2> QED BY <1>1, <1>2, <2>1, ListedFields
  <1>3. CASE h.st = "data" /\ m.blk_addr = NoBlock
    <2>1. new = Taken(m, b)
      BY <1>3 DEF Visit
    <2> QED BY <1>1, <1>3, <2>1, TakenFields
  <1>4. CASE h.st = "data" /\ m.blk_addr # NoBlock /\ h.ts > m.timestamp
    <2> DEFINE l == Listed(m, m.blk_addr)
    <2>1. new = Taken(l, b)
      BY <1>4 DEF Visit
    <2>2. m.blk_addr \in Blocks
      BY <1>4, MemFields
    <2>3. l \in Mem /\ l.abnormal = m.abnormal /\ l.nfree = Append(m.nfree, m.blk_addr)
      BY <2>2, ListedFields
    <2> HIDE DEF l
    <2> QED BY <1>1, <1>4, <2>1, <2>3, TakenFields
  <1>5. CASE h.st = "data" /\ m.blk_addr # NoBlock /\ ~(h.ts > m.timestamp)
    <2> DEFINE l == Listed(m, b)
    <2>1. new = [l EXCEPT !.valid = TRUE]
      BY <1>5 DEF Visit
    <2>2. /\ l \in Mem /\ l.abnormal = m.abnormal /\ l.blk_addr = m.blk_addr
          /\ l.page_addr = m.page_addr /\ l.timestamp = m.timestamp
          /\ l.nfree = Append(m.nfree, b)
      BY ListedFields
    <2> HIDE DEF l
    <2>3. /\ new \in Mem /\ new.valid /\ new.abnormal = l.abnormal /\ new.nfree = l.nfree
          /\ new.blk_addr = l.blk_addr /\ new.page_addr = l.page_addr
          /\ new.timestamp = l.timestamp
      BY <2>1, <2>2 DEF Mem
    <2> HIDE DEF new
    <2> QED BY <1>1, <1>5, <2>2, <2>3 DEF new
  <1> QED BY <1>2, <1>3, <1>4, <1>5

LEMMA InitSound == Init => Sound
  <1> SUFFICES ASSUME Init PROVE Sound
    OBVIOUS
  <1>1. Erased \in Page /\ EmptyBlock \in [Pages -> Page]
    <2>1. 0 \in 0 .. PageNum - 1 /\ 0 \in 0 .. TimestampMod - 1
      BY Sizes
    <2> QED BY <2>1, BlockTypes DEF Erased, Page
  <1>2. 0 \in Blocks /\ Mult(0)
    BY Sizes, MultSteps DEF Blocks
  <1>3. Types
    BY <1>1, <1>2, NothingFields, Sizes DEF Init, Types, NewScan
  <1> QED BY <1>2, <1>3, NothingFields DEF Init, Sound, PcOK, Working

LEMMA SoundScan ==
    ASSUME Sound, scan_block
    PROVE  Sound'
  <1> DEFINE b == scan.start
             m == [mem EXCEPT !.abnormal = FALSE]
             new == Visit(m, b)
  <1>1. /\ Types /\ pc = "scan" /\ b \in Blocks /\ scan.good \in SUBSET Pages
        /\ scan \in [good : SUBSET Pages, incomplete : BOOLEAN, start : Blocks]
        /\ b \in 0 .. NBlocks - 1 /\ b \in Nat
    BY Sizes DEF Sound, scan_block, Types, Blocks
  <1>2. /\ m \in Mem /\ m.valid = mem.valid /\ m.blk_addr = mem.blk_addr
        /\ m.page_addr = mem.page_addr /\ m.timestamp = mem.timestamp /\ m.nfree = mem.nfree
    BY MemOK, <1>1 DEF Mem
  <1> DEFINE more == [scan EXCEPT !.start = IF b + 1 < NBlocks THEN b + 1 ELSE 0]
             rest == IF b + 1 < NBlocks THEN "scan" ELSE "select"
  <1>3. /\ more \in [good : SUBSET Pages, incomplete : BOOLEAN, start : Blocks]
        /\ rest = "select" => more.start = 0
        /\ rest \in {"scan", "select"}
    BY <1>1, Sizes DEF Blocks
  <1>4. NewScan \in [good : SUBSET Pages, incomplete : BOOLEAN, start : Blocks]
    BY Sizes DEF NewScan, Blocks
  <1>5. UNCHANGED <<flash, bad, job, next, ret, cuts, fails>>
    BY DEF scan_block
  <1>6. /\ Len(mem.nfree) <= NodeCount /\ Mult(0)
        /\ mem.valid => mem.blk_addr \in Blocks /\ mem.page_addr >= 0
        /\ mem.page_addr >= 0 => Mult(mem.page_addr)
        /\ ~mem.valid => mem.blk_addr = NoBlock
    BY <1>1, MultSteps DEF Sound, PcOK, Types
  <1>7. \/ /\ Readable(b) = {}
           /\ pc' = rest /\ scan' = more /\ mem' = mem
        \/ /\ Readable(b) # {} /\ (NeedsNode(b) => NodeLeft(mem.nfree))
           /\ pc' = rest /\ scan' = more /\ mem' = new
        \/ /\ Readable(b) # {} /\ NeedsNode(b)
           /\ mem' = [m EXCEPT !.valid = @ \/ Header(b).st = "data"]
           /\ pc' = "idle" /\ scan' = NewScan
    BY DEF scan_block
  <1> HIDE DEF more, rest, m
  <1>8. CASE Readable(b) = {} /\ pc' = rest /\ scan' = more /\ mem' = mem
    BY <1>1, <1>3, <1>5, <1>6, <1>8 DEF Sound, Types, PcOK, Working
  <1>9. CASE /\ Readable(b) # {} /\ (NeedsNode(b) => NodeLeft(mem.nfree))
             /\ pc' = rest /\ scan' = more /\ mem' = new
    <2>1. /\ new \in Mem
          /\ Header(b).st # "data" =>
               /\ new.valid = m.valid /\ new.blk_addr = m.blk_addr
               /\ new.page_addr = m.page_addr /\ new.nfree = Append(m.nfree, b)
          /\ Header(b).st = "data" /\ m.blk_addr = NoBlock =>
               /\ new.valid /\ new.blk_addr = b /\ new.page_addr = 0 /\ new.nfree = m.nfree
          /\ Header(b).st = "data" /\ m.blk_addr # NoBlock /\ Header(b).ts > m.timestamp =>
               /\ new.valid /\ new.blk_addr = b /\ new.page_addr = 0
               /\ new.nfree = Append(m.nfree, m.blk_addr)
          /\ Header(b).st = "data" /\ m.blk_addr # NoBlock /\ ~(Header(b).ts > m.timestamp) =>
               /\ new.valid /\ new.blk_addr = m.blk_addr /\ new.page_addr = m.page_addr
               /\ new.nfree = Append(m.nfree, b)
      BY <1>1, <1>2, <1>9, VisitFields
    <2> HIDE DEF new
    <2>2. /\ Len(Append(m.nfree, b)) = Len(mem.nfree) + 1
          /\ m.blk_addr \in Blocks => Len(Append(m.nfree, m.blk_addr)) = Len(mem.nfree) + 1
      BY <1>1, <1>2, AppendList, MemOK
    <2>3. Len(new.nfree) <= NodeCount
      BY <2>1, <2>2, <1>1, <1>2, <1>6, <1>9, MemOK, Sizes DEF NeedsNode, NodeLeft
    <2>4. /\ new.valid => new.blk_addr \in Blocks /\ new.page_addr >= 0
          /\ new.page_addr >= 0 => Mult(new.page_addr)
          /\ ~new.valid => new.blk_addr = NoBlock
      BY <2>1, <1>1, <1>2, <1>6, MemOK
    <2> QED BY <1>1, <1>3, <1>5, <1>9, <2>1, <2>3, <2>4 DEF Sound, Types, PcOK, Working
  <1>10. CASE /\ Readable(b) # {} /\ NeedsNode(b)
              /\ mem' = [m EXCEPT !.valid = @ \/ Header(b).st = "data"]
              /\ pc' = "idle" /\ scan' = NewScan
    <2>1. /\ mem' \in Mem /\ mem'.blk_addr = mem.blk_addr /\ mem'.page_addr = mem.page_addr
          /\ mem'.nfree = mem.nfree
          /\ mem'.valid => mem.valid \/ Header(b).st = "data"
      BY <1>2, <1>10 DEF Mem
    <2>2. mem'.valid => mem.valid
      BY <2>1, <1>1, <1>6, <1>10, MemOK DEF NeedsNode
    <2> QED BY <1>1, <1>4, <1>5, <1>6, <1>10, <2>1, <2>2 DEF Sound, Types, PcOK, Working
  <1> QED BY <1>7, <1>8, <1>9, <1>10


AtPage(m, page) == [m EXCEPT !.page_addr = page]
Chosen(m, page, ab) == [m EXCEPT !.page_addr = page, !.abnormal = ab]

LEMMA PageFields ==
    ASSUME NEW m \in Mem, NEW page \in -1 .. PagesPerBlk + PageNum
    PROVE  /\ AtPage(m, page) \in Mem /\ AtPage(m, page).valid = m.valid
           /\ AtPage(m, page).abnormal = m.abnormal
           /\ AtPage(m, page).blk_addr = m.blk_addr /\ AtPage(m, page).page_addr = page
           /\ AtPage(m, page).timestamp = m.timestamp /\ AtPage(m, page).nfree = m.nfree
  BY DEF Mem, AtPage

LEMMA ChosenFields ==
    ASSUME NEW m \in Mem, NEW page \in -1 .. PagesPerBlk + PageNum, NEW ab \in BOOLEAN
    PROVE  /\ Chosen(m, page, ab) \in Mem /\ Chosen(m, page, ab).valid = m.valid
           /\ Chosen(m, page, ab).abnormal = ab
           /\ Chosen(m, page, ab).blk_addr = m.blk_addr
           /\ Chosen(m, page, ab).page_addr = page
           /\ Chosen(m, page, ab).timestamp = m.timestamp
           /\ Chosen(m, page, ab).nfree = m.nfree
  BY DEF Mem, Chosen

\* Highest of the copies, or the copy that ends at the last page with data.
LEMMA SoundSelect ==
    ASSUME Sound, select_copy
    PROVE  Sound'
  <1> DEFINE b == mem.blk_addr
             last == IF Good(b) = {} THEN mem.page_addr ELSE Highest(Good(b))
             cutoff == (last + 1) % PageNum # 0
             good == scan.good \cup Good(b)
             copies == {p \in Starts : \A k \in 0 .. PageNum - 1 : p + k \in good}
             retry == cutoff \/ scan.incomplete
  <1>1. /\ Types /\ pc = "select" /\ scan.good \in SUBSET Pages
        /\ scan \in [good : SUBSET Pages, incomplete : BOOLEAN, start : Blocks]
        /\ UNCHANGED <<flash, bad, job, next, ret, cuts, fails>>
    BY DEF Sound, Types, select_copy
  <1>2. /\ Len(mem.nfree) <= NodeCount
        /\ mem.valid => b \in Blocks /\ mem.page_addr >= 0
        /\ mem.page_addr >= 0 => Mult(mem.page_addr)
        /\ ~mem.valid => b = NoBlock
    BY <1>1 DEF Sound, PcOK, Types
  <1>3. NewScan \in [good : SUBSET Pages, incomplete : BOOLEAN, start : Blocks]
        /\ NewScan.start = 0
    BY Sizes DEF NewScan, Blocks
  <1>4. Good(b) \subseteq Pages /\ good \subseteq Pages /\ copies \subseteq Starts
    BY <1>1 DEF Good, Seen
  <1>5. last \in Int /\ (mem.valid => last >= 0 /\ last < PagesPerBlk + PageNum + 1)
    <2>1. CASE Good(b) = {}
      BY <2>1, <1>1, <1>2, MemOK, Sizes
    <2>2. CASE Good(b) # {}
      <3>1. Highest(Good(b)) \in Pages
        BY <2>2, <1>4, Greatest
      <3> QED BY <2>2, <3>1, Sizes DEF Pages
    <2> QED BY <2>1, <2>2
  <1>6. copies # {} => Highest(copies) \in Starts
    BY <1>4, Greatest, Sizes
  <1>7. \/ ~mem.valid /\ pc' = "idle" /\ scan' = NewScan /\ mem' = mem
        \/ /\ mem.valid /\ (retry => copies # {})
           /\ mem' = [mem EXCEPT !.page_addr = IF retry THEN Highest(copies) ELSE last - (PageNum - 1),
                                 !.abnormal = cutoff \/ Seen(b) # Good(b)]
           /\ pc' = "idle" /\ scan' = NewScan
        \/ /\ mem.valid /\ scan' = [good |-> good, incomplete |-> TRUE, start |-> 0]
           /\ pc' = "free" /\ mem' = mem
    BY DEF select_copy
  <1> HIDE DEF last, good, copies
  <1>8. CASE ~mem.valid /\ pc' = "idle" /\ scan' = NewScan /\ mem' = mem
    BY <1>1, <1>2, <1>3, <1>8 DEF Sound, Types, PcOK, Working
  <1>9. CASE /\ mem.valid /\ (retry => copies # {})
             /\ mem' = [mem EXCEPT !.page_addr = IF retry THEN Highest(copies) ELSE last - (PageNum - 1),
                                   !.abnormal = cutoff \/ Seen(b) # Good(b)]
             /\ pc' = "idle" /\ scan' = NewScan
    <2> DEFINE page == IF retry THEN Highest(copies) ELSE last - (PageNum - 1)
               ab == cutoff \/ Seen(b) # Good(b)
    <2>1. page \in 0 .. PagesPerBlk + PageNum /\ Mult(page)
      <3>1. CASE retry
        BY <3>1, <1>6, <1>9, Sizes DEF Starts, Pages, Mult
      <3>2. CASE ~retry
        <4>1. Mult(last + 1) /\ last + 1 > 0
          BY <3>2, <1>5, <1>9 DEF Mult
        <4>2. last + 1 \in Int /\ (last + 1) - PageNum = last - (PageNum - 1)
          BY <1>5, Sizes
        <4>3. PageNum <= last + 1 /\ Mult((last + 1) - PageNum)
          <5>1. Mult((last + 1) - PageNum)
            <6> DEFINE n == last + 1
            <6>1. n \in Int /\ Mult(n)
              BY <4>1, <4>2
            <6> HIDE DEF n
            <6>2. Mult(n - PageNum)
              BY <6>1, MultBack
            <6> QED BY <6>2 DEF n
          <5>2. 0 < last + 1 /\ 0 \in Int
            BY <4>1, <4>2
          <5>3. 0 + PageNum <= last + 1
            BY <5>2, <4>1, <4>2, MultSteps
          <5> QED BY <5>1, <5>3, Sizes
        <4>4. last - (PageNum - 1) \in 0 .. PagesPerBlk + PageNum
          BY <4>3, <1>5, <1>9, Sizes
        <4> QED BY <3>2, <4>2, <4>3, <4>4
      <3> QED BY <3>1, <3>2
    <2>2. ab \in BOOLEAN
      OBVIOUS
    <2> HIDE DEF page, ab, retry, cutoff
    <2>3. mem' = [mem EXCEPT !.page_addr = page, !.abnormal = ab]
      BY <1>9 DEF page, ab
    <2>4. page \in -1 .. PagesPerBlk + PageNum
      BY <2>1, Sizes
    <2> DEFINE new == Chosen(mem, page, ab)
    <2>5. /\ new \in Mem /\ new.valid = mem.valid /\ new.blk_addr = b /\ new.page_addr = page
          /\ new.nfree = mem.nfree
      BY <2>2, <2>4, <1>1, MemOK, ChosenFields
    <2>6. mem' = new /\ mem.valid /\ pc' = "idle" /\ scan' = NewScan
      BY <2>3, <1>9 DEF Chosen
    <2> HIDE DEF new
    <2> QED BY <1>1, <1>2, <1>3, <2>1, <2>5, <2>6 DEF Sound, Types, PcOK, Working
  <1>10. CASE /\ mem.valid /\ scan' = [good |-> good, incomplete |-> TRUE, start |-> 0]
              /\ pc' = "free" /\ mem' = mem
    <2>1. /\ scan' \in [good : SUBSET Pages, incomplete : BOOLEAN, start : Blocks]
          /\ scan'.start = 0
      BY <1>3, <1>4, <1>10 DEF NewScan
    <2> QED BY <1>1, <1>2, <1>10, <2>1 DEF Sound, Types, PcOK, Working
  <1> QED BY <1>7, <1>8, <1>9, <1>10

LEMMA SoundFree ==
    ASSUME Sound, meson_rsv_free
    PROVE  Sound'
  <1>1. /\ Types /\ flash' = ErasedFlash(mem.blk_addr) /\ mem' = NothingKnown /\ pc' = "scan"
        /\ UNCHANGED <<bad, job, next, scan, ret, cuts, fails>>
    BY DEF Sound, meson_rsv_free
  <1>2. flash' \in [Blocks -> [Pages -> Page]]
    BY <1>1, ErasedType
  <1>3. Mult(0)
    BY MultSteps
  <1> QED BY <1>1, <1>2, <1>3, NothingFields, Sizes DEF Sound, Types, PcOK, Working

-----------------------------------------------------------------------------
(* The same for a save.                                                    *)

LEMMA SoundSave ==
    ASSUME Sound, NEW v \in Values, meson_rsv_save(v)
    PROVE  Sound'
  <1>1. /\ Types /\ pc = "idle" /\ pc' = "search" /\ job' = v /\ mem.page_addr <= PagesPerBlk
        /\ mem' = IF mem.abnormal THEN [mem EXCEPT !.page_addr = PagesPerBlk] ELSE mem
        /\ UNCHANGED <<flash, bad, next, scan, ret, cuts, fails>>
    BY DEF Sound, meson_rsv_save
  <1>2. PagesPerBlk \in -1 .. PagesPerBlk + PageNum /\ Mult(PagesPerBlk) /\ PagesPerBlk >= 0
    BY MultSteps, Sizes
  <1>3. /\ mem' \in Mem /\ mem'.valid = mem.valid /\ mem'.blk_addr = mem.blk_addr
        /\ mem'.nfree = mem.nfree /\ mem'.page_addr \in {mem.page_addr, PagesPerBlk}
    BY <1>1, <1>2, MemOK DEF Mem
  <1> QED BY <1>1, <1>2, <1>3, Sizes DEF Sound, Types, PcOK, Working

\* What the move to the next block does, whatever its caller did before.
LEMMA Moved ==
    ASSUME Sound, NEW m \in Mem, MoveToNextBlock(m), m.blk_addr \in Blocks,
           m.valid, Mult(m.page_addr), m.page_addr >= 0,
           Len(m.nfree) <= NodeCount
    PROVE  /\ mem' \in Mem /\ Len(mem'.nfree) = Len(m.nfree)
           /\ mem'.valid /\ mem'.abnormal = m.abnormal
           /\ mem'.blk_addr \in Blocks /\ mem'.page_addr >= 0 /\ Mult(mem'.page_addr)
           /\ \/ /\ ~NodeLeft(m.nfree) /\ mem' = m
                 /\ pc' = "idle" /\ job' = NoJob /\ ret' = "fail"
              \/ /\ NodeLeft(m.nfree) /\ m.nfree = <<>> /\ mem' = m
                 /\ pc' = "abort" /\ job' = job /\ ret' = ret
              \/ /\ NodeLeft(m.nfree) /\ m.nfree # <<>>
                 /\ pc' = "prepare" /\ job' = job /\ ret' = ret
                 /\ mem'.blk_addr = Head(m.nfree) /\ mem'.page_addr = 0
                 /\ mem'.timestamp = m.timestamp + 1
                 /\ mem'.nfree = Append(Tail(m.nfree), m.blk_addr)
  <1> DEFINE new == TakeHead([m EXCEPT !.nfree = Append(@, m.blk_addr)])
  <1>1. CASE ~NodeLeft(m.nfree)
    BY <1>1 DEF MoveToNextBlock, Return
  <1>2. CASE NodeLeft(m.nfree) /\ m.nfree = <<>>
    BY <1>2 DEF MoveToNextBlock
  <1>3. CASE NodeLeft(m.nfree) /\ m.nfree # <<>>
    <2>1. mem' = new /\ pc' = "prepare" /\ job' = job /\ ret' = ret
      BY <1>3 DEF MoveToNextBlock
    <2>2. /\ new \in Mem
          /\ new.valid = m.valid /\ new.abnormal = m.abnormal
          /\ new.blk_addr = Head(m.nfree) /\ new.page_addr = 0
          /\ new.timestamp = m.timestamp + 1
          /\ new.nfree = Append(Tail(m.nfree), m.blk_addr)
          /\ Len(new.nfree) = Len(m.nfree)
      BY <1>3, RotateFields
    <2> HIDE DEF new
    <2>3. Head(m.nfree) \in Blocks /\ Mult(0)
      BY <1>3, HeadList, MemFields, MultSteps
    <2> QED BY <1>3, <2>1, <2>2, <2>3
  <1> QED BY <1>1, <1>2, <1>3

LEMMA SoundSame ==
    ASSUME Sound, search_same
    PROVE  Sound'
  <1>1. /\ Types /\ pc = "search" /\ mem.valid /\ pc' = "write" /\ next' = 0
        /\ mem' = [mem EXCEPT !.page_addr = @ + PageNum]
        /\ mem.page_addr + 2 * PageNum <= PagesPerBlk
        /\ UNCHANGED <<flash, bad, job, scan, ret, cuts, fails>>
    BY DEF Sound, search_same
  <1>2. /\ mem.blk_addr \in Blocks /\ mem.page_addr >= 0 /\ Mult(mem.page_addr) /\ job \in Values
        /\ scan = NewScan
    BY <1>1 DEF Sound, PcOK, Working
  <1> DEFINE page == mem.page_addr + PageNum
  <1>3. page \in -1 .. PagesPerBlk + PageNum /\ Mult(page) /\ page >= 0
        /\ page + PageNum <= PagesPerBlk
    <2>1. Mult(mem.page_addr + PageNum)
      BY <1>1, <1>2, MemOK, MultSteps
    <2>2. mem.page_addr \in Int /\ mem.page_addr >= 0 /\ mem.page_addr + 2 * PageNum <= PagesPerBlk
      BY <1>1, <1>2, MemOK
    <2>3. page \in -1 .. PagesPerBlk + PageNum /\ page >= 0 /\ page + PageNum <= PagesPerBlk
      BY <2>2, Sizes
    <2> QED BY <2>1, <2>3
  <1> DEFINE new == AtPage(mem, page)
  <1>4. mem' = new
    BY <1>1 DEF AtPage
  <1> HIDE DEF page
  <1>5. /\ new \in Mem /\ new.valid = mem.valid /\ new.blk_addr = mem.blk_addr
        /\ new.nfree = mem.nfree /\ new.page_addr = page
    <2>1. mem \in Mem
      BY <1>1, MemOK
    <2> QED BY <2>1, <1>3, PageFields
  <1> HIDE DEF new
  <1>6. /\ Types /\ mem.valid /\ pc' = "write" /\ next' = 0
        /\ UNCHANGED <<flash, bad, job, scan, ret, cuts, fails>>
    BY <1>1
  <1> QED BY <1>2, <1>3, <1>4, <1>5, <1>6, Sizes DEF Sound, Types, PcOK, Working

LEMMA SoundNext ==
    ASSUME Sound, search_next
    PROVE  Sound'
  <1> DEFINE m == [mem EXCEPT !.page_addr = @ + PageNum]
  <1>1. /\ Types /\ pc = "search" /\ mem.valid /\ mem.blk_addr \in Blocks
        /\ mem.page_addr >= 0 /\ Mult(mem.page_addr) /\ mem.page_addr <= PagesPerBlk
        /\ job \in Values /\ scan = NewScan
        /\ UNCHANGED <<flash, bad, next, scan, cuts, fails>>
    BY DEF Sound, PcOK, Working, search_next
  <1>2. mem.page_addr + PageNum \in 0 .. PagesPerBlk + PageNum /\ Mult(mem.page_addr + PageNum)
    <2>1. Mult(mem.page_addr + PageNum)
      BY <1>1, MemOK, MultSteps
    <2>2. mem.page_addr \in Int
      BY <1>1, MemOK
    <2>3. mem.page_addr + PageNum \in 0 .. PagesPerBlk + PageNum
      BY <2>2, <1>1, Sizes
    <2> QED BY <2>1, <2>3
  <1>3. /\ m \in Mem /\ m.valid /\ m.blk_addr = mem.blk_addr
        /\ m.page_addr = mem.page_addr + PageNum /\ m.nfree = mem.nfree
    <2> DEFINE page == mem.page_addr + PageNum
    <2>1. page \in -1 .. PagesPerBlk + PageNum
      BY <1>2, Sizes
    <2> HIDE DEF page
    <2>2. mem \in Mem /\ mem.valid
      BY <1>1, MemOK
    <2>3. m = AtPage(mem, page)
      BY DEF AtPage, page
    <2> HIDE DEF m
    <2>4. /\ m \in Mem /\ m.valid = mem.valid /\ m.blk_addr = mem.blk_addr
          /\ m.nfree = mem.nfree /\ m.page_addr = page
      BY <2>1, <2>2, <2>3, PageFields
    <2> QED BY <2>2, <2>4 DEF page
  <1>4. \/ mem.page_addr = PagesPerBlk /\ mem' = m /\ pc' = "wipe" /\ job' = job /\ ret' = ret
        \/ mem.page_addr # PagesPerBlk /\ MoveToNextBlock(m)
    BY DEF search_next
  <1>5. Len(mem.nfree) <= NodeCount /\ NoJob \in Values \cup {None, NoJob}
    BY <1>1 DEF Types
  <1> HIDE DEF m
  <1>6. CASE mem.page_addr = PagesPerBlk /\ mem' = m /\ pc' = "wipe" /\ job' = job /\ ret' = ret
    BY <1>1, <1>2, <1>3, <1>6 DEF Sound, Types, PcOK, Working
  <1>7. CASE mem.page_addr # PagesPerBlk /\ MoveToNextBlock(m)
    <2>1. /\ mem' \in Mem /\ Len(mem'.nfree) = Len(m.nfree)
          /\ mem'.valid /\ mem'.blk_addr \in Blocks /\ mem'.page_addr >= 0 /\ Mult(mem'.page_addr)
          /\ \/ pc' = "idle" /\ job' = NoJob /\ ret' = "fail"
             \/ pc' = "abort" /\ job' = job /\ ret' = ret
             \/ pc' = "prepare" /\ job' = job /\ ret' = ret /\ mem'.page_addr = 0
      BY <1>1, <1>2, <1>3, <1>5, <1>7, Moved
    <2> QED BY <1>1, <1>3, <1>5, <2>1 DEF Sound, Types, PcOK, Working
  <1> QED BY <1>4, <1>6, <1>7

LEMMA SoundWipe ==
    ASSUME Sound, wipe
    PROVE  Sound'
  <1>1. /\ Types /\ pc = "wipe" /\ mem.valid /\ mem.blk_addr \in Blocks
        /\ mem.page_addr >= 0 /\ Mult(mem.page_addr)
        /\ job \in Values /\ scan = NewScan /\ flash' = ErasedFlash(mem.blk_addr)
        /\ MoveToNextBlock(mem) /\ mem \in Mem /\ Len(mem.nfree) <= NodeCount
        /\ UNCHANGED <<bad, next, scan, cuts, fails>>
    BY DEF Sound, Types, PcOK, Working, wipe
  <1>2. flash' \in [Blocks -> [Pages -> Page]]
    BY <1>1, ErasedType
  <1>3. /\ mem' \in Mem /\ Len(mem'.nfree) = Len(mem.nfree)
        /\ mem'.valid /\ mem'.blk_addr \in Blocks /\ mem'.page_addr >= 0 /\ Mult(mem'.page_addr)
        /\ \/ pc' = "idle" /\ job' = NoJob /\ ret' = "fail"
           \/ pc' = "abort" /\ job' = job /\ ret' = ret
           \/ pc' = "prepare" /\ job' = job /\ ret' = ret /\ mem'.page_addr = 0
    BY <1>1, Moved
  <1> QED BY <1>1, <1>2, <1>3 DEF Sound, Types, PcOK, Working

LEMMA SoundFirst ==
    ASSUME Sound, search_first
    PROVE  Sound'
  <1>1. /\ Types /\ pc = "search" /\ mem \in Mem /\ Len(mem.nfree) <= NodeCount
        /\ mem.page_addr >= 0 => Mult(mem.page_addr)
        /\ ~mem.valid /\ job \in Values /\ scan = NewScan
        /\ UNCHANGED <<flash, bad, job, next, scan, ret, cuts, fails>>
    BY DEF Sound, Types, PcOK, Working, search_first
  <1>2. CASE mem.nfree = <<>> /\ mem' = mem /\ pc' = "abort"
    BY <1>1, <1>2 DEF Sound, Types, PcOK, Working
  <1>3. CASE mem.nfree # <<>> /\ mem' = TakeHead(mem) /\ pc' = "prepare"
    <2> DEFINE new == TakeHead(mem)
    <2>1. /\ new \in Mem /\ new.valid = mem.valid /\ new.blk_addr = Head(mem.nfree)
          /\ new.page_addr = 0 /\ new.nfree = Tail(mem.nfree)
      BY <1>1, <1>3, HeadFields
    <2>2. /\ Head(mem.nfree) \in Blocks /\ Len(Tail(mem.nfree)) = Len(mem.nfree) - 1
          /\ Len(mem.nfree) \in Nat
      BY <1>1, <1>3, HeadList, MemFields
    <2>3. Mult(0)
      BY MultSteps
    <2> HIDE DEF new
    <2>4. Len(new.nfree) <= NodeCount /\ ~new.valid /\ new.blk_addr \in Blocks
      BY <2>1, <2>2, <1>1, Sizes
    <2>5. mem' = new /\ pc' = "prepare"
      BY <1>3 DEF new
    <2>6. new \in Mem /\ new.page_addr = 0
      BY <2>1
    <2> QED BY <1>1, <2>3, <2>4, <2>5, <2>6 DEF Sound, Types, PcOK, Working
  <1> QED BY <1>2, <1>3 DEF search_first

LEMMA SoundPrepare ==
    ASSUME Sound, prepare
    PROVE  Sound'
  <1>1. /\ Types /\ pc = "prepare" /\ mem \in Mem /\ Len(mem.nfree) <= NodeCount
        /\ mem.blk_addr \in Blocks /\ mem.page_addr = 0 /\ Mult(0)
        /\ job \in Values /\ scan = NewScan
        /\ UNCHANGED <<job, scan, ret, cuts, fails>>
    BY MultSteps DEF Sound, Types, PcOK, Working, prepare
  <1>2. /\ PagesPerBlk \in -1 .. PagesPerBlk + PageNum
        /\ PagesPerBlk >= 0 /\ PagesPerBlk - PageNum \in -1 .. PagesPerBlk + PageNum
        /\ PagesPerBlk - PageNum >= 0 /\ PageNum <= PagesPerBlk
        /\ Mult(PagesPerBlk) /\ Mult(PagesPerBlk - PageNum)
    <2>1. Mult(PagesPerBlk) /\ Mult(PagesPerBlk - PageNum)
      BY MultSteps, MultBack, Sizes
    <2>2. 0 < PagesPerBlk /\ PagesPerBlk \in Int
      BY Sizes
    <2>3. Mult(0) /\ 0 \in Int
      BY MultSteps
    <2>4. 0 + PageNum <= PagesPerBlk
      BY <2>1, <2>2, <2>3, MultSteps
    <2> QED BY <2>1, <2>4, Sizes
  <1>3. \/ /\ mem' = AtPage(mem, PagesPerBlk - PageNum) /\ pc' = "search"
           /\ UNCHANGED <<flash, bad, next>>
        \/ /\ flash' = ErasedFlash(mem.blk_addr) /\ pc' = "write" /\ next' = 0
           /\ UNCHANGED <<bad, mem>>
        \/ /\ bad' = bad \cup {mem.blk_addr} /\ mem' = AtPage(mem, PagesPerBlk)
           /\ pc' = "search" /\ UNCHANGED <<flash, next>>
    BY DEF prepare, AtPage
  <1>4. CASE /\ mem' = AtPage(mem, PagesPerBlk - PageNum) /\ pc' = "search"
             /\ UNCHANGED <<flash, bad, next>>
    <2> DEFINE new == AtPage(mem, PagesPerBlk - PageNum)
    <2>1. /\ new \in Mem /\ new.valid = mem.valid /\ new.blk_addr = mem.blk_addr
          /\ new.nfree = mem.nfree /\ new.page_addr = PagesPerBlk - PageNum
      BY <1>1, <1>2, PageFields
    <2> HIDE DEF new
    <2>2. mem' = new
      BY <1>4 DEF new
    <2> QED BY <1>1, <1>2, <1>4, <2>1, <2>2, Sizes DEF Sound, Types, PcOK, Working
  <1>5. CASE /\ flash' = ErasedFlash(mem.blk_addr) /\ pc' = "write" /\ next' = 0
             /\ UNCHANGED <<bad, mem>>
    <2>1. flash' \in [Blocks -> [Pages -> Page]]
      BY <1>1, <1>5, ErasedType
    <2> QED BY <1>1, <1>2, <1>5, <2>1, Sizes DEF Sound, Types, PcOK, Working
  <1>6. CASE /\ bad' = bad \cup {mem.blk_addr} /\ mem' = AtPage(mem, PagesPerBlk)
             /\ pc' = "search" /\ UNCHANGED <<flash, next>>
    <2> DEFINE new == AtPage(mem, PagesPerBlk)
    <2>1. /\ new \in Mem /\ new.valid = mem.valid /\ new.blk_addr = mem.blk_addr
          /\ new.nfree = mem.nfree /\ new.page_addr = PagesPerBlk
      BY <1>1, <1>2, PageFields
    <2> HIDE DEF new
    <2>2. mem' = new
      BY <1>6 DEF new
    <2>3. bad' \subseteq Blocks
      BY <1>1, <1>6 DEF Types
    <2> QED BY <1>1, <1>2, <1>6, <2>1, <2>2, <2>3, Sizes DEF Sound, Types, PcOK, Working
  <1> QED BY <1>3, <1>4, <1>5, <1>6

LEMMA SoundWrite ==
    ASSUME Sound, write
    PROVE  Sound'
  <1>1. /\ Types /\ pc = "write" /\ mem \in Mem /\ Len(mem.nfree) <= NodeCount
        /\ mem.blk_addr \in Blocks /\ mem.page_addr >= 0 /\ Mult(mem.page_addr)
        /\ job \in Values /\ scan = NewScan /\ next < PageNum /\ next \in Nat
        /\ mem.page_addr + PageNum <= PagesPerBlk
        /\ Program(Content)
        /\ UNCHANGED <<bad, scan, cuts, fails>>
    BY DEF Sound, Types, PcOK, Working, write
  <1>2. flash' \in [Blocks -> [Pages -> Page]]
    BY <1>1, ContentPage, Programmed
  <1> DEFINE new == [mem EXCEPT !.valid = TRUE, !.abnormal = FALSE]
  <1>3. \/ mem' = new /\ next' = 0 /\ pc' = "idle" /\ job' = NoJob /\ ret' = "ok"
        \/ next # PageNum - 1 /\ next' = next + 1 /\ UNCHANGED <<mem, pc, job, ret>>
    BY DEF write, Return
  <1>4. /\ new \in Mem /\ new.blk_addr = mem.blk_addr /\ new.page_addr = mem.page_addr
        /\ new.nfree = mem.nfree
    BY <1>1 DEF Mem
  <1> HIDE DEF new
  <1>5. CASE mem' = new /\ next' = 0 /\ pc' = "idle" /\ job' = NoJob /\ ret' = "ok"
    BY <1>1, <1>2, <1>4, <1>5 DEF Sound, Types, PcOK, Working
  <1>6. CASE next # PageNum - 1 /\ next' = next + 1 /\ UNCHANGED <<mem, pc, job, ret>>
    BY <1>1, <1>2, <1>6, Sizes DEF Sound, Types, PcOK, Working
  <1> QED BY <1>3, <1>5, <1>6

LEMMA SoundWriteFails ==
    ASSUME Sound, write_fails
    PROVE  Sound'
  <1>1. /\ Types /\ pc = "write" /\ mem \in Mem /\ mem.blk_addr \in Blocks
        /\ scan = NewScan /\ fails < MaxFails /\ fails' = fails + 1
        /\ Program(Torn) /\ next' = 0 /\ pc' = "idle" /\ job' = NoJob /\ ret' = "fail"
        /\ UNCHANGED <<bad, mem, scan, cuts>>
    BY DEF Sound, Types, PcOK, write_fails, Return
  <1>2. flash' \in [Blocks -> [Pages -> Page]]
    BY <1>1, BlockTypes, Programmed
  <1>3. fails' \in 0 .. MaxFails
    BY <1>1, Sizes DEF Types
  <1> QED BY <1>1, <1>2, <1>3 DEF Sound, Types, PcOK, Working

-----------------------------------------------------------------------------
(* The same for reads, erases and the power.                               *)

LEMMA SoundRead ==
    ASSUME Sound, meson_rsv_read
    PROVE  Sound'
  <1>1. /\ pc = "idle" /\ (pc' = pc \/ (mem.valid /\ pc' = "scan"))
        /\ UNCHANGED <<flash, bad, mem, job, next, scan, ret, cuts, fails>>
    BY DEF meson_rsv_read
  <1> QED BY <1>1 DEF Sound, Types, PcOK, Working

\* What meson_rsv_erase puts into the record.
LEMMA EraseFields ==
    ASSUME NEW m \in Mem, m.blk_addr \in Blocks
    PROVE  LET u == [m EXCEPT !.valid = FALSE, !.page_addr = -1, !.timestamp = 1]
               w == [u EXCEPT !.nfree = Append(@, u.blk_addr)]
           IN  /\ u \in Mem /\ ~u.valid /\ u.page_addr = -1 /\ u.timestamp = 1
               /\ u.nfree = m.nfree /\ u.blk_addr = m.blk_addr /\ u.abnormal = m.abnormal
               /\ w \in Mem /\ ~w.valid /\ w.page_addr = -1 /\ w.timestamp = 1
               /\ w.nfree = Append(m.nfree, m.blk_addr) /\ w.blk_addr = m.blk_addr
               /\ w.abnormal = m.abnormal
  <1> DEFINE u == [m EXCEPT !.valid = FALSE, !.page_addr = -1, !.timestamp = 1]
  <1>1. -1 \in -1 .. PagesPerBlk + PageNum /\ 1 \in Nat
    BY Sizes
  <1>2. /\ u \in Mem /\ ~u.valid /\ u.page_addr = -1 /\ u.timestamp = 1
        /\ u.nfree = m.nfree /\ u.blk_addr = m.blk_addr /\ u.abnormal = m.abnormal
    BY <1>1 DEF Mem
  <1> HIDE DEF u
  <1> DEFINE w == Listed(u, u.blk_addr)
  <1>3. /\ w \in Mem /\ ~w.valid /\ w.page_addr = -1 /\ w.timestamp = 1
        /\ w.nfree = Append(m.nfree, m.blk_addr) /\ w.blk_addr = m.blk_addr
        /\ w.abnormal = m.abnormal
    BY <1>2, ListedFields
  <1>4. w = [u EXCEPT !.nfree = Append(@, u.blk_addr)]
    BY DEF Listed
  <1> QED BY <1>2, <1>3, <1>4 DEF u

LEMMA EraseCases ==
    ASSUME Sound, meson_rsv_erase
    PROVE  /\ mem' \in Mem /\ ~mem'.valid /\ mem'.page_addr = -1 /\ mem'.timestamp = 1
           /\ mem'.blk_addr = mem.blk_addr /\ mem'.abnormal = mem.abnormal
           /\ \/ /\ ~NodeLeft(mem.nfree) /\ mem'.nfree = mem.nfree /\ ret' = "fail"
                 /\ UNCHANGED <<pc, job, next>>
              \/ /\ NodeLeft(mem.nfree) /\ mem'.nfree = Append(mem.nfree, mem.blk_addr)
                 /\ pc' = IF mem.nfree = <<>> THEN "abort" ELSE "erase"
                 /\ job' = None /\ next' = 1 /\ ret' = ret
  <1> DEFINE u == [mem EXCEPT !.valid = FALSE, !.page_addr = -1, !.timestamp = 1]
             w == [u EXCEPT !.nfree = Append(@, u.blk_addr)]
  <1>1. mem \in Mem /\ mem.blk_addr \in Blocks
    BY DEF Sound, Types, PcOK, meson_rsv_erase
  <1>2. /\ u \in Mem /\ ~u.valid /\ u.page_addr = -1 /\ u.timestamp = 1
        /\ u.nfree = mem.nfree /\ u.blk_addr = mem.blk_addr /\ u.abnormal = mem.abnormal
        /\ w \in Mem /\ ~w.valid /\ w.page_addr = -1 /\ w.timestamp = 1
        /\ w.nfree = Append(mem.nfree, mem.blk_addr) /\ w.blk_addr = mem.blk_addr
        /\ w.abnormal = mem.abnormal
    BY <1>1, EraseFields
  <1>3. \/ ~NodeLeft(u.nfree) /\ mem' = u /\ ret' = "fail" /\ UNCHANGED <<pc, job, next>>
        \/ /\ NodeLeft(u.nfree) /\ mem' = w /\ pc' = (IF u.nfree = <<>> THEN "abort" ELSE "erase")
           /\ job' = None /\ next' = 1 /\ ret' = ret
    BY DEF meson_rsv_erase
  <1> HIDE DEF u, w
  <1> QED BY <1>2, <1>3

LEMMA SoundErase ==
    ASSUME Sound, meson_rsv_erase
    PROVE  Sound'
  <1>1. /\ Types /\ pc = "idle" /\ mem.nfree \in Seq(Blocks) /\ mem.blk_addr \in Blocks
        /\ Len(mem.nfree) \in Nat /\ Len(mem.nfree) <= NodeCount /\ scan = NewScan
        /\ UNCHANGED <<flash, bad, scan, cuts, fails>>
    BY MemOK DEF Sound, Types, PcOK, meson_rsv_erase
  <1>2. Len(Append(mem.nfree, mem.blk_addr)) = Len(mem.nfree) + 1
    BY <1>1, AppendList
  <1>3. /\ mem' \in Mem /\ ~mem'.valid /\ mem'.page_addr = -1
        /\ \/ /\ mem'.nfree = mem.nfree /\ ret' = "fail" /\ UNCHANGED <<pc, job, next>>
           \/ /\ NodeLeft(mem.nfree) /\ mem'.nfree = Append(mem.nfree, mem.blk_addr)
              /\ pc' = IF mem.nfree = <<>> THEN "abort" ELSE "erase"
              /\ job' = None /\ next' = 1 /\ ret' = ret
    BY EraseCases
  <1>4. Len(mem'.nfree) <= NodeCount /\ (pc' = "erase" => next' \in 1 .. Len(mem'.nfree))
    BY <1>1, <1>2, <1>3, Sizes DEF NodeLeft
  <1> QED BY <1>1, <1>3, <1>4 DEF Sound, Types, PcOK, Working

LEMMA SoundEraseBlock ==
    ASSUME Sound, erase_block
    PROVE  Sound'
  <1>1. /\ Types /\ pc = "erase" /\ next \in 1 .. Len(mem.nfree) /\ Len(mem.nfree) \in Nat
        /\ flash' = ErasedFlash(mem.nfree[next])
        /\ \/ next' = 0 /\ pc' = "idle" /\ job' = NoJob /\ ret' = "ok"
           \/ next # Len(mem.nfree) /\ next' = next + 1 /\ UNCHANGED <<pc, job, ret>>
        /\ UNCHANGED <<bad, mem, scan, cuts, fails>>
    BY MemOK DEF Sound, PcOK, erase_block, Return
  <1>2. flash' \in [Blocks -> [Pages -> Page]]
    BY <1>1, ErasedType
  <1>3. next' \in Nat /\ (pc' = "erase" => next' \in 1 .. Len(mem.nfree))
    BY <1>1
  <1> QED BY <1>1, <1>2, <1>3 DEF Sound, Types, PcOK, Working

LEMMA SoundPowerCut ==
    ASSUME Sound, PowerCut
    PROVE  Sound'
  <1>1. /\ Types /\ cuts < MaxCuts /\ cuts' = cuts + 1
        /\ pc' = "off" /\ job' = NoJob /\ next' = 0
        /\ mem' = NothingKnown /\ scan' = NewScan /\ ret' = "none"
        /\ UNCHANGED <<bad, fails>>
    BY DEF Sound, PowerCut
  <1>2. flash' \in [Blocks -> [Pages -> Page]]
    <2>1. flash \in [Blocks -> [Pages -> Page]]
      BY <1>1 DEF Types
    <2>2. CASE \E c \in Erasing, result \in {EmptyBlock, RuinedBlock} :
                  flash' = [flash EXCEPT ![c] = result]
      BY <2>1, <2>2, BlockTypes
    <2>3. CASE pc = "write" /\ \E page \in {Torn, Content} : Program(page)
      <3>1. next < PageNum /\ job \in Values /\ mem.blk_addr \in Blocks
        BY <2>3 DEF Sound, PcOK, Working
      <3> QED BY <1>1, <2>3, <3>1, BlockTypes, ContentPage, Programmed
    <2> QED BY <2>1, <2>2, <2>3 DEF PowerCut
  <1>3. cuts' \in 0 .. MaxCuts /\ NewScan \in [good : SUBSET Pages, incomplete : BOOLEAN, start : Blocks]
    BY <1>1, Sizes DEF Types, NewScan, Blocks
  <1>4. Mult(0)
    BY MultSteps
  <1> QED BY <1>1, <1>2, <1>3, <1>4, NothingFields, Sizes DEF Sound, Types, PcOK, Working

LEMMA SoundPowerUp ==
    ASSUME Sound, PowerUp
    PROVE  Sound'
  BY DEF Sound, Types, PcOK, Working, PowerUp

LEMMA SoundStep ==
    ASSUME Sound, [Next]_vars
    PROVE  Sound'
  <1>1. CASE Driver
    BY <1>1, SoundPowerUp, SoundScan, SoundSelect, SoundFree, SoundSame, SoundNext, SoundFirst,
       SoundWipe, SoundPrepare, SoundWrite, SoundWriteFails, SoundEraseBlock DEF Driver
  <1>2. CASE \E v \in Values : meson_rsv_save(v)
    BY <1>2, SoundSave
  <1>3. CASE UNCHANGED vars
    BY <1>3 DEF vars, Sound, Types, PcOK
  <1> QED BY <1>1, <1>2, <1>3, SoundRead, SoundErase, SoundPowerCut DEF Next

\* While the power is cut, pages fail and blocks go bad, the records of the driver
\* keep their types (struct meson_rsv_info_t, aml_rsv.c), it erases and programs only
\* blocks of the region, it programs only pages of the block it is in, and the erase
\* of a region stays inside the free list.
THEOREM NandRsvTypeOK == Spec => []TypeOK
  <1>1. Spec => []Sound
    BY InitSound, SoundStep, PTL DEF Spec
  <1>2. Sound => TypeOK
    <2> SUFFICES ASSUME Sound PROVE Types /\ Addressable
      BY DEF TypeOK
    <2>1. Types /\ PcOK
      BY DEF Sound
    <2>2. pc \in {"wipe", "free", "prepare", "write"} => mem.blk_addr \in Blocks
      BY <2>1 DEF PcOK
    <2>3. ASSUME pc = "write" PROVE Target \in Pages
      <3>1. mem.page_addr >= 0 /\ mem.page_addr + PageNum <= PagesPerBlk /\ next < PageNum
        BY <2>1, <2>3 DEF PcOK
      <3>2. mem.page_addr \in Int /\ next \in Nat
        BY <2>1, MemOK DEF Types
      <3> QED BY <3>1, <3>2, Sizes DEF Target, Pages
    <2>4. ASSUME pc = "erase" PROVE next \in DOMAIN mem.nfree
      <3>1. next \in 1 .. Len(mem.nfree) /\ mem.nfree \in Seq(Blocks)
        BY <2>1, <2>4, MemOK DEF PcOK
      <3> QED BY <3>1
    <2> QED BY <2>1, <2>2, <2>3, <2>4 DEF Addressable
  <1> QED BY <1>1, <1>2, PTL

-----------------------------------------------------------------------------
(* The pages of one block.  f is what flash holds of it.                   *)

BlockPages == [Pages -> Page]

\* Pages are written in order: where an erased page comes before a written one, a page
\* before both has failed.
InOrder(f) == \A p, q \in Pages : p < q /\ f[p].st = "erased" /\ f[q].st # "erased"
                => \E r \in Pages : r < p /\ f[r].st = "torn"

\* So are the pages of a copy.
CopyInOrder(f) == \A s \in Starts : \A k \in 0 .. PageNum - 1 :
                    f[s + k].st = "data" => \A j \in 0 .. k : f[s + j].st = "data"

Formed(f) == InOrder(f) /\ CopyInOrder(f)

\* The block can be written from page n on.
Clear(f, n) == /\ \A p \in Pages : p >= n => f[p].st = "erased"
               /\ \A p \in Pages : p < n /\ f[p].st = "erased" => \E r \in Pages : r < p /\ f[r].st = "torn"

\* The copy has a page that cannot be read.
TornAt(f, s) == \E k \in 0 .. PageNum - 1 : s + k \in Pages /\ f[s + k].st = "torn"

\* The header that the scan finds is that of the copy at p.
HeaderAt(f, p) == p \in Headers /\ f[p].st = "data" /\ \A q \in Starts : q < p => f[q].st = "torn"

AllTorn(f) == \A p \in Headers : f[p].st = "torn"

\* Every page belongs to one copy.
LEMMA OneCopy ==
    ASSUME NEW s \in Starts, NEW t \in Starts, NEW k \in 0 .. PageNum - 1, NEW j \in 0 .. PageNum - 1,
           s + k = t + j
    PROVE  s = t /\ k = j
  <1>1. /\ s \in Int /\ t \in Int /\ k \in Int /\ j \in Int /\ k < PageNum /\ j < PageNum
        /\ k >= 0 /\ j >= 0 /\ PageNum \in Int
    BY Sizes
  <1>2. Mult(s) /\ Mult(t)
    BY DEF Starts, Mult
  <1>3. ~(s < t)
    <2>1. s < t => s + PageNum <= t
      BY <1>1, <1>2, MultSteps
    <2> QED BY <2>1, <1>1
  <1>4. ~(t < s)
    <2>1. t < s => t + PageNum <= s
      BY <1>1, <1>2, MultSteps
    <2> QED BY <2>1, <1>1
  <1> QED BY <1>1, <1>3, <1>4

\* A copy that starts in a block is in it.
LEMMA CopyFits ==
    ASSUME NEW s \in Starts, NEW k \in 0 .. PageNum - 1
    PROVE  s + k \in Pages /\ s + PageNum <= PagesPerBlk
  <1>1. s \in Int /\ s >= 0 /\ s < PagesPerBlk /\ PagesPerBlk \in Int
    BY Sizes DEF Pages
  <1>2. Mult(s) /\ Mult(PagesPerBlk)
    BY MultSteps DEF Starts, Mult
  <1>3. s + PageNum <= PagesPerBlk
    BY <1>1, <1>2, MultSteps
  <1> QED BY <1>1, <1>3, Sizes DEF Pages

LEMMA ZeroStart == 0 \in Starts
  BY MultSteps, Sizes DEF Starts, Pages, Mult

\* The scan tries the first copies of a block, from its first page on.
LEMMA HeaderRange ==
    /\ 0 \in Headers
    /\ \A p \in Headers : p \in Starts /\ p \in Pages /\ p \in Int
    /\ \A p \in Headers, q \in Starts : q < p => q \in Headers
  <1>1. \A p \in Headers : p \in Starts /\ p \in Pages /\ p \in Int
    BY Sizes
  <1>2. HeaderReads * PageNum \in Int /\ 0 < HeaderReads * PageNum
    BY Sizes DEF HeaderReads
  <1>3. 0 \in Headers
    BY <1>2, ZeroStart DEF Headers
  <1>4. ASSUME NEW p \in Headers, NEW q \in Starts, q < p PROVE q \in Headers
    <2>1. p < HeaderReads * PageNum /\ p \in Int /\ q \in Int
      BY <1>1, Sizes DEF Headers
    <2> HIDE DEF HeaderReads
    <2>2. q < HeaderReads * PageNum
      BY <1>2, <1>4, <2>1
    <2> QED BY <2>2 DEF Headers
  <1> QED BY <1>1, <1>3, <1>4

LEMMA EmptyForms ==
    /\ EmptyBlock \in BlockPages /\ RuinedBlock \in BlockPages
    /\ Formed(EmptyBlock) /\ Formed(RuinedBlock) /\ Clear(EmptyBlock, 0)
    /\ \A p : ~HeaderAt(EmptyBlock, p) /\ ~HeaderAt(RuinedBlock, p)
    /\ \A p \in Pages : EmptyBlock[p].st = "erased" /\ RuinedBlock[p].st = "torn"
  <1>1. /\ EmptyBlock \in BlockPages /\ RuinedBlock \in BlockPages
        /\ \A p \in Pages : EmptyBlock[p].st = "erased" /\ RuinedBlock[p].st = "torn"
    BY BlockTypes DEF BlockPages
  <1>2. \A s \in Starts : \A k \in 0 .. PageNum - 1 : s + k \in Pages
    BY CopyFits
  <1>3. \A p \in Pages : p \in Nat
    BY Sizes
  <1>4. InOrder(EmptyBlock) /\ InOrder(RuinedBlock)
    BY <1>1 DEF InOrder
  <1>5. CopyInOrder(EmptyBlock) /\ CopyInOrder(RuinedBlock)
    BY <1>1, <1>2 DEF CopyInOrder
  <1>6. Clear(EmptyBlock, 0)
    BY <1>1, <1>3 DEF Clear
  <1>7. \A p : ~HeaderAt(EmptyBlock, p) /\ ~HeaderAt(RuinedBlock, p)
    BY <1>1, HeaderRange DEF HeaderAt
  <1> QED BY <1>1, <1>4, <1>5, <1>6, <1>7 DEF Formed

\* The header is on one page.
LEMMA OneHeader ==
    ASSUME NEW f \in BlockPages, NEW p, NEW q, HeaderAt(f, p), HeaderAt(f, q)
    PROVE  p = q
  BY HeaderRange, Sizes DEF HeaderAt, Pages

\* A page is written where the block is clear, after the pages of its copy before it.
LEMMA WritePage ==
    ASSUME NEW f \in BlockPages, NEW g \in BlockPages, NEW page \in Page, NEW s \in Starts,
           NEW k \in 0 .. PageNum - 1, Formed(f), Clear(f, s + k),
           \A j \in 0 .. k - 1 : f[s + j].st = "data",
           page.st # "erased",
           \A p \in Pages : g[p] = IF p = s + k THEN page ELSE f[p]
    PROVE  /\ Formed(g) /\ Clear(g, s + k + 1)
           /\ \A p : HeaderAt(g, p) => \/ HeaderAt(f, p) /\ g[p] = f[p]
                                       \/ p = s + k /\ page.st = "data" /\ g[p] = page
           /\ AllTorn(f) => AllTorn(g)
  <1> DEFINE t == s + k
  <1>1. t \in Pages /\ Pages \subseteq Nat /\ t \in Nat /\ t + 1 = s + k + 1
    BY CopyFits, Sizes
  <1>2. f[t].st = "erased"
    BY <1>1 DEF Clear
  <1>3. /\ \A p \in Pages : p >= t => f[p].st = "erased"
        /\ \A p \in Pages : p < t /\ f[p].st = "erased" => \E r \in Pages : r < p /\ f[r].st = "torn"
    BY DEF Clear
  <1>4. /\ g[t] = page /\ \A p \in Pages : p # t => g[p] = f[p]
    BY <1>1
  <1>5. \A x, y \in Nat : x < y \/ x = y \/ y < x
    OBVIOUS
  <1>6. \A p \in Pages : f[p].st = "erased" => \/ p >= t
                                                \/ \E r \in Pages : r < p /\ r # t /\ g[r].st = "torn"
    <2> TAKE p \in Pages
    <2> HAVE f[p].st = "erased"
    <2>1. CASE p < t
      <3>1. PICK r \in Pages : r < p /\ f[r].st = "torn"
        BY <1>3, <2>1
      <3>2. r # t
        BY <3>1, <1>2
      <3> QED BY <3>1, <3>2, <1>4
    <2> QED BY <2>1, <1>1
  <1> HIDE DEF t
  <1>7. InOrder(g)
    <2> SUFFICES ASSUME NEW p \in Pages, NEW q \in Pages, p < q, g[p].st = "erased",
                        g[q].st # "erased"
                 PROVE  \E r \in Pages : r < p /\ g[r].st = "torn"
      BY DEF InOrder
    <2>1. p # t /\ f[p].st = "erased"
      BY <1>4
    <2>2. q <= t
      <3>1. ~(q > t)
        BY <1>1, <1>3, <1>4
      <3> QED BY <3>1, <1>1
    <2>3. ~(p >= t)
      BY <2>1, <2>2, <1>1
    <2> QED BY <1>6, <2>1, <2>3
  <1>8. Clear(g, t + 1)
    <2>1. ASSUME NEW p \in Pages, p >= t + 1 PROVE g[p].st = "erased"
      BY <2>1, <1>1, <1>3, <1>4
    <2>2. ASSUME NEW p \in Pages, p < t + 1, g[p].st = "erased"
          PROVE  \E r \in Pages : r < p /\ g[r].st = "torn"
      <3>1. p # t /\ f[p].st = "erased"
        BY <2>2, <1>4
      <3>2. ~(p >= t)
        BY <2>2, <3>1, <1>1
      <3> QED BY <1>6, <3>1, <3>2
    <2> QED BY <2>1, <2>2 DEF Clear
  <1>9. CopyInOrder(g)
    <2> SUFFICES ASSUME NEW u \in Starts, NEW i \in 0 .. PageNum - 1, g[u + i].st = "data",
                        NEW j \in 0 .. i
                 PROVE  g[u + j].st = "data"
      BY DEF CopyInOrder
    <2>1. u + i \in Pages /\ u + j \in Pages /\ j \in 0 .. PageNum - 1
      BY CopyFits, Sizes
    <2>2. CASE u + i = t
      <3>1. u = s /\ i = k
        BY <2>2, OneCopy DEF t
      <3>2. CASE j = i
        BY <3>2, <2>1
      <3>3. CASE j # i
        <4>1. j \in 0 .. k - 1
          BY <3>1, <3>3, Sizes
        <4>2. f[u + j].st = "data"
          BY <3>1, <4>1
        <4> QED BY <4>2, <2>1, <1>2, <1>4
      <3> QED BY <3>2, <3>3
    <2>3. CASE u + i # t
      <3>1. f[u + i].st = "data"
        BY <2>1, <2>3, <1>4
      <3>2. f[u + j].st = "data"
        BY <3>1 DEF Formed, CopyInOrder
      <3> QED BY <3>2, <2>1, <1>2, <1>4
    <2> QED BY <2>2, <2>3
  <1>10. ASSUME NEW p, HeaderAt(g, p)
         PROVE  \/ HeaderAt(f, p) /\ g[p] = f[p]
                \/ p = t /\ page.st = "data" /\ g[p] = page
    <2>1. p \in Pages /\ g[p].st = "data"
      BY <1>10, HeaderRange DEF HeaderAt
    <2>2. CASE p = t
      BY <2>1, <2>2, <1>4
    <2>3. CASE p # t
      <3>1. f[p].st = "data" /\ g[p] = f[p]
        BY <2>1, <2>3, <1>4
      <3>2. p < t
        BY <3>1, <2>1, <2>3, <1>1, <1>3
      <3>3. ASSUME NEW q \in Starts, q < p PROVE f[q].st = "torn"
        <4>1. q \in Pages /\ q # t
          BY <3>2, <3>3, <2>1, <1>1, Sizes
        <4>2. g[q].st = "torn"
          BY <3>3, <1>10 DEF HeaderAt
        <4> QED BY <4>1, <4>2, <1>4
      <3> QED BY <3>1, <3>3, <1>10 DEF HeaderAt
    <2> QED BY <2>2, <2>3
  <1>11. ASSUME AllTorn(f) PROVE AllTorn(g)
    <2>1. \A p \in Headers : p # t
      BY <1>2, <1>11 DEF AllTorn
    <2> QED BY <2>1, <1>4, <1>11, HeaderRange DEF AllTorn
  <1> QED BY <1>1, <1>7, <1>8, <1>9, <1>10, <1>11 DEF Formed, t

-----------------------------------------------------------------------------
(* The invariant.  "Few" is at most one page that failed to program: after a *)
(* second one the scans of the reads can exhaust the nodes of the free list. *)

Lists == Range(mem.nfree)

\* No list has a block that is bad or whose headers are all torn.
Lost(b) == b \in bad \/ AllTorn(flash[b])

\* The driver knows the blocks of S.
Reach(S) == \A b \in S : b \in Lists \/ b = mem.blk_addr \/ Lost(b)

\* No block of S is newer than the valid one.
NoneNewer(S) == \A b \in S : \A p \in Starts : HeaderAt(flash[b], p) => flash[b][p].ts <= mem.timestamp

HasHeader(b) == \E p \in Starts : HeaderAt(flash[b], p)

Room == mem.page_addr + 2 * PageNum <= PagesPerBlk

Current == flash[mem.blk_addr]

\* A save in the same block finds its pages erased.
NextClear == Room => Clear(Current, mem.page_addr + PageNum)

\* The valid copy failed to program, and a read scans again on top of what is known.
Resume ==
    /\ mem.valid /\ fails > 0 /\ NoneNewer(Blocks)
    /\ TornAt(Current, mem.page_addr) /\ NextClear

\* A scan that began with nothing known has been through n blocks.
Scanned(n) ==
    /\ Reach(0 .. n - 1) /\ NoneNewer(0 .. n - 1)
    /\ Len(mem.nfree) <= n /\ (mem.blk_addr # NoBlock => Len(mem.nfree) < n)
    /\ \A b \in Lists : b < n
    /\ mem.blk_addr < n
    /\ Unlike(mem.nfree) /\ mem.blk_addr \notin Lists
    /\ mem.blk_addr = NoBlock => mem.timestamp = 0
    /\ mem.blk_addr # NoBlock => HasHeader(mem.blk_addr) /\ mem.page_addr = 0

AllFormed == \A b \in Blocks : Formed(flash[b])

\* What an unfinished round leaves behind is no complete copy.
NoLastPage == \A s \in Starts : s + PageNum - 1 \notin scan.good

PagesInv ==
    /\ AllFormed /\ NoLastPage
    /\ pc = "scan" => Scanned(scan.start) \/ Resume
    /\ pc = "select" /\ mem.valid => \/ HasHeader(mem.blk_addr) /\ mem.page_addr = 0
                                    \/ Resume
    /\ pc = "idle" /\ mem.valid => /\ TornAt(Current, mem.page_addr) => Resume
                                   /\ ~mem.abnormal => NextClear
    /\ pc = "search" /\ mem.valid => NextClear
    /\ pc = "write" => /\ Clear(Current, Target)
                       /\ \A j \in 0 .. next - 1 : Current[mem.page_addr + j].st = "data"

Listing == {"select", "idle", "search", "wipe", "prepare", "write", "erase"}

\* While no page has failed to program, the driver knows every block once.
ListsInv ==
    /\ pc \in Listing =>
         /\ Reach(Blocks) /\ Unlike(mem.nfree)
         /\ mem.valid \/ pc \in {"prepare", "write"} => mem.blk_addr \notin Lists
         /\ ~mem.valid /\ pc \in {"idle", "search", "erase"}
              => mem.blk_addr \in Lists \cup {NoBlock} \/ Lost(mem.blk_addr)
         /\ pc # "erase" => NoneNewer(Blocks)
         /\ pc = "erase" => /\ bad = {}
                            /\ \A b \in Blocks : HasHeader(b) =>
                                 \E i \in next .. Len(mem.nfree) : mem.nfree[i] = b
    /\ pc = "free" => Unlike(mem.nfree) /\ mem.blk_addr \notin Lists
    /\ pc = "abort" /\ mem.valid => mem.nfree = <<>>

\* A fault spoils one block.
TornBlocks == {b \in Blocks : \E p \in Pages : flash[b][p].st = "torn"}
FaultsInv ==
    /\ Cardinality(TornBlocks) <= cuts + fails
    /\ Cardinality(bad) <= MaxBad

-----------------------------------------------------------------------------
(* What the steps do to the pages.                                         *)

LEMMA HeaderLink ==
    ASSUME Types, NEW b \in Blocks
    PROVE  /\ flash[b] \in BlockPages
           /\ Readable(b) = {} <=> AllTorn(flash[b])
           /\ Readable(b) # {} /\ Header(b).st = "data"
                => \E p \in Starts : HeaderAt(flash[b], p) /\ Header(b) = flash[b][p]
           /\ \A p \in Starts : HeaderAt(flash[b], p) => Readable(b) # {} /\ Header(b) = flash[b][p]
                                                         /\ Header(b).st = "data"
  <1> DEFINE f == flash[b]
             h == Header(b)
  <1>1. f \in BlockPages
    BY DEF Types, BlockPages
  <1>2. Readable(b) = {p \in Headers : f[p].st # "torn"}
    BY DEF Readable
  <1>3. ASSUME Readable(b) # {}
        PROVE  \E p \in Readable(b) : h = f[p] /\ \A q \in Readable(b) : p <= q
    BY <1>3, HeaderPage
  <1> HIDE DEF f, h
  <1>4. Readable(b) = {} <=> AllTorn(f)
    BY <1>2 DEF AllTorn
  <1>5. ASSUME Readable(b) # {}, h.st = "data"
        PROVE  \E p \in Starts : HeaderAt(f, p) /\ h = f[p]
    <2>1. PICK p \in Readable(b) : h = f[p] /\ \A q \in Readable(b) : p <= q
      BY <1>3, <1>5
    <2>2. \A q \in Starts : q < p => q \notin Readable(b)
      <3>1. p \in Nat /\ \A q \in Starts : q \in Nat
        BY <1>2, Sizes
      <3>2. \A q \in Starts : q < p => ~(p <= q)
        BY <3>1
      <3> QED BY <2>1, <3>2
    <2>3. p \in Headers /\ \A q \in Starts : q < p => q \in Headers
      BY <2>1, <1>2, HeaderRange
    <2> QED BY <2>1, <2>2, <2>3, <1>2, <1>5, HeaderRange DEF HeaderAt
  <1>6. ASSUME NEW p \in Starts, HeaderAt(f, p)
        PROVE  Readable(b) # {} /\ h = f[p] /\ h.st = "data"
    <2>1. p \in Readable(b) /\ f[p].st = "data"
      BY <1>2, <1>6 DEF HeaderAt
    <2>2. PICK q \in Readable(b) : h = f[q] /\ \A r \in Readable(b) : q <= r
      BY <1>3, <2>1
    <2>3. ~(q < p)
      BY <2>2, <1>2, <1>6, HeaderRange DEF HeaderAt
    <2>4. p = q
      BY <2>1, <2>2, <2>3, <1>2, HeaderRange
    <2> QED BY <2>1, <2>2, <2>4
  <1> QED BY <1>1, <1>4, <1>5, <1>6 DEF f, h

\* Erases, whole or cut short.
LEMMA BlocksErased ==
    ASSUME AllFormed,
           \A b \in Blocks : flash'[b] = flash[b] \/ flash'[b] \in {EmptyBlock, RuinedBlock}
    PROVE  /\ AllFormed'
           /\ \A b \in Blocks : \A p \in Starts :
                HeaderAt(flash'[b], p) => HeaderAt(flash[b], p) /\ flash'[b][p] = flash[b][p]
  <1>1. ASSUME NEW b \in Blocks
        PROVE  /\ Formed(flash'[b])
               /\ \A p \in Starts : HeaderAt(flash'[b], p)
                                      => HeaderAt(flash[b], p) /\ flash'[b][p] = flash[b][p]
    <2>1. CASE flash'[b] = flash[b]
      BY <2>1, <1>1 DEF AllFormed
    <2>2. CASE flash'[b] \in {EmptyBlock, RuinedBlock}
      BY <2>2, EmptyForms
    <2> QED BY <2>1, <2>2, <1>1
  <1> QED BY <1>1 DEF AllFormed

\* A page of a save, good or bad.
LEMMA PageWritten ==
    ASSUME Sound, PagesInv, pc = "write", NEW page \in Page, page.st # "erased", Program(page)
    PROVE  /\ AllFormed' /\ Clear(flash'[mem.blk_addr], Target + 1)
           /\ \A b \in Blocks : \A p \in Starts : HeaderAt(flash'[b], p) =>
                \/ HeaderAt(flash[b], p) /\ flash'[b][p] = flash[b][p]
                \/ page.st = "data" /\ flash'[b][p] = page
           /\ \A b \in Blocks : AllTorn(flash[b]) => AllTorn(flash'[b])
           /\ mem.page_addr \in Starts /\ next \in 0 .. PageNum - 1 /\ Target \in Pages
           /\ \A b \in Blocks : b # mem.blk_addr => flash'[b] = flash[b]
           /\ \A p \in Pages : flash'[mem.blk_addr][p] = IF p = Target THEN page
                                                         ELSE flash[mem.blk_addr][p]
  <1> DEFINE c == mem.blk_addr
             s == mem.page_addr
             f == flash[c]
             g == flash'[c]
  <1>1. /\ Types /\ c \in Blocks /\ s \in Int /\ s >= 0 /\ Mult(s) /\ s + PageNum <= PagesPerBlk
        /\ next < PageNum /\ next \in Nat
    BY MemOK DEF Sound, Types, PcOK
  <1>2. s \in Starts /\ next \in 0 .. PageNum - 1
    <2>1. s \in 0 .. PagesPerBlk - 1 /\ next \in 0 .. PageNum - 1
      BY <1>1, Sizes
    <2> QED BY <2>1, <1>1 DEF Starts, Pages, Mult
  <1>3. Target = s + next /\ Target \in Pages
    BY <1>2, CopyFits DEF Target
  <1>4. /\ flash' \in [Blocks -> [Pages -> Page]] /\ flash \in [Blocks -> [Pages -> Page]]
        /\ \A b \in Blocks, p \in Pages :
             flash'[b][p] = IF b = c /\ p = Target THEN page ELSE flash[b][p]
    BY <1>1, Programmed DEF Types
  <1>5. /\ f \in BlockPages /\ g \in BlockPages
        /\ \A p \in Pages : g[p] = IF p = s + next THEN page ELSE f[p]
    BY <1>1, <1>3, <1>4 DEF BlockPages
  <1>6. \A b \in Blocks : b # c => flash'[b] = flash[b]
    <2> TAKE b \in Blocks
    <2> HAVE b # c
    <2>1. /\ flash'[b] \in [Pages -> Page] /\ flash[b] \in [Pages -> Page]
          /\ \A p \in Pages : flash'[b][p] = flash[b][p]
      BY <1>4
    <2> QED BY <2>1
  <1>7. /\ AllFormed /\ Clear(f, s + next)
        /\ \A j \in 0 .. next - 1 : f[s + j].st = "data"
    BY <1>3 DEF PagesInv, Current
  <1>8. Formed(f)
    BY <1>1, <1>7 DEF AllFormed
  <1> HIDE DEF c, s, f, g
  <1>9. /\ Formed(g) /\ Clear(g, s + next + 1)
        /\ \A p : HeaderAt(g, p) => \/ HeaderAt(f, p) /\ g[p] = f[p]
                                    \/ p = s + next /\ page.st = "data" /\ g[p] = page
        /\ AllTorn(f) => AllTorn(g)
    BY <1>2, <1>5, <1>7, <1>8, WritePage
  <1>10. AllFormed'
    <2>1. ASSUME NEW b \in Blocks PROVE Formed(flash'[b])
      BY <1>6, <1>7, <1>9 DEF AllFormed, c, g
    <2> QED BY <2>1 DEF AllFormed
  <1>11. ASSUME NEW b \in Blocks, NEW p \in Starts, HeaderAt(flash'[b], p)
         PROVE  \/ HeaderAt(flash[b], p) /\ flash'[b][p] = flash[b][p]
                \/ page.st = "data" /\ flash'[b][p] = page
    <2>1. CASE b = c
      BY <2>1, <1>9, <1>11 DEF c, f, g
    <2>2. CASE b # c
      BY <2>2, <1>6, <1>11
    <2> QED BY <2>1, <2>2
  <1>12. \A b \in Blocks : AllTorn(flash[b]) => AllTorn(flash'[b])
    BY <1>6, <1>9 DEF c, f, g
  <1>13. Clear(flash'[mem.blk_addr], Target + 1)
    BY <1>3, <1>9 DEF c, g
  <1>14. \A p \in Pages : flash'[mem.blk_addr][p] = IF p = Target THEN page
                                                    ELSE flash[mem.blk_addr][p]
    BY <1>3, <1>5 DEF c, f, g
  <1> QED BY <1>2, <1>3, <1>6, <1>10, <1>11, <1>12, <1>13, <1>14 DEF c, s

\* Timestamps grow, and the header of a block is written once.
LEMMA NewestKept ==
    ASSUME NEW S, NoneNewer(S), S \subseteq Blocks, Types, Types', mem.timestamp <= mem'.timestamp,
           \A b \in Blocks : \A p \in Starts : HeaderAt(flash'[b], p) =>
              \/ HeaderAt(flash[b], p) /\ flash'[b][p] = flash[b][p]
              \/ flash'[b][p].ts <= mem'.timestamp
    PROVE  \A b \in S : \A p \in Starts : HeaderAt(flash'[b], p) => flash'[b][p].ts <= mem'.timestamp
  <1> SUFFICES ASSUME NEW b \in S, NEW p \in Starts, HeaderAt(flash'[b], p)
               PROVE  flash'[b][p].ts <= mem'.timestamp
    OBVIOUS
  <1>1. CASE HeaderAt(flash[b], p) /\ flash'[b][p] = flash[b][p]
    <2>1. flash[b][p].ts <= mem.timestamp
      BY <1>1 DEF NoneNewer
    <2>2. flash[b][p] \in Page
      BY Sizes DEF Types
    <2>3. flash[b][p].ts \in Int
      BY <2>2, Sizes DEF Page
    <2>4. mem.timestamp \in Int /\ mem'.timestamp \in Int
      BY MemOK DEF Types, Mem
    <2> QED BY <1>1, <2>1, <2>3, <2>4
  <1> QED BY <1>1

-----------------------------------------------------------------------------
(* PagesInv: the scan.                                                     *)

LEMMA PagesInit == Init => PagesInv
  <1> SUFFICES ASSUME Init PROVE PagesInv
    OBVIOUS
  <1>1. AllFormed
    BY EmptyForms DEF Init, AllFormed
  <1>2. NoLastPage /\ pc = "off"
    BY DEF Init, NewScan, NoLastPage
  <1> QED BY <1>1, <1>2 DEF PagesInv

\* A round of the loop over the blocks.
LEMMA ScanRound ==
    ASSUME Sound, scan_block, NEW n \in Nat, n = scan.start, Scanned(n),
           NodeCount >= NBlocks
    PROVE  /\ Scanned(n + 1)'
           /\ pc' = (IF n + 1 < NBlocks THEN "scan" ELSE "select")
           /\ scan'.good = scan.good
           /\ scan'.start = IF n + 1 < NBlocks THEN n + 1 ELSE 0
           /\ flash' = flash /\ bad' = bad /\ fails' = fails /\ n < NBlocks
  <1> DEFINE m == [mem EXCEPT !.abnormal = FALSE]
             new == Visit(m, n)
             h == Header(n)
             t == mem.timestamp
             f == flash[n]
             c == mem.blk_addr
  <1>1. /\ Types /\ n \in Blocks /\ n < NBlocks /\ mem \in Mem /\ mem.nfree \in Seq(Blocks)
        /\ t \in Nat /\ c \in Blocks \cup {NoBlock} /\ Lists \subseteq Blocks
        /\ Len(mem.nfree) \in Nat
        /\ scan \in [good : SUBSET Pages, incomplete : BOOLEAN, start : Blocks]
        /\ flash' = flash /\ bad' = bad /\ fails' = fails
    <2>1. Types /\ scan.start \in Blocks
      BY DEF Sound, Types
    <2>2. /\ mem \in Mem /\ mem.nfree \in Seq(Blocks) /\ t \in Nat /\ c \in Blocks \cup {NoBlock}
          /\ Len(mem.nfree) \in Nat
      BY <2>1, MemOK
    <2>3. Range(mem.nfree) \subseteq Blocks
      BY <2>2, MemFields
    <2>4. n < NBlocks
      BY <2>1, Sizes DEF Blocks
    <2>5. flash' = flash /\ bad' = bad /\ fails' = fails
      BY DEF scan_block
    <2>6. scan \in [good : SUBSET Pages, incomplete : BOOLEAN, start : Blocks]
      BY <2>1 DEF Types
    <2> QED BY <2>1, <2>2, <2>3, <2>4, <2>5, <2>6 DEF Lists
  <1>2. /\ m \in Mem /\ m.blk_addr = c
        /\ m.page_addr = mem.page_addr /\ m.timestamp = t /\ m.nfree = mem.nfree
    BY <1>1 DEF Mem
  <1>3. NodeLeft(mem.nfree)
    <2>1. Len(mem.nfree) <= n
      BY <1>1 DEF Scanned
    <2> QED BY <2>1, <1>1, Sizes DEF NodeLeft
  <1>4. /\ pc' = (IF n + 1 < NBlocks THEN "scan" ELSE "select")
        /\ scan' = [scan EXCEPT !.start = IF n + 1 < NBlocks THEN n + 1 ELSE 0]
        /\ \/ Readable(n) = {} /\ mem' = mem
           \/ Readable(n) # {} /\ mem' = new
    BY <1>3 DEF scan_block
  <1>5. scan'.good = scan.good /\ scan'.start = IF n + 1 < NBlocks THEN n + 1 ELSE 0
    BY <1>1, <1>4
  <1> HIDE DEF m, f
  <1>6. /\ Readable(n) = {} <=> AllTorn(f)
        /\ Readable(n) # {} /\ h.st = "data" => \E p \in Starts : HeaderAt(f, p) /\ h = f[p]
        /\ \A p \in Starts : HeaderAt(f, p) => Readable(n) # {} /\ h = f[p] /\ h.st = "data"
    BY <1>1, HeaderLink DEF f
  <1>7. /\ \A b \in 0 .. n : b \in 0 .. n - 1 \/ b = n
        /\ n \in Int /\ 0 .. n = 0 .. (n + 1) - 1
    BY <1>1
  <1>8. /\ Reach(0 .. n - 1) /\ NoneNewer(0 .. n - 1)
        /\ Len(mem.nfree) <= n /\ (c # NoBlock => Len(mem.nfree) < n)
        /\ \A b \in Lists : b < n
        /\ c < n /\ Unlike(mem.nfree) /\ c \notin Lists
        /\ c = NoBlock => t = 0
        /\ c # NoBlock => HasHeader(c) /\ mem.page_addr = 0
    BY DEF Scanned
  <1>9. \A b \in Lists \cup {c} : b < n + 1 /\ b # n /\ b \in Int
    BY <1>1, <1>8, Sizes DEF NoBlock
  <1>10. \A b \in 0 .. n - 1 : \A p \in Starts :
           HeaderAt(flash[b], p) => flash[b][p].ts <= t /\ flash[b][p].ts \in Nat
    <2> SUFFICES ASSUME NEW b \in 0 .. n - 1, NEW p \in Starts, HeaderAt(flash[b], p)
                 PROVE  flash[b][p].ts <= t /\ flash[b][p].ts \in Nat
      OBVIOUS
    <2>1. b \in Blocks /\ p \in Pages
      BY <1>1, Sizes DEF Blocks
    <2>2. flash[b][p].ts \in Nat
      BY <2>1, <1>1, Sizes DEF Types, Page
    <2> QED BY <2>2, <1>8 DEF NoneNewer
  \* What has to be shown of the new record.
  <1> DEFINE r == mem'
             R(l, x, y, pg) ==
               /\ \A b \in 0 .. n : b \in Range(l) \/ b = x \/ Lost(b)
               /\ \A b \in 0 .. n : \A p \in Starts : HeaderAt(flash[b], p) => flash[b][p].ts <= y
               /\ Len(l) <= n + 1 /\ (x # NoBlock => Len(l) < n + 1)
               /\ \A b \in Range(l) : b < n + 1
               /\ x < n + 1
               /\ Unlike(l) /\ x \notin Range(l)
               /\ x = NoBlock => y = 0
               /\ x # NoBlock => HasHeader(x) /\ pg = 0
  <1>11. R(r.nfree, r.blk_addr, r.timestamp, r.page_addr) => Scanned(n + 1)'
    BY <1>1, <1>7 DEF Scanned, Reach, NoneNewer, Lists, Lost, HasHeader
  <1>12. CASE Readable(n) = {} /\ mem' = mem
    <2>1. Lost(n) /\ \A p \in Starts : ~HeaderAt(flash[n], p)
      BY <1>6, <1>12 DEF Lost, f
    <2>2. \A b \in 0 .. n : b \in Range(mem.nfree) \/ b = c \/ Lost(b)
      BY <2>1, <1>7, <1>8 DEF Reach, Lists
    <2>3. \A b \in 0 .. n : \A p \in Starts : HeaderAt(flash[b], p) => flash[b][p].ts <= t
      BY <2>1, <1>7, <1>10
    <2>4. Len(mem.nfree) < n + 1
      BY <1>1, <1>8
    <2>5. R(mem.nfree, c, t, mem.page_addr)
      BY <2>2, <2>3, <2>4, <1>8, <1>9 DEF Lists
    <2> HIDE DEF R
    <2> QED BY <2>5, <1>1, <1>4, <1>5, <1>11, <1>12
  <1>13. CASE Readable(n) # {} /\ mem' = new
    <2>1. /\ h \in Page /\ h.ts \in Nat /\ new \in Mem
          /\ h.st # "data" =>
               /\ new.blk_addr = c /\ new.page_addr = mem.page_addr
               /\ new.timestamp = t /\ new.nfree = Append(mem.nfree, n)
          /\ h.st = "data" /\ c = NoBlock =>
               /\ new.blk_addr = n /\ new.page_addr = 0
               /\ new.timestamp = h.ts /\ new.nfree = mem.nfree
          /\ h.st = "data" /\ c # NoBlock /\ h.ts > t =>
               /\ new.blk_addr = n /\ new.page_addr = 0
               /\ new.timestamp = h.ts /\ new.nfree = Append(mem.nfree, c)
          /\ h.st = "data" /\ c # NoBlock /\ ~(h.ts > t) =>
               /\ new.blk_addr = c /\ new.page_addr = mem.page_addr
               /\ new.timestamp = t /\ new.nfree = Append(mem.nfree, n)
      <3>1. /\ h \in Page /\ h.ts \in Nat /\ new \in Mem
            /\ h.st # "data" =>
                 /\ new.blk_addr = m.blk_addr /\ new.page_addr = m.page_addr
                 /\ new.timestamp = m.timestamp /\ new.nfree = Append(m.nfree, n)
            /\ h.st = "data" /\ m.blk_addr = NoBlock =>
                 /\ new.blk_addr = n /\ new.page_addr = 0
                 /\ new.timestamp = h.ts /\ new.nfree = m.nfree
            /\ h.st = "data" /\ m.blk_addr # NoBlock /\ h.ts > m.timestamp =>
                 /\ new.blk_addr = n /\ new.page_addr = 0
                 /\ new.timestamp = h.ts /\ new.nfree = Append(m.nfree, m.blk_addr)
            /\ h.st = "data" /\ m.blk_addr # NoBlock /\ ~(h.ts > m.timestamp) =>
                 /\ new.blk_addr = m.blk_addr /\ new.page_addr = m.page_addr
                 /\ new.timestamp = m.timestamp /\ new.nfree = Append(m.nfree, n)
        <4> HIDE DEF t, c, R
        <4>1. Types /\ m \in Mem /\ n \in Blocks /\ Readable(n) # {}
          BY <1>1, <1>2, <1>13
        <4> QED BY <4>1, VisitFields
      <3> HIDE DEF new, h, t, c
      <3> QED BY <3>1, <1>1, <1>2
    <2> HIDE DEF new, h, t, c
    <2>2. /\ Range(Append(mem.nfree, n)) = Lists \cup {n} /\ Unlike(Append(mem.nfree, n))
          /\ Len(Append(mem.nfree, n)) = Len(mem.nfree) + 1
      BY <1>1, <1>8, <1>9, AppendList DEF Lists
    <2>3. c # NoBlock => /\ c \in Blocks /\ Range(Append(mem.nfree, c)) = Lists \cup {c}
                         /\ Unlike(Append(mem.nfree, c))
                         /\ Len(Append(mem.nfree, c)) = Len(mem.nfree) + 1
      BY <1>1, <1>8, AppendList DEF Lists
    <2>4. n # NoBlock /\ n < n + 1
      BY <1>1, Sizes
    <2>5. h.st = "data" => HasHeader(n) /\ \A p \in Starts : HeaderAt(flash[n], p) => flash[n][p] = h
      BY <1>6, <1>13 DEF HasHeader, f
    <2>6. h.st # "data" => \A p \in Starts : ~HeaderAt(flash[n], p)
      BY <1>6 DEF f
    <2>7. CASE h.st # "data"
      <3>1. \A b \in 0 .. n : b \in Lists \cup {n} \/ b = c \/ Lost(b)
        BY <1>7, <1>8 DEF Reach, c
      <3>2. \A b \in 0 .. n : \A p \in Starts : HeaderAt(flash[b], p) => flash[b][p].ts <= t
        BY <2>6, <2>7, <1>7, <1>10
      <3>3. Len(mem.nfree) + 1 <= n + 1 /\ (c # NoBlock => Len(mem.nfree) + 1 < n + 1)
        BY <1>1, <1>8
      <3>4. R(Append(mem.nfree, n), c, t, mem.page_addr)
        BY <2>2, <2>4, <3>1, <3>2, <3>3, <1>8, <1>9
      <3> HIDE DEF R
      <3>5. R(new.nfree, new.blk_addr, new.timestamp, new.page_addr)
        BY <2>1, <2>7, <3>4
      <3> QED BY <3>5, <1>1, <1>4, <1>5, <1>11, <1>13
    <2>8. CASE h.st = "data" /\ c = NoBlock
      <3>1. \A b \in 0 .. n : b \in Lists \/ b = n \/ Lost(b)
        BY <2>8, <1>7, <1>8, Sizes DEF Reach, c, Blocks, NoBlock
      <3>2. \A b \in 0 .. n : \A p \in Starts : HeaderAt(flash[b], p) => flash[b][p].ts <= h.ts
        <4>1. t = 0
          BY <2>8, <1>8
        <4>2. ASSUME NEW b \in 0 .. n - 1, NEW p \in Starts, HeaderAt(flash[b], p)
              PROVE  flash[b][p].ts <= h.ts
          BY <4>1, <4>2, <2>1, <1>10
        <4>3. h.ts <= h.ts
          BY <2>1
        <4> QED BY <4>2, <4>3, <2>5, <2>8, <1>7
      <3>3. Len(mem.nfree) < n + 1
        BY <1>1, <1>8, <2>8
      <3>4. n \notin Lists
        BY <1>9
      <3>5. R(mem.nfree, n, h.ts, 0)
        BY <2>4, <2>5, <2>8, <3>1, <3>2, <3>3, <3>4, <1>8, <1>9 DEF Lists
      <3> HIDE DEF R
      <3>6. R(new.nfree, new.blk_addr, new.timestamp, new.page_addr)
        BY <2>1, <2>8, <3>5
      <3> QED BY <3>6, <1>1, <1>4, <1>5, <1>11, <1>13
    <2>9. CASE h.st = "data" /\ c # NoBlock /\ h.ts > t
      <3>1. \A b \in 0 .. n : b \in Lists \cup {c} \/ b = n \/ Lost(b)
        BY <1>7, <1>8 DEF Reach, c
      <3>2. \A b \in 0 .. n : \A p \in Starts : HeaderAt(flash[b], p) => flash[b][p].ts <= h.ts
        <4>1. ASSUME NEW b \in 0 .. n - 1, NEW p \in Starts, HeaderAt(flash[b], p)
              PROVE  flash[b][p].ts <= h.ts
          BY <4>1, <2>1, <2>9, <1>1, <1>10
        <4>2. h.ts <= h.ts
          BY <2>1
        <4> QED BY <4>1, <4>2, <2>5, <2>9, <1>7
      <3>3. Len(mem.nfree) + 1 < n + 1
        BY <1>1, <1>8, <2>9
      <3>4. n \notin Lists \cup {c}
        BY <1>9
      <3>5. R(Append(mem.nfree, c), n, h.ts, 0)
        BY <2>3, <2>4, <2>5, <2>9, <3>1, <3>2, <3>3, <3>4, <1>8, <1>9
      <3> HIDE DEF R
      <3>6. R(new.nfree, new.blk_addr, new.timestamp, new.page_addr)
        BY <2>1, <2>9, <3>5
      <3> QED BY <3>6, <1>1, <1>4, <1>5, <1>11, <1>13
    <2>10. CASE h.st = "data" /\ c # NoBlock /\ ~(h.ts > t)
      <3>1. \A b \in 0 .. n : b \in Lists \cup {n} \/ b = c \/ Lost(b)
        BY <1>7, <1>8 DEF Reach, c
      <3>2. \A b \in 0 .. n : \A p \in Starts : HeaderAt(flash[b], p) => flash[b][p].ts <= t
        <4>1. h.ts <= t
          BY <2>1, <2>10, <1>1
        <4> QED BY <4>1, <2>5, <2>10, <1>7, <1>10
      <3>3. Len(mem.nfree) + 1 < n + 1
        BY <1>1, <1>8, <2>10
      <3>4. HasHeader(c) /\ mem.page_addr = 0
        BY <2>10, <1>8
      <3>5. R(Append(mem.nfree, n), c, t, mem.page_addr)
        BY <2>2, <2>4, <3>1, <3>2, <3>3, <3>4, <1>8, <1>9
      <3> HIDE DEF R
      <3>6. R(new.nfree, new.blk_addr, new.timestamp, new.page_addr)
        BY <2>1, <2>10, <3>5
      <3> QED BY <3>6, <1>1, <1>4, <1>5, <1>11, <1>13
    <2> QED BY <2>7, <2>8, <2>9, <2>10
  <1> QED BY <1>4, <1>12, <1>13

\* A scan that a read begins does not leave the valid copy.
LEMMA ResumeRound ==
    ASSUME Sound, scan_block, Resume
    PROVE  Resume' /\ flash' = flash /\ scan'.good \in {scan.good, {}}
           /\ pc' \in {"scan", "select", "idle"}
  <1> DEFINE n == scan.start
             m == [mem EXCEPT !.abnormal = FALSE]
             new == Visit(m, n)
             h == Header(n)
  <1>1. /\ Types /\ n \in Blocks /\ mem \in Mem /\ mem.valid /\ mem.blk_addr \in Blocks
        /\ mem.timestamp \in Nat /\ NoneNewer(Blocks)
    BY MemOK DEF Sound, Types, PcOK, Resume
  <1>2. /\ m \in Mem /\ m.valid /\ m.blk_addr = mem.blk_addr
        /\ m.page_addr = mem.page_addr /\ m.timestamp = mem.timestamp /\ m.nfree = mem.nfree
    BY <1>1 DEF Mem
  <1>3. scan \in [good : SUBSET Pages, incomplete : BOOLEAN, start : Blocks]
    BY <1>1 DEF Types
  <1>4. /\ flash' = flash /\ fails' = fails
        /\ \/ mem' = mem
           \/ Readable(n) # {} /\ mem' = new
           \/ mem' = [m EXCEPT !.valid = @ \/ h.st = "data"]
    BY DEF scan_block
  <1>5. scan'.good \in {scan.good, {}} /\ pc' \in {"scan", "select", "idle"}
    <2>1. \/ scan' = NewScan
          \/ \E x : scan' = [scan EXCEPT !.start = x]
      BY DEF scan_block
    <2>2. pc' \in {"scan", "select", "idle"}
      BY DEF scan_block
    <2>3. ASSUME NEW x PROVE [scan EXCEPT !.start = x].good = scan.good
      BY <1>3
    <2>4. NewScan.good = {}
      BY DEF NewScan
    <2> QED BY <2>1, <2>2, <2>3, <2>4
  <1> HIDE DEF m, n
  <1> DEFINE same == /\ mem'.valid /\ mem'.blk_addr = mem.blk_addr
                     /\ mem'.page_addr = mem.page_addr /\ mem'.timestamp = mem.timestamp
  <1>6. ASSUME mem' = mem PROVE same
    BY <1>1, <1>6
  <1>7. ASSUME Readable(n) # {}, mem' = new PROVE same
    <2>1. m.blk_addr # NoBlock
      BY <1>1, <1>2, Sizes
    <2>2. h.st = "data" => ~(h.ts > m.timestamp)
      <3>1. SUFFICES ASSUME h.st = "data" PROVE ~(h.ts > m.timestamp)
        OBVIOUS
      <3>2. PICK p \in Starts : HeaderAt(flash[n], p) /\ h = flash[n][p]
        BY <1>1, <1>7, <3>1, HeaderLink
      <3>3. h.ts <= mem.timestamp
        BY <3>2, <1>1 DEF NoneNewer
      <3>4. h.ts \in Nat
        BY <1>1, <1>2, <1>7, VisitFields
      <3> HIDE DEF h
      <3> QED BY <3>3, <3>4, <1>1, <1>2
    <2>3. /\ h.st # "data" =>
               /\ new.valid = m.valid /\ new.blk_addr = m.blk_addr /\ new.page_addr = m.page_addr
               /\ new.timestamp = m.timestamp
          /\ h.st = "data" /\ m.blk_addr # NoBlock /\ ~(h.ts > m.timestamp) =>
               /\ new.valid /\ new.blk_addr = m.blk_addr
               /\ new.page_addr = m.page_addr /\ new.timestamp = m.timestamp
      <3>1. Types /\ m \in Mem /\ n \in Blocks /\ Readable(n) # {}
        BY <1>1, <1>2, <1>7
      <3> QED BY <3>1, VisitFields
    <2> HIDE DEF new, h
    <2>4. new.valid /\ new.blk_addr = m.blk_addr /\ new.page_addr = m.page_addr
          /\ new.timestamp = m.timestamp
      BY <2>1, <2>2, <2>3, <1>2
    <2> QED BY <2>4, <1>2, <1>7
  <1>8. ASSUME mem' = [m EXCEPT !.valid = @ \/ h.st = "data"] PROVE same
    BY <1>2, <1>8 DEF Mem
  <1>9. same
    BY <1>4, <1>6, <1>7, <1>8
  <1>10. Resume'
    <2>1. \A b \in Blocks : \A p \in Starts : HeaderAt(flash[b], p) => flash[b][p].ts <= mem'.timestamp
      BY <1>1, <1>9 DEF NoneNewer
    <2>2. TornAt(Current, mem.page_addr) /\ NextClear /\ fails > 0
      BY DEF Resume
    <2> QED BY <2>1, <2>2, <1>4, <1>9 DEF Resume, NoneNewer, NextClear, Current, Room
  <1> QED BY <1>4, <1>5, <1>10

LEMMA PagesScan ==
    ASSUME Sound, Sound', PagesInv, scan_block, NodeCount >= NBlocks
    PROVE  PagesInv'
  <1>1. AllFormed /\ NoLastPage /\ (Scanned(scan.start) \/ Resume)
    BY DEF PagesInv, scan_block
  <1>2. CASE Scanned(scan.start)
    <2>1. PICK n \in Nat : n = scan.start
      BY Sizes DEF Sound, Types
    <2>2. Scanned(n)
      BY <2>1, <1>2
    <2>3. /\ Scanned(n + 1)'
          /\ pc' = (IF n + 1 < NBlocks THEN "scan" ELSE "select")
          /\ scan'.good = scan.good
          /\ scan'.start = IF n + 1 < NBlocks THEN n + 1 ELSE 0
          /\ flash' = flash
      BY <2>1, <2>2, ScanRound
    <2>4. AllFormed' /\ NoLastPage'
      BY <1>1, <2>3 DEF AllFormed, NoLastPage
    <2>5. ASSUME pc' = "scan" PROVE Scanned(scan.start)'
      <3>1. scan'.start = n + 1
        BY <2>3, <2>5
      <3> QED BY <2>3, <3>1 DEF Scanned
    <2>6. ASSUME pc' = "select", mem'.valid
          PROVE  HasHeader(mem.blk_addr)' /\ mem'.page_addr = 0
      <3>1. mem'.blk_addr # NoBlock
        BY <2>6, Sizes DEF Sound, PcOK
      <3> QED BY <3>1, <2>3 DEF Scanned
    <2>7. pc' \in {"scan", "select"}
      BY <2>3
    <2> QED BY <2>4, <2>5, <2>6, <2>7 DEF PagesInv
  <1>3. CASE Resume
    <2>1. Resume' /\ flash' = flash /\ scan'.good \in {scan.good, {}}
          /\ pc' \in {"scan", "select", "idle"}
      BY <1>3, ResumeRound
    <2>2. AllFormed' /\ NoLastPage'
      BY <1>1, <2>1 DEF AllFormed, NoLastPage
    <2>3. NextClear'
      BY <2>1 DEF Resume
    <2> QED BY <2>1, <2>2, <2>3 DEF PagesInv
  <1> QED BY <1>1, <1>2, <1>3

\* Every good page that ends a copy has the rest of the copy before it.
LEMMA CopyBefore ==
    ASSUME Types, NEW b \in Blocks, Formed(flash[b]), NEW s \in Starts,
           s + PageNum - 1 \in Good(b)
    PROVE  /\ \A k \in 0 .. PageNum - 1 : s + k \in Good(b) /\ flash[b][s + k].st = "data"
           /\ \A p \in Pages : p <= s + PageNum - 1 => p \in Seen(b)
  <1> DEFINE f == flash[b]
             e == s + PageNum - 1
  <1>1. e \in Pages /\ e \in Int /\ s \in Int /\ f[e].st = "data" /\ e \in Seen(b)
    <2>1. e \in Seen(b) /\ f[e].st = "data"
      BY DEF Good
    <2>2. e \in Pages
      BY <2>1 DEF Seen
    <2> QED BY <2>1, <2>2, Sizes
  <1>2. e = s + (PageNum - 1) /\ PageNum - 1 \in 0 .. PageNum - 1
    BY Sizes
  <1>3. \A k \in 0 .. PageNum - 1 : f[s + k].st = "data"
    <2>1. f[s + (PageNum - 1)].st = "data"
      BY <1>1
    <2>2. CopyInOrder(f)
      BY DEF Formed
    <2> HIDE DEF f, e
    <2> QED BY <2>1, <2>2, <1>2 DEF CopyInOrder
  <1>4. \A p \in Pages : p <= e => p \in Seen(b)
    <2> SUFFICES ASSUME NEW p \in Pages, p <= e, NEW q \in 0 .. p
                 PROVE  f[q].st # "erased"
      BY DEF Seen
    <2>1. q \in 0 .. e
      BY <1>1, Sizes
    <2> QED BY <2>1, <1>1 DEF Seen
  <1>5. \A k \in 0 .. PageNum - 1 : s + k \in Pages /\ s + k <= e
    BY <1>1, CopyFits, Sizes
  <1> QED BY <1>3, <1>4, <1>5 DEF Good

LEMMA PagesSelect ==
    ASSUME Sound, PagesInv, select_copy
    PROVE  PagesInv'
  <1> DEFINE b == mem.blk_addr
             f == flash[b]
             last == IF Good(b) = {} THEN mem.page_addr ELSE Highest(Good(b))
             cutoff == (last + 1) % PageNum # 0
             good == scan.good \cup Good(b)
             copies == {p \in Starts : \A k \in 0 .. PageNum - 1 : p + k \in good}
             retry == cutoff \/ scan.incomplete
             page == IF retry THEN Highest(copies) ELSE last - (PageNum - 1)
             ab == cutoff \/ Seen(b) # Good(b)
  <1>1. /\ Types /\ AllFormed /\ NoLastPage /\ flash' = flash /\ fails' = fails
        /\ mem \in Mem /\ mem.page_addr \in Int
        /\ mem.valid => /\ b \in Blocks /\ mem.page_addr >= 0 /\ Mult(mem.page_addr)
                        /\ (HasHeader(b) /\ mem.page_addr = 0) \/ Resume
    BY MemOK DEF Sound, Types, PcOK, PagesInv, select_copy
  <1>2. AllFormed'
    BY <1>1 DEF AllFormed
  <1>3. Good(b) \subseteq Pages /\ good \subseteq Pages /\ copies \subseteq Starts
        /\ copies \subseteq Pages
    BY <1>1, Sizes DEF Good, Seen, Types
  <1>4. \/ ~mem.valid /\ pc' = "idle" /\ scan' = NewScan /\ mem' = mem
        \/ /\ mem.valid /\ (retry => copies # {}) /\ mem' = Chosen(mem, page, ab)
           /\ pc' = "idle" /\ scan' = NewScan
        \/ /\ mem.valid /\ copies = {} /\ scan' = [good |-> good, incomplete |-> TRUE, start |-> 0]
           /\ pc' = "free" /\ mem' = mem
    BY DEF select_copy, Chosen
  \* The last page of a copy is of this block, and has its copy before it.
  <1>5. ASSUME mem.valid, NEW s \in Starts, s + PageNum - 1 \in Good(b)
        PROVE  s \in copies /\ (\A k \in 0 .. PageNum - 1 : f[s + k].st = "data")
               /\ \A p \in Pages : p <= s + PageNum - 1 => p \in Seen(b)
    <2>1. b \in Blocks /\ Formed(flash[b])
      BY <1>1, <1>5 DEF AllFormed
    <2> QED BY <2>1, <1>1, <1>5, CopyBefore
  <1>6. ASSUME NEW s \in copies
        PROVE  s \in Starts /\ s + PageNum - 1 \in Good(b)
    <2>1. PageNum - 1 \in 0 .. PageNum - 1 /\ s + PageNum - 1 = s + (PageNum - 1)
      BY Sizes
    <2>2. s \in Starts /\ s + PageNum - 1 \in good
      BY <2>1, <1>6
    <2>3. s + PageNum - 1 \notin scan.good
      BY <2>2, <1>1 DEF NoLastPage
    <2> QED BY <2>2, <2>3
  <1>7. NewScan.good = {}
    BY DEF NewScan
  <1> HIDE DEF b, f, last, good, copies
  <1>8. CASE ~mem.valid /\ pc' = "idle" /\ scan' = NewScan /\ mem' = mem
    BY <1>2, <1>7, <1>8 DEF PagesInv, NoLastPage
  <1>9. CASE /\ mem.valid /\ copies = {}
             /\ scan' = [good |-> good, incomplete |-> TRUE, start |-> 0]
             /\ pc' = "free" /\ mem' = mem
    <2>1. \A s \in Starts : s + PageNum - 1 \notin Good(b)
      BY <1>5, <1>9
    <2>2. \A s \in Starts : s + PageNum - 1 \notin good
      BY <2>1, <1>1 DEF NoLastPage, good
    <2> QED BY <2>2, <1>2, <1>9 DEF PagesInv, NoLastPage
  <1>10. CASE /\ mem.valid /\ (retry => copies # {}) /\ mem' = Chosen(mem, page, ab)
              /\ pc' = "idle" /\ scan' = NewScan
    <2>1. last \in Int /\ (Good(b) # {} => last \in Good(b) /\ \A p \in Good(b) : p <= last)
      <3>1. CASE Good(b) = {}
        BY <3>1, <1>1 DEF last
      <3>2. CASE Good(b) # {}
        <4>1. Highest(Good(b)) \in Good(b) /\ \A q \in Good(b) : q <= Highest(Good(b))
          BY <3>2, <1>3, Greatest
        <4>2. last = Highest(Good(b))
          BY <3>2 DEF last
        <4>3. Highest(Good(b)) \in Pages
          BY <4>1, <1>3
        <4>4. last \in Int
          BY <4>2, <4>3, PageRange
        <4> QED BY <4>1, <4>2, <4>4
      <3> QED BY <3>1, <3>2
    <2>2. copies # {} => Highest(copies) \in copies /\ \A q \in copies : q <= Highest(copies)
      BY <1>3, Greatest
    \* Without a cut, the copy before the last good page is whole.
    <2>3. ASSUME Good(b) # {}, ~cutoff
          PROVE  /\ last - (PageNum - 1) \in copies
                 /\ \A q \in copies : q <= last - (PageNum - 1)
      <3> DEFINE s == last - (PageNum - 1)
      <3>1. last \in Pages /\ last \in Nat
        BY <2>1, <2>3, <1>3, Sizes
      <3>2. s \in Starts
        <4> DEFINE n == last + 1
        <4>1. n \in Int /\ Mult(n) /\ n > 0 /\ s = n - PageNum /\ 0 \in Int
          BY <2>3, <3>1, Sizes DEF Mult
        <4> HIDE DEF n
        <4>2. 0 + PageNum <= n
          BY <4>1, MultSteps
        <4>3. Mult(n - PageNum)
          BY <4>1, MultBack
        <4>4. s \in Pages
          BY <4>1, <4>2, <3>1, Sizes DEF Pages
        <4> QED BY <4>1, <4>3, <4>4 DEF Starts, Mult
      <3>3. s + PageNum - 1 = last
        BY <3>1, Sizes
      <3>4. s \in copies
        BY <3>2, <3>3, <2>1, <2>3, <1>5, <1>10
      <3>5. ASSUME NEW q \in copies PROVE q <= s
        <4>1. q + PageNum - 1 \in Good(b) /\ q \in Starts
          BY <1>6
        <4>2. q + PageNum - 1 <= last
          BY <4>1, <2>1, <2>3
        <4>3. q \in Int
          BY <4>1, Sizes
        <4> QED BY <4>2, <4>3, <3>1, Sizes
      <3> QED BY <3>4, <3>5
    \* Either a whole copy is chosen, or nothing changes.
    <2>4. page \in copies \/ (page = mem.page_addr /\ Resume)
      <3>1. CASE retry
        BY <3>1, <2>2, <1>10
      <3>2. CASE ~retry /\ Good(b) # {}
        BY <3>2, <2>3
      <3>3. CASE ~retry /\ Good(b) = {}
        <4>1. Mult(last + 1) /\ last = mem.page_addr /\ Mult(last) /\ last >= 0 /\ last + 1 \in Int
          BY <3>3, <2>1, <1>1, <1>10 DEF last, Mult
        <4>2. PageNum = 1
          <5> DEFINE n == last + 1
          <5>1. n \in Int /\ Mult(n) /\ last < n
            BY <4>1, <2>1
          <5> HIDE DEF n
          <5>2. last + PageNum <= n
            BY <5>1, <4>1, <2>1, MultSteps
          <5> QED BY <5>2, <2>1, Sizes DEF n
        <4>3. page = mem.page_addr
          BY <4>1, <4>2, <3>3, <2>1
        <4>4. ~HasHeader(b)
          <5> SUFFICES ASSUME NEW p \in Starts, HeaderAt(f, p) PROVE FALSE
            BY DEF HasHeader, f
          <5>1. Starts = Pages
            <6>1. \A q \in Pages : q % PageNum = 0
              BY <4>2, Sizes
            <6> QED BY <6>1 DEF Starts
          <5>2. f[p].st = "data" /\ p \in Pages /\ \A q \in Pages : q < p => f[q].st = "torn"
            BY <5>1 DEF HeaderAt
          <5>3. \A q \in 0 .. p : f[q].st # "erased"
            <6>1. \A q \in 0 .. p : q \in Pages /\ (q < p \/ q = p)
              BY <5>2, Sizes DEF Pages
            <6> QED BY <6>1, <5>2
          <5>4. p \in Good(b)
            BY <5>2, <5>3 DEF Good, Seen, f
          <5> QED BY <5>4, <3>3
        <4>5. HasHeader(b) \/ Resume
          BY <1>1, <1>10 DEF b
        <4> QED BY <4>3, <4>4, <4>5
      <3> QED BY <3>1, <3>2, <3>3
    <2>5. page \in -1 .. PagesPerBlk + PageNum /\ ab \in BOOLEAN
      <3>1. page \in copies => page \in -1 .. PagesPerBlk + PageNum
        BY <1>3, PageRange
      <3> QED BY <3>1, <2>4, <1>1, MemOK
    <2> HIDE DEF page, ab, retry, cutoff
    <2>6. /\ mem'.valid /\ mem'.blk_addr = b /\ mem'.page_addr = page
          /\ mem'.abnormal = ab /\ mem'.timestamp = mem.timestamp
      BY <2>5, <1>1, <1>10, ChosenFields DEF b
    <2>7. CASE page \in copies
      <3>1. page \in Starts /\ page + PageNum - 1 \in Good(b)
        BY <2>7, <1>6
      <3>2. /\ \A k \in 0 .. PageNum - 1 : f[page + k].st = "data"
            /\ \A p \in Pages : p <= page + PageNum - 1 => p \in Seen(b)
        BY <3>1, <1>5, <1>10
      <3>3. ~TornAt(f, page)
        BY <3>2 DEF TornAt
      <3>4. ASSUME ~ab PROVE Clear(f, page + PageNum)
        <4>1. ~cutoff /\ Seen(b) = Good(b)
          BY <3>4 DEF ab
        <4>2. Good(b) # {}
          BY <3>1
        <4>3. last - (PageNum - 1) = page
          <5>1. /\ last - (PageNum - 1) \in copies
                /\ \A q \in copies : q <= last - (PageNum - 1)
            BY <4>1, <4>2, <2>3
          <5>2. page \in Int
            BY <3>1, Sizes
          <5>3. CASE retry
            <6>1. page = Highest(copies)
              BY <5>3 DEF page
            <6>2. last - (PageNum - 1) <= page
              BY <5>1, <6>1, <2>2
            <6>3. page <= last - (PageNum - 1)
              BY <5>1, <2>7
            <6> QED BY <6>2, <6>3, <5>2, <2>1, Sizes
          <5>4. CASE ~retry
            BY <5>4 DEF page
          <5> QED BY <5>3, <5>4
        <4>4. page + PageNum = last + 1
          BY <4>3, <2>1, Sizes
        <4>5. \A p \in Pages : p <= last => p \in Seen(b)
          <5>1. page + PageNum - 1 = last
            BY <4>3, <2>1, Sizes
          <5> QED BY <5>1, <3>2
        <4>6. \A p \in Pages : p <= last => f[p].st = "data"
          BY <4>5, <4>1 DEF Good, f
        <4>7. \A p \in Seen(b) : p <= last
          BY <4>1, <4>2, <2>1
        <4>8. last \in Pages /\ last \in Nat
          BY <2>1, <4>2, <1>3, Sizes
        <4>9. ASSUME NEW p \in Pages, p >= last + 1 PROVE f[p].st = "erased"
          <5>1. p \in Nat /\ last < p
            BY <4>8, <4>9, Sizes
          <5>2. p \notin Seen(b)
            BY <5>1, <4>7, <4>8
          <5>3. PICK q \in 0 .. p : f[q].st = "erased"
            BY <5>2 DEF Seen, f
          <5>4. q \in Pages /\ q \in Nat /\ q <= p
            BY <5>1, <5>3, <4>9, Sizes DEF Pages
          <5>5. CASE q = p
            BY <5>5, <5>3
          <5>6. CASE q # p
            <6>1. q < p /\ ~(q <= last)
              BY <5>4, <5>6, <5>3, <4>6, <5>1
            <6>2. \A r \in Pages : r < q /\ f[r].st = "torn" => FALSE
              <7> SUFFICES ASSUME NEW r \in Pages, r < q, f[r].st = "torn" PROVE FALSE
                OBVIOUS
              <7> DEFINE x == last + 1
              \* The first page after the last good one is erased, so none after it is torn.
              <7>1. ~(r <= last)
                BY <4>6
              <7>2. r \in Nat /\ x \in Pages /\ x <= r /\ last < x
                BY <7>1, <4>8, <5>4, Sizes DEF Pages
              <7>3. f[x].st = "erased"
                <8>1. x \notin Seen(b)
                  BY <7>2, <4>7, <4>8
                <8>2. PICK y \in 0 .. x : f[y].st = "erased"
                  BY <8>1, <7>2 DEF Seen, f
                <8>3. y \in Pages /\ (y = x \/ y <= last)
                  BY <8>2, <7>2, <4>8, Sizes DEF Pages
                <8> QED BY <8>2, <8>3, <4>6
              <7>4. x < r
                BY <7>2, <7>3, <4>8
              <7>5. InOrder(f)
                BY <1>1, <1>10 DEF AllFormed, Formed, f
              <7>6. PICK z \in Pages : z < x /\ f[z].st = "torn"
                BY <7>2, <7>3, <7>4, <7>5 DEF InOrder
              <7>7. z <= last
                BY <7>2, <7>6, <4>8, Sizes
              <7> QED BY <7>6, <7>7, <4>6
            <6>3. InOrder(f)
              BY <1>1, <1>10 DEF AllFormed, Formed, f
            <6> QED BY <6>1, <6>2, <6>3, <5>3, <5>4, <4>9 DEF InOrder
          <5> QED BY <5>5, <5>6
        <4>10. ASSUME NEW p \in Pages, p < last + 1, f[p].st = "erased" PROVE FALSE
          <5>1. p <= last
            BY <4>8, <4>10, Sizes
          <5> QED BY <5>1, <4>6, <4>10
        <4> QED BY <4>4, <4>9, <4>10 DEF Clear
      <3>5. ~TornAt(Current, mem.page_addr)' /\ (~mem'.abnormal => NextClear')
        BY <3>3, <3>4, <2>6, <1>1 DEF NextClear, Current, f
      <3> QED BY <3>5, <1>2, <1>7, <1>10 DEF PagesInv, NoLastPage
    <2>8. CASE page = mem.page_addr /\ Resume
      <3>1. Resume'
        BY <2>6, <2>8, <1>1 DEF Resume, NoneNewer, NextClear, Room, Current, b
      <3>2. NextClear'
        BY <3>1 DEF Resume
      <3> QED BY <3>1, <3>2, <1>2, <1>7, <1>10 DEF PagesInv, NoLastPage
    <2> QED BY <2>4, <2>7, <2>8
  <1> QED BY <1>4, <1>8, <1>9, <1>10

-----------------------------------------------------------------------------
(* PagesInv: the other steps.                                              *)

LEMMA ErasedBlocks ==
    ASSUME Types, NEW c, flash' = ErasedFlash(c)
    PROVE  \A b \in Blocks : /\ flash'[b] = flash[b] \/ flash'[b] \in {EmptyBlock, RuinedBlock}
                             /\ flash'[b] # flash[b] => b = c
  BY ErasedType

\* The pages that a full block does not have are not torn, and not asked for.
LEMMA NoPagesLeft ==
    ASSUME NEW s \in Int, s >= PagesPerBlk, NEW f
    PROVE  ~TornAt(f, s) /\ ~(s + 2 * PageNum <= PagesPerBlk)
  <1>1. \A k \in 0 .. PageNum - 1 : s + k \notin Pages
    BY Sizes DEF Pages
  <1> QED BY <1>1, Sizes DEF TornAt

LEMMA PagesFree ==
    ASSUME Sound, PagesInv, meson_rsv_free
    PROVE  PagesInv'
  <1>1. /\ Types /\ AllFormed /\ NoLastPage /\ flash' = ErasedFlash(mem.blk_addr)
        /\ mem' = NothingKnown /\ pc' = "scan" /\ scan' = scan /\ scan.start = 0 /\ bad' = bad
    BY DEF Sound, PcOK, PagesInv, meson_rsv_free
  <1>2. AllFormed'
    BY <1>1, ErasedBlocks, BlocksErased
  <1>3. Scanned(scan.start)'
    <2>1. 0 .. -1 = {} /\ NoBlock < 0 /\ NoBlock \notin {}
      BY DEF NoBlock
    <2>2. DOMAIN <<>> = {}
      OBVIOUS
    <2>3. /\ Range(mem'.nfree) = {} /\ Len(mem'.nfree) = 0 /\ mem'.blk_addr = NoBlock
          /\ mem'.timestamp = 0 /\ Unlike(mem'.nfree) /\ scan'.start = 0
      BY <1>1, <2>2, NothingFields DEF Unlike
    <2> QED BY <2>1, <2>3 DEF Scanned, Reach, NoneNewer, Lists
  <1> QED BY <1>1, <1>2, <1>3 DEF PagesInv, NoLastPage

LEMMA PagesPowerUp ==
    ASSUME Sound, PagesInv, PowerUp
    PROVE  PagesInv'
  <1>1. /\ AllFormed /\ NoLastPage /\ flash' = flash /\ bad' = bad /\ mem = NothingKnown
        /\ mem' = mem /\ pc' = "scan" /\ scan' = scan /\ scan = NewScan
    BY DEF Sound, PcOK, PagesInv, PowerUp
  <1>2. Scanned(scan.start)'
    <2>1. 0 .. -1 = {} /\ NoBlock < 0
      BY DEF NoBlock
    <2>2. DOMAIN <<>> = {}
      OBVIOUS
    <2>3. /\ Range(mem'.nfree) = {} /\ Len(mem'.nfree) = 0 /\ mem'.blk_addr = NoBlock
          /\ mem'.timestamp = 0 /\ Unlike(mem'.nfree) /\ scan'.start = 0
      BY <1>1, <2>2, NothingFields DEF Unlike, NewScan
    <2> QED BY <2>1, <2>3 DEF Scanned, Reach, NoneNewer, Lists
  <1> QED BY <1>1, <1>2 DEF PagesInv, NoLastPage, AllFormed

LEMMA PagesSave ==
    ASSUME Sound, PagesInv, NEW v \in Values, meson_rsv_save(v)
    PROVE  PagesInv'
  <1>1. /\ Types /\ AllFormed /\ NoLastPage /\ flash' = flash /\ scan' = scan /\ pc' = "search"
        /\ mem \in Mem /\ mem' = IF mem.abnormal THEN AtPage(mem, PagesPerBlk) ELSE mem
        /\ mem.valid => (~mem.abnormal => NextClear)
    BY DEF Sound, Types, PagesInv, meson_rsv_save, AtPage
  <1>2. AllFormed' /\ NoLastPage'
    BY <1>1 DEF AllFormed, NoLastPage
  <1>3. CASE mem.abnormal
    <2>1. mem'.page_addr = PagesPerBlk
      <3>1. PagesPerBlk \in -1 .. PagesPerBlk + PageNum
        BY Sizes
      <3> QED BY <3>1, <1>1, <1>3, PageFields
    <2>2. ~Room'
      BY <2>1, Sizes DEF Room
    <2> QED BY <2>2, <1>1, <1>2 DEF PagesInv, NextClear
  <1>4. CASE ~mem.abnormal
    <2>1. mem' = mem
      BY <1>1, <1>4
    <2>2. mem'.valid => NextClear'
      BY <2>1, <1>1, <1>4 DEF NextClear, Room, Current
    <2> QED BY <2>2, <1>1, <1>2 DEF PagesInv
  <1> QED BY <1>3, <1>4

LEMMA PagesSame ==
    ASSUME Sound, PagesInv, search_same
    PROVE  PagesInv'
  <1> DEFINE page == mem.page_addr + PageNum
  <1>1. /\ Types /\ AllFormed /\ NoLastPage /\ flash' = flash /\ scan' = scan /\ pc' = "write"
        /\ next' = 0 /\ mem \in Mem /\ mem' = AtPage(mem, page) /\ Room /\ NextClear
        /\ mem.page_addr >= 0 /\ mem.page_addr \in Int
    BY MemOK DEF Sound, PcOK, Types, PagesInv, search_same, AtPage, Room
  <1>2. AllFormed' /\ NoLastPage'
    BY <1>1 DEF AllFormed, NoLastPage
  <1>3. page \in Int /\ page \in -1 .. PagesPerBlk + PageNum
    BY <1>1, Sizes DEF Room
  <1>4. Clear(Current, page)
    BY <1>1 DEF NextClear
  <1> HIDE DEF page
  <1>5. mem'.page_addr = page /\ mem'.blk_addr = mem.blk_addr
    BY <1>1, <1>3, PageFields
  <1>6. Target' = page
    BY <1>1, <1>3, <1>5 DEF Target
  <1>7. 0 .. next' - 1 = {}
    BY <1>1
  <1> QED BY <1>1, <1>2, <1>4, <1>5, <1>6, <1>7 DEF PagesInv, Current

\* What the move to the next block needs, whether its caller erased a block or not.
LEMMA PagesMoved ==
    ASSUME Sound, AllFormed', NoLastPage, scan' = scan, NEW m \in Mem, MoveToNextBlock(m),
           m.blk_addr \in Blocks, m.valid, Mult(m.page_addr), m.page_addr >= PagesPerBlk,
           Len(m.nfree) <= NodeCount
    PROVE  PagesInv'
  <1>1. m.page_addr \in Int /\ m.page_addr >= 0
    BY MemFields, Sizes
  <1>2. /\ pc' \in {"idle", "abort", "prepare"}
        /\ pc' = "idle" => mem' = m
    BY <1>1, Moved
  <1>3. NoLastPage'
    BY DEF NoLastPage
  <1>4. pc' = "idle" => ~TornAt(Current, mem.page_addr)' /\ NextClear'
    BY <1>1, <1>2, NoPagesLeft DEF NextClear, Room
  <1> QED BY <1>2, <1>3, <1>4 DEF PagesInv

LEMMA PagesNext ==
    ASSUME Sound, PagesInv, search_next
    PROVE  PagesInv'
  <1> DEFINE page == mem.page_addr + PageNum
             m == AtPage(mem, page)
  <1>1. /\ Types /\ AllFormed /\ NoLastPage /\ flash' = flash /\ scan' = scan /\ mem \in Mem
        /\ mem.valid /\ mem.blk_addr \in Blocks /\ mem.page_addr >= 0 /\ mem.page_addr \in Int
        /\ Mult(mem.page_addr) /\ mem.page_addr + 2 * PageNum > PagesPerBlk
        /\ mem.page_addr <= PagesPerBlk /\ Len(mem.nfree) <= NodeCount
        /\ \/ pc' = "wipe"
           \/ MoveToNextBlock(m)
    BY MemOK DEF Sound, PcOK, Types, PagesInv, search_next, AtPage
  <1>2. AllFormed' /\ NoLastPage'
    BY <1>1 DEF AllFormed, NoLastPage
  <1>3. page \in Int /\ page \in -1 .. PagesPerBlk + PageNum
    BY <1>1, Sizes
  <1>4. Mult(page)
    BY <1>1, MultSteps
  <1>5. page >= PagesPerBlk
    <2>1. Mult(PagesPerBlk) /\ PagesPerBlk \in Int
      BY MultSteps, Sizes
    <2> DEFINE p == page
    <2>2. p \in Int /\ Mult(p) /\ p + PageNum > PagesPerBlk
      BY <1>1, <1>3, <1>4, Sizes
    <2> HIDE DEF p
    <2>3. p < PagesPerBlk => p + PageNum <= PagesPerBlk
      BY <2>1, <2>2, MultSteps
    <2>4. p >= PagesPerBlk
      BY <2>1, <2>2, <2>3, Sizes
    <2> QED BY <2>4 DEF p
  <1> HIDE DEF page
  <1>6. m \in Mem /\ m.valid = mem.valid /\ m.blk_addr = mem.blk_addr /\ m.page_addr = page
        /\ m.nfree = mem.nfree
    BY <1>1, <1>3, PageFields
  <1> HIDE DEF m
  <1>7. CASE pc' = "wipe"
    BY <1>2, <1>7 DEF PagesInv
  <1>8. CASE MoveToNextBlock(m)
    <2>1. m.valid
      BY <1>1, <1>6
    <2> QED BY <1>1, <1>2, <1>4, <1>5, <1>6, <1>8, <2>1, PagesMoved
  <1> QED BY <1>1, <1>7, <1>8

LEMMA PagesWipe ==
    ASSUME Sound, PagesInv, wipe
    PROVE  PagesInv'
  <1>1. /\ Types /\ AllFormed /\ NoLastPage /\ flash' = ErasedFlash(mem.blk_addr) /\ scan' = scan
        /\ mem \in Mem /\ mem.valid /\ mem.blk_addr \in Blocks
        /\ mem.page_addr = PagesPerBlk + PageNum /\ Len(mem.nfree) <= NodeCount
        /\ Mult(mem.page_addr) /\ MoveToNextBlock(mem)
    BY Sizes DEF Sound, PcOK, Types, PagesInv, wipe
  <1>2. AllFormed'
    BY <1>1, ErasedBlocks, BlocksErased
  <1>3. mem.page_addr >= PagesPerBlk
    BY <1>1, Sizes
  <1> QED BY <1>1, <1>2, <1>3, PagesMoved

LEMMA PagesFirst ==
    ASSUME Sound, PagesInv, search_first
    PROVE  PagesInv'
  BY DEF PagesInv, search_first, AllFormed, NoLastPage

LEMMA PagesPrepare ==
    ASSUME Sound, PagesInv, prepare
    PROVE  PagesInv'
  <1>1. /\ Types /\ AllFormed /\ NoLastPage /\ scan' = scan /\ mem \in Mem
        /\ mem.blk_addr \in Blocks /\ mem.page_addr = 0
    BY DEF Sound, PcOK, Types, PagesInv, prepare
  <1>2. \/ \E page \in {PagesPerBlk - PageNum, PagesPerBlk} :
             mem' = AtPage(mem, page) /\ pc' = "search" /\ flash' = flash
        \/ /\ mem.blk_addr \notin bad /\ flash' = ErasedFlash(mem.blk_addr)
           /\ pc' = "write" /\ next' = 0 /\ mem' = mem
    BY DEF prepare, AtPage
  <1>3. NoLastPage'
    BY <1>1 DEF NoLastPage
  <1>4. ASSUME NEW page \in {PagesPerBlk - PageNum, PagesPerBlk},
               mem' = AtPage(mem, page), pc' = "search", flash' = flash
        PROVE  PagesInv'
    <2>1. page \in -1 .. PagesPerBlk + PageNum /\ ~(page + 2 * PageNum <= PagesPerBlk)
      <3>1. PagesPerBlk >= PageNum
        <4>1. 0 + PageNum <= PagesPerBlk
          BY ZeroStart, CopyFits, Sizes
        <4> QED BY <4>1, Sizes
      <3> QED BY <3>1, <1>4, Sizes
    <2>2. mem'.page_addr = page
      BY <2>1, <1>1, <1>4, PageFields
    <2>3. ~Room'
      BY <2>1, <2>2 DEF Room
    <2>4. AllFormed'
      BY <1>1, <1>4 DEF AllFormed
    <2> QED BY <2>3, <2>4, <1>3, <1>4 DEF PagesInv, NextClear
  <1>5. CASE /\ mem.blk_addr \notin bad /\ flash' = ErasedFlash(mem.blk_addr)
             /\ pc' = "write" /\ next' = 0 /\ mem' = mem
    <2>1. AllFormed'
      BY <1>1, <1>5, ErasedBlocks, BlocksErased
    <2>2. flash'[mem.blk_addr] = EmptyBlock
      BY <1>1, <1>5, ErasedType
    <2>3. Target' = 0
      BY <1>1, <1>5 DEF Target
    <2>4. Clear(Current, Target)'
      BY <2>2, <2>3, <1>5, EmptyForms DEF Current
    <2>5. 0 .. next' - 1 = {}
      BY <1>5
    <2> QED BY <2>1, <2>4, <2>5, <1>3, <1>5 DEF PagesInv
  <1> QED BY <1>2, <1>4, <1>5

LEMMA PagesWrite ==
    ASSUME Sound, PagesInv, write
    PROVE  PagesInv'
  <1> DEFINE c == mem.blk_addr
             s == mem.page_addr
  <1>1. /\ Types /\ NoLastPage /\ scan' = scan /\ pc = "write" /\ Program(Content)
        /\ mem \in Mem /\ c \in Blocks /\ job \in Values /\ next < PageNum /\ next \in Nat
        /\ s \in Int /\ s + PageNum <= PagesPerBlk
    BY MemOK DEF Sound, PcOK, Types, Working, PagesInv, write
  <1>2. Content \in Page /\ Content.st = "data"
    BY <1>1, ContentPage
  <1>3. /\ AllFormed' /\ Clear(flash'[c], Target + 1)
        /\ s \in Starts /\ next \in 0 .. PageNum - 1 /\ Target \in Pages
        /\ \A p \in Pages : flash'[c][p] = IF p = Target THEN Content ELSE flash[c][p]
    BY <1>1, <1>2, PageWritten
  <1>4. NoLastPage'
    BY <1>1 DEF NoLastPage
  <1>5. \A j \in 0 .. next : flash'[c][s + j].st = "data"
    <2> SUFFICES ASSUME NEW j \in 0 .. next PROVE flash'[c][s + j].st = "data"
      OBVIOUS
    <2>1. s + j \in Pages
      <3>1. j \in 0 .. PageNum - 1
        BY <1>1, Sizes
      <3> QED BY <3>1, <1>3, CopyFits
    <2>2. CASE j = next
      BY <2>2, <2>1, <1>2, <1>3 DEF Target
    <2>3. CASE j # next
      <3>1. j \in 0 .. next - 1 /\ s + j # Target
        BY <2>3, <1>1 DEF Target
      <3>2. flash[c][s + j].st = "data"
        BY <3>1, <1>1 DEF PagesInv, Current
      <3> QED BY <3>1, <3>2, <2>1, <1>3
    <2> QED BY <2>2, <2>3
  <1> DEFINE new == [mem EXCEPT !.valid = TRUE, !.abnormal = FALSE]
  <1>6. \/ next = PageNum - 1 /\ mem' = new /\ pc' = "idle"
        \/ next # PageNum - 1 /\ next' = next + 1 /\ mem' = mem /\ pc' = pc
    BY DEF write, Return
  <1>7. new.blk_addr = c /\ new.page_addr = s
    BY <1>1 DEF Mem
  <1> HIDE DEF new
  <1>8. CASE next = PageNum - 1 /\ mem' = new /\ pc' = "idle"
    <2>1. Target + 1 = s + PageNum
      BY <1>1, <1>8, Sizes DEF Target
    <2>2. NextClear'
      BY <2>1, <1>3, <1>7, <1>8 DEF NextClear, Current
    <2>3. ~TornAt(Current, mem.page_addr)'
      <3>1. \A k \in 0 .. PageNum - 1 : flash'[c][s + k].st # "torn"
        BY <1>5, <1>8
      <3> QED BY <3>1, <1>7, <1>8 DEF TornAt, Current
    <2> QED BY <2>2, <2>3, <1>3, <1>4, <1>8 DEF PagesInv
  <1>9. CASE next # PageNum - 1 /\ next' = next + 1 /\ mem' = mem /\ pc' = pc
    <2>1. Target' = Target + 1
      BY <1>1, <1>9 DEF Target
    <2>2. 0 .. next' - 1 = 0 .. next
      BY <1>1, <1>9
    <2> QED BY <2>1, <2>2, <1>1, <1>3, <1>4, <1>5, <1>9 DEF PagesInv, Current
  <1> QED BY <1>6, <1>8, <1>9

LEMMA PagesWriteFails ==
    ASSUME Sound, Sound', PagesInv, write_fails, fails = 0 => ListsInv, fails' <= 1
    PROVE  PagesInv'
  <1> DEFINE c == mem.blk_addr
             s == mem.page_addr
             f == flash'[c]
  <1>1. /\ Types /\ NoLastPage /\ scan' = scan /\ pc = "write" /\ Program(Torn) /\ mem' = mem
        /\ c \in Blocks /\ next < PageNum /\ next \in Nat /\ pc' = "idle" /\ fails' = fails + 1
        /\ s \in Int /\ fails \in Nat
    BY MemOK DEF Sound, PcOK, Types, PagesInv, write_fails, Return
  <1>2. /\ AllFormed' /\ Clear(f, Target + 1)
        /\ s \in Starts /\ next \in 0 .. PageNum - 1 /\ Target \in Pages
        /\ \A p \in Pages : f[p] = IF p = Target THEN Torn ELSE flash[c][p]
        /\ \A b \in Blocks : \A p \in Starts : HeaderAt(flash'[b], p) =>
                HeaderAt(flash[b], p) /\ flash'[b][p] = flash[b][p]
    BY <1>1, BlockTypes, PageWritten
  <1>3. NoLastPage'
    BY <1>1 DEF NoLastPage
  <1>4. fails = 0 /\ fails' > 0
    BY <1>1
  <1>5. NoneNewer(Blocks)
    BY <1>1, <1>4 DEF ListsInv, Listing
  <1>6. NoneNewer(Blocks)'
    <2>1. Types /\ Types' /\ mem.timestamp <= mem'.timestamp
      BY <1>1, MemOK DEF Sound
    <2>2. \A b \in Blocks : \A p \in Starts : HeaderAt(flash'[b], p) => flash'[b][p].ts <= mem'.timestamp
      BY <2>1, <1>2, <1>5, NewestKept
    <2> QED BY <2>2 DEF NoneNewer
  <1>7. f[Target].st = "torn"
    BY <1>2, BlockTypes
  <1>8. TornAt(f, s)
    BY <1>2, <1>7 DEF TornAt, Target
  <1>9. Clear(f, s + PageNum)
    <2>1. Target + 1 <= s + PageNum /\ Target \in Nat /\ s + PageNum \in Int
      BY <1>1, <1>2, Sizes DEF Target
    <2>2. ASSUME NEW p \in Pages, p >= s + PageNum PROVE f[p].st = "erased"
      <3>1. p >= Target + 1
        BY <2>1, <2>2, Sizes
      <3> QED BY <3>1, <1>2 DEF Clear
    <2>3. ASSUME NEW p \in Pages, p < s + PageNum, f[p].st = "erased"
          PROVE  \E r \in Pages : r < p /\ f[r].st = "torn"
      <3>1. CASE p < Target + 1
        BY <3>1, <2>3, <1>2 DEF Clear
      <3>2. CASE ~(p < Target + 1)
        <4>1. Target < p
          BY <3>2, <2>1, Sizes
        <4> QED BY <4>1, <1>2, <1>7
      <3> QED BY <3>1, <3>2
    <2> QED BY <2>2, <2>3 DEF Clear
  <1>10. NextClear'
    BY <1>1, <1>9 DEF NextClear, Current
  <1>11. mem'.valid => Resume'
    BY <1>1, <1>4, <1>6, <1>8, <1>10 DEF Resume, Current
  <1> QED BY <1>1, <1>2, <1>3, <1>10, <1>11 DEF PagesInv

LEMMA PagesRead ==
    ASSUME Sound, PagesInv, meson_rsv_read
    PROVE  PagesInv'
  <1>1. /\ pc = "idle" /\ UNCHANGED <<flash, bad, mem, job, next, scan, ret, cuts, fails>>
        /\ \/ pc' = "idle"
           \/ /\ mem.valid /\ pc' = "scan"
              /\ \E k \in 0 .. PageNum - 1 : /\ mem.page_addr + k \in Pages
                                             /\ flash[mem.blk_addr][mem.page_addr + k].st = "torn"
    BY DEF meson_rsv_read
  <1>2. AllFormed' /\ NoLastPage'
    BY <1>1 DEF PagesInv, AllFormed, NoLastPage
  <1>3. Resume => Resume'
    BY <1>1 DEF Resume, NoneNewer, NextClear, Room, Current
  <1>4. CASE pc' = "idle"
    BY <1>1, <1>2, <1>3, <1>4 DEF PagesInv, Current, NextClear, Room
  <1>5. CASE /\ mem.valid /\ pc' = "scan"
             /\ \E k \in 0 .. PageNum - 1 : /\ mem.page_addr + k \in Pages
                                            /\ flash[mem.blk_addr][mem.page_addr + k].st = "torn"
    <2>1. Resume
      BY <1>1, <1>5 DEF PagesInv, TornAt, Current
    <2> QED BY <2>1, <1>2, <1>3, <1>5 DEF PagesInv
  <1> QED BY <1>1, <1>4, <1>5

LEMMA PagesErase ==
    ASSUME Sound, PagesInv, meson_rsv_erase
    PROVE  PagesInv'
  <1>1. /\ flash' = flash /\ scan' = scan /\ pc = "idle"
    BY DEF meson_rsv_erase
  <1>2. ~mem'.valid /\ pc' \in {"idle", "erase", "abort"}
    BY <1>1, EraseCases
  <1>3. AllFormed' /\ NoLastPage'
    BY <1>1 DEF PagesInv, AllFormed, NoLastPage
  <1> QED BY <1>2, <1>3 DEF PagesInv

LEMMA PagesEraseBlock ==
    ASSUME Sound, PagesInv, erase_block
    PROVE  PagesInv'
  <1>1. /\ Types /\ AllFormed /\ NoLastPage /\ flash' = ErasedFlash(mem.nfree[next])
        /\ scan' = scan /\ pc = "erase" /\ ~mem.valid /\ mem' = mem /\ pc' \in {"idle", "erase"}
    BY DEF Sound, PcOK, PagesInv, erase_block, Return
  <1>2. AllFormed'
    BY <1>1, ErasedBlocks, BlocksErased
  <1> QED BY <1>1, <1>2 DEF PagesInv, NoLastPage

\* What a power cut does to the flash.
LEMMA CutFlash ==
    ASSUME Sound, PagesInv, PowerCut
    PROVE  AllFormed'
  <1>1. Types /\ AllFormed
    BY DEF Sound, PagesInv
  <1>2. CASE UNCHANGED flash
    BY <1>1, <1>2 DEF AllFormed
  <1>3. CASE \E c \in Erasing, result \in {EmptyBlock, RuinedBlock} :
               flash' = [flash EXCEPT ![c] = result]
    <2>1. \A b \in Blocks : flash'[b] = flash[b] \/ flash'[b] \in {EmptyBlock, RuinedBlock}
      BY <1>1, <1>3 DEF Types
    <2> QED BY <2>1, <1>1, BlocksErased
  <1>4. CASE pc = "write" /\ \E page \in {Torn, Content} : Program(page)
    <2>1. PICK page \in {Torn, Content} : Program(page)
      BY <1>4
    <2>2. next < PageNum /\ job \in Values
      BY <1>4 DEF Sound, PcOK, Working
    <2>3. page \in Page /\ page.st # "erased"
      BY <2>1, <2>2, <1>1, BlockTypes, ContentPage
    <2> QED BY <2>1, <2>3, <1>4, PageWritten
  <1> QED BY <1>2, <1>3, <1>4 DEF PowerCut

LEMMA PagesPowerCut ==
    ASSUME Sound, PagesInv, PowerCut
    PROVE  PagesInv'
  <1>1. pc' = "off" /\ scan'.good = {}
    BY DEF PowerCut, NewScan
  <1> QED BY <1>1, CutFlash DEF PagesInv, NoLastPage

LEMMA PagesStep ==
    ASSUME Sound, Sound', PagesInv, fails = 0 => ListsInv, [Next]_vars, fails' <= 1,
           NodeCount >= NBlocks
    PROVE  PagesInv'
  <1>1. CASE Driver
    BY <1>1, PagesPowerUp, PagesScan, PagesSelect, PagesFree, PagesSame, PagesNext, PagesFirst,
       PagesWipe, PagesPrepare, PagesWrite, PagesWriteFails, PagesEraseBlock DEF Driver
  <1>2. CASE \E v \in Values : meson_rsv_save(v)
    BY <1>2, PagesSave
  <1>3. CASE UNCHANGED vars
    BY <1>3 DEF vars, PagesInv, AllFormed, NoLastPage, Scanned, Reach, NoneNewer, Lists, Lost,
       HasHeader, Resume, Current, NextClear, Room, Target
  <1> QED BY <1>1, <1>2, <1>3, PagesRead, PagesErase, PagesPowerCut DEF Next

-----------------------------------------------------------------------------
(* ListsInv: the driver knows every block once.                            *)

\* What a block has lost it gets back only when it is erased.
LEMMA LostKept ==
    ASSUME NEW b, Lost(b), bad \subseteq bad', AllTorn(flash[b]) => AllTorn(flash'[b])
    PROVE  Lost(b)'
  BY DEF Lost

\* A list without repetition that leaves a block out is shorter than the region.
LEMMA ShortList ==
    ASSUME NEW s \in Seq(Blocks), NEW b \in Blocks, Unlike(s), b \notin Range(s)
    PROVE  Len(s) < NBlocks
  <1> DEFINE t == Append(s, b)
             D == 1 .. Len(t)
  <1>1. t \in Seq(Blocks) /\ Len(t) = Len(s) + 1 /\ Unlike(t) /\ Len(s) \in Nat
    BY AppendList, LenProperties
  <1> HIDE DEF t
  <1>2. Len(t) \in Nat /\ DOMAIN t = D /\ t \in [D -> Blocks]
    BY <1>1, LenProperties
  <1>3. IsFiniteSet(D) /\ Cardinality(D) = Len(t)
    <2>1. 1 \in Int /\ Len(t) \in Int /\ ~(1 > Len(t)) /\ (Len(t) - 1) + 1 = Len(t)
      BY <1>1
    <2>2. IsFiniteSet(D) /\ Cardinality(D) = (Len(t) - 1) + 1
      BY <2>1, FS_Interval
    <2> QED BY <2>1, <2>2
  <1>4. IsFiniteSet(Blocks) /\ Cardinality(Blocks) = NBlocks
    <2>1. 0 \in Int /\ NBlocks - 1 \in Int /\ ~(0 > NBlocks - 1)
      BY Sizes
    <2>2. IsFiniteSet(Blocks) /\ Cardinality(Blocks) = ((NBlocks - 1) - 0) + 1
      BY <2>1, FS_Interval DEF Blocks
    <2> QED BY <2>2, Sizes
  <1> HIDE DEF D
  <1>5. ~(Cardinality(Blocks) < Cardinality(D))
    <2> SUFFICES ASSUME Cardinality(Blocks) < Cardinality(D) PROVE FALSE
      OBVIOUS
    <2>1. \E i, j \in D : i # j /\ t[i] = t[j]
      BY <1>2, <1>3, <1>4, FS_PigeonHole
    <2> QED BY <2>1, <1>1, <1>2 DEF Unlike
  <1> QED BY <1>1, <1>3, <1>4, <1>5, Sizes

LEMMA ListsScan ==
    ASSUME Sound, PagesInv, scan_block, fails = 0, NodeCount >= NBlocks
    PROVE  ListsInv'
  <1>1. Scanned(scan.start)
    BY DEF PagesInv, scan_block, Resume
  <1>2. PICK n \in Nat : n = scan.start
    BY Sizes DEF Sound, Types
  <1>3. /\ Scanned(n + 1)' /\ n < NBlocks
        /\ pc' = (IF n + 1 < NBlocks THEN "scan" ELSE "select")
    <2>1. Scanned(n)
      BY <1>1, <1>2
    <2> QED BY <2>1, <1>2, ScanRound
  <1>4. CASE pc' = "select"
    <2>1. n + 1 = NBlocks
      BY <1>2, <1>3, <1>4, Sizes
    <2>2. 0 .. (n + 1) - 1 = Blocks
      BY <2>1 DEF Blocks
    <2>3. /\ Reach(Blocks)' /\ NoneNewer(Blocks)' /\ Unlike(mem'.nfree)
          /\ (mem.blk_addr \notin Lists)'
      <3>1. /\ Reach(0 .. (n + 1) - 1)' /\ NoneNewer(0 .. (n + 1) - 1)' /\ Unlike(mem'.nfree)
            /\ (mem.blk_addr \notin Lists)'
        BY <1>3 DEF Scanned
      <3> QED BY <3>1, <2>2
    <2> QED BY <2>3, <1>4 DEF ListsInv
  <1>5. CASE pc' = "scan"
    BY <1>5 DEF ListsInv, Listing
  <1> QED BY <1>3, <1>4, <1>5

\* The lists, the blocks and the timestamp stay as they are.
LEMMA SameLists ==
    ASSUME flash' = flash, bad' = bad, mem'.blk_addr = mem.blk_addr, mem'.nfree = mem.nfree,
           mem'.timestamp = mem.timestamp
    PROVE  /\ Reach(Blocks) => Reach(Blocks)'
           /\ NoneNewer(Blocks) => NoneNewer(Blocks)'
           /\ Lists' = Lists
           /\ Lost(mem.blk_addr) => Lost(mem.blk_addr)'
  BY DEF Reach, NoneNewer, Lists, Lost

LEMMA ChosenKeeps ==
    ASSUME NEW m \in Mem, NEW page, NEW ab
    PROVE  /\ Chosen(m, page, ab).valid = m.valid /\ AtPage(m, page).valid = m.valid
           /\ Chosen(m, page, ab).blk_addr = m.blk_addr /\ AtPage(m, page).blk_addr = m.blk_addr
           /\ Chosen(m, page, ab).nfree = m.nfree /\ AtPage(m, page).nfree = m.nfree
           /\ Chosen(m, page, ab).timestamp = m.timestamp /\ AtPage(m, page).timestamp = m.timestamp
  BY DEF Mem, Chosen, AtPage

LEMMA ListsSelect ==
    ASSUME Sound, ListsInv, select_copy
    PROVE  ListsInv'
  <1>1. /\ Types /\ pc = "select" /\ flash' = flash /\ bad' = bad /\ mem \in Mem
        /\ ~mem.valid => mem.blk_addr = NoBlock
    BY DEF Sound, Types, PcOK, select_copy
  <1>2. /\ pc' \in {"idle", "free"} /\ (pc' = "free" => mem.valid)
        /\ \/ mem' = mem
           \/ \E page, ab : mem' = Chosen(mem, page, ab)
    BY DEF select_copy, Chosen
  <1>3. /\ mem'.valid = mem.valid /\ mem'.blk_addr = mem.blk_addr /\ mem'.nfree = mem.nfree
        /\ mem'.timestamp = mem.timestamp
    BY <1>1, <1>2, ChosenKeeps
  <1>4. /\ Reach(Blocks) /\ Unlike(mem.nfree) /\ NoneNewer(Blocks)
        /\ mem.valid => mem.blk_addr \notin Lists
    BY <1>1 DEF ListsInv, Listing
  <1>5. Reach(Blocks)' /\ NoneNewer(Blocks)' /\ Lists' = Lists
    BY <1>1, <1>3, <1>4, SameLists
  <1> QED BY <1>1, <1>2, <1>3, <1>4, <1>5 DEF ListsInv

LEMMA ListsSave ==
    ASSUME Sound, ListsInv, NEW v \in Values, meson_rsv_save(v)
    PROVE  ListsInv'
  <1>1. /\ mem \in Mem /\ pc = "idle" /\ pc' = "search" /\ flash' = flash /\ bad' = bad
        /\ mem' \in {AtPage(mem, PagesPerBlk), mem}
    BY DEF Sound, Types, meson_rsv_save, AtPage
  <1>2. /\ mem'.valid = mem.valid /\ mem'.blk_addr = mem.blk_addr /\ mem'.nfree = mem.nfree
        /\ mem'.timestamp = mem.timestamp
    BY <1>1, ChosenKeeps
  <1>3. /\ Reach(Blocks) /\ Unlike(mem.nfree) /\ NoneNewer(Blocks)
        /\ mem.valid => mem.blk_addr \notin Lists
        /\ ~mem.valid => mem.blk_addr \in Lists \cup {NoBlock} \/ Lost(mem.blk_addr)
    BY <1>1 DEF ListsInv, Listing
  <1>4. /\ Reach(Blocks)' /\ NoneNewer(Blocks)' /\ Lists' = Lists
        /\ Lost(mem.blk_addr) => Lost(mem.blk_addr)'
    BY <1>1, <1>2, <1>3, SameLists
  <1> QED BY <1>1, <1>2, <1>3, <1>4 DEF ListsInv

LEMMA ListsSame ==
    ASSUME Sound, ListsInv, search_same
    PROVE  ListsInv'
  <1>1. /\ mem \in Mem /\ pc = "search" /\ pc' = "write" /\ flash' = flash /\ bad' = bad
        /\ mem.valid /\ mem' = AtPage(mem, mem.page_addr + PageNum)
    BY DEF Sound, Types, search_same, AtPage
  <1>2. /\ mem'.valid = mem.valid /\ mem'.blk_addr = mem.blk_addr /\ mem'.nfree = mem.nfree
        /\ mem'.timestamp = mem.timestamp
    BY <1>1, ChosenKeeps
  <1>3. /\ Reach(Blocks) /\ Unlike(mem.nfree) /\ NoneNewer(Blocks) /\ mem.blk_addr \notin Lists
    BY <1>1 DEF ListsInv, Listing
  <1>4. Reach(Blocks)' /\ NoneNewer(Blocks)' /\ Lists' = Lists
    BY <1>1, <1>2, <1>3, SameLists
  <1> QED BY <1>1, <1>2, <1>3, <1>4 DEF ListsInv

\* The move to the next block, after its caller has erased the valid one or not.
LEMMA ListsMoved ==
    ASSUME Sound, Sound', NEW m \in Mem, MoveToNextBlock(m),
           m.blk_addr = mem.blk_addr, m.nfree = mem.nfree, m.timestamp = mem.timestamp,
           m.valid, mem.valid, Mult(m.page_addr), m.page_addr >= 0,
           Reach(Blocks), Unlike(mem.nfree), NoneNewer(Blocks), mem.blk_addr \notin Lists,
           bad' = bad,
           \A b \in Blocks : flash'[b] # flash[b] => b = mem.blk_addr,
           \A b \in Blocks : \A p \in Starts :
              HeaderAt(flash'[b], p) => HeaderAt(flash[b], p) /\ flash'[b][p] = flash[b][p]
    PROVE  ListsInv'
  <1> DEFINE c == mem.blk_addr
  <1>1. /\ Types /\ Types' /\ mem \in Mem /\ c \in Blocks /\ Len(m.nfree) <= NodeCount
        /\ mem.nfree \in Seq(Blocks) /\ mem.timestamp \in Nat
    BY MemOK DEF Sound, Types, PcOK
  <1>2. \/ mem' = m /\ pc' = "idle"
        \/ mem' = m /\ pc' = "abort" /\ m.nfree = <<>>
        \/ /\ m.nfree # <<>> /\ pc' = "prepare" /\ mem'.blk_addr = Head(m.nfree)
           /\ mem'.timestamp = m.timestamp + 1 /\ mem'.nfree = Append(Tail(m.nfree), c)
    BY <1>1, Moved
  <1>3. NoneNewer(Blocks)'
    <2>1. mem.timestamp <= mem'.timestamp
      BY <1>1, <1>2
    <2>2. \A b \in Blocks : \A p \in Starts : HeaderAt(flash'[b], p) => flash'[b][p].ts <= mem'.timestamp
      BY <2>1, <1>1, NewestKept
    <2> QED BY <2>2 DEF NoneNewer
  <1>4. \A b \in Blocks : b \in Lists \/ b = c \/ Lost(b)'
    BY LostKept DEF Reach
  <1>5. CASE mem' = m /\ pc' = "idle"
    <2>1. Lists' = Lists /\ mem'.blk_addr = c
      BY <1>5 DEF Lists
    <2>2. Reach(Blocks)'
      BY <2>1, <1>4 DEF Reach
    <2> QED BY <2>1, <2>2, <1>3, <1>5 DEF ListsInv
  <1>6. CASE mem' = m /\ pc' = "abort" /\ m.nfree = <<>>
    BY <1>6 DEF ListsInv, Listing
  <1>7. CASE /\ m.nfree # <<>> /\ pc' = "prepare" /\ mem'.blk_addr = Head(m.nfree)
             /\ mem'.timestamp = m.timestamp + 1 /\ mem'.nfree = Append(Tail(m.nfree), c)
    <2> DEFINE s == mem.nfree
               t == Tail(s)
    <2>1. /\ t \in Seq(Blocks) /\ Lists = Range(t) \cup {Head(s)}
          /\ Unlike(t) /\ Head(s) \notin Range(t)
      BY <1>1, <1>7, HeadList DEF Lists
    <2> HIDE DEF t
    <2>2. c \notin Range(t) /\ c # Head(s)
      BY <2>1
    <2>3. Range(Append(t, c)) = Range(t) \cup {c} /\ Unlike(Append(t, c))
      BY <2>1, <2>2, <1>1, AppendList
    <2>4. mem'.nfree = Append(t, c) /\ mem'.blk_addr = Head(s)
      BY <1>7 DEF t
    <2>5. Lists' = Range(t) \cup {c} /\ Unlike(mem'.nfree) /\ (mem.blk_addr \notin Lists)'
      BY <2>1, <2>2, <2>3, <2>4 DEF Lists
    <2>6. Reach(Blocks)'
      BY <2>1, <2>4, <2>5, <1>4 DEF Reach
    <2> QED BY <2>5, <2>6, <1>3, <1>7 DEF ListsInv
  <1> QED BY <1>2, <1>5, <1>6, <1>7

LEMMA ListsNext ==
    ASSUME Sound, Sound', ListsInv, search_next
    PROVE  ListsInv'
  <1> DEFINE page == mem.page_addr + PageNum
             m == AtPage(mem, page)
  <1>1. /\ mem \in Mem /\ pc = "search" /\ flash' = flash /\ bad' = bad /\ mem.valid
        /\ mem.page_addr >= 0 /\ mem.page_addr \in Int /\ Mult(mem.page_addr)
        /\ mem.page_addr <= PagesPerBlk
        /\ \/ pc' = "wipe" /\ mem' = m
           \/ MoveToNextBlock(m)
    BY MemOK DEF Sound, PcOK, Types, search_next, AtPage
  <1>2. /\ Reach(Blocks) /\ Unlike(mem.nfree) /\ NoneNewer(Blocks) /\ mem.blk_addr \notin Lists
    BY <1>1 DEF ListsInv, Listing
  <1>3. page \in -1 .. PagesPerBlk + PageNum /\ page >= 0
    BY <1>1, Sizes
  <1>4. Mult(page)
    BY <1>1, MultSteps
  <1> HIDE DEF page
  <1>5. /\ m \in Mem /\ m.valid = mem.valid /\ m.blk_addr = mem.blk_addr /\ m.page_addr = page
        /\ m.nfree = mem.nfree /\ m.timestamp = mem.timestamp
    BY <1>1, <1>3, PageFields
  <1> HIDE DEF m
  <1>6. CASE pc' = "wipe" /\ mem' = m
    <2>1. Reach(Blocks)' /\ NoneNewer(Blocks)' /\ Lists' = Lists
      BY <1>1, <1>2, <1>5, <1>6, SameLists
    <2> QED BY <2>1, <1>1, <1>2, <1>5, <1>6 DEF ListsInv
  <1>7. CASE MoveToNextBlock(m)
    <2>1. \A b \in Blocks : flash'[b] # flash[b] => b = mem.blk_addr
      BY <1>1
    <2>2. \A b \in Blocks : \A p \in Starts :
            HeaderAt(flash'[b], p) => HeaderAt(flash[b], p) /\ flash'[b][p] = flash[b][p]
      BY <1>1
    <2>3. m.valid
      BY <1>1, <1>5
    <2> QED BY <1>1, <1>2, <1>3, <1>4, <1>5, <1>7, <2>1, <2>2, <2>3, ListsMoved
  <1> QED BY <1>1, <1>6, <1>7

LEMMA ListsWipe ==
    ASSUME Sound, Sound', PagesInv, ListsInv, wipe
    PROVE  ListsInv'
  <1>1. /\ Types /\ mem \in Mem /\ pc = "wipe" /\ flash' = ErasedFlash(mem.blk_addr) /\ bad' = bad
        /\ mem.valid /\ mem.page_addr >= 0 /\ Mult(mem.page_addr) /\ MoveToNextBlock(mem)
    BY DEF Sound, PcOK, Types, wipe
  <1>2. /\ Reach(Blocks) /\ Unlike(mem.nfree) /\ NoneNewer(Blocks) /\ mem.blk_addr \notin Lists
    BY <1>1 DEF ListsInv, Listing
  <1>3. /\ \A b \in Blocks : flash'[b] # flash[b] => b = mem.blk_addr
        /\ \A b \in Blocks : flash'[b] = flash[b] \/ flash'[b] \in {EmptyBlock, RuinedBlock}
    BY <1>1, ErasedBlocks
  <1>4. AllFormed
    BY DEF PagesInv
  <1>5. \A b \in Blocks : \A p \in Starts :
          HeaderAt(flash'[b], p) => HeaderAt(flash[b], p) /\ flash'[b][p] = flash[b][p]
    BY <1>3, <1>4, BlocksErased
  <1> QED BY <1>1, <1>2, <1>3, <1>5, ListsMoved

LEMMA ListsFirst ==
    ASSUME Sound, Sound', ListsInv, search_first
    PROVE  ListsInv'
  <1>1. /\ Types /\ Types' /\ mem \in Mem /\ pc = "search" /\ flash' = flash /\ bad' = bad
        /\ ~mem.valid /\ mem.nfree \in Seq(Blocks) /\ mem.timestamp \in Nat
        /\ \/ mem.nfree = <<>> /\ mem' = mem /\ pc' = "abort"
           \/ mem.nfree # <<>> /\ mem' = TakeHead(mem) /\ pc' = "prepare"
    BY MemOK DEF Sound, Types, search_first
  <1>2. /\ Reach(Blocks) /\ Unlike(mem.nfree) /\ NoneNewer(Blocks)
        /\ mem.blk_addr \in Lists \cup {NoBlock} \/ Lost(mem.blk_addr)
    BY <1>1 DEF ListsInv, Listing
  <1>3. CASE mem.nfree = <<>> /\ mem' = mem /\ pc' = "abort"
    BY <1>1, <1>3 DEF ListsInv, Listing
  <1>4. CASE mem.nfree # <<>> /\ mem' = TakeHead(mem) /\ pc' = "prepare"
    <2> DEFINE s == mem.nfree
               t == Tail(s)
    <2>1. /\ t \in Seq(Blocks) /\ Lists = Range(t) \cup {Head(s)}
          /\ Unlike(t) /\ Head(s) \notin Range(t)
      BY <1>1, <1>2, <1>4, HeadList DEF Lists
    <2>2. /\ mem'.blk_addr = Head(s) /\ mem'.nfree = t /\ mem'.timestamp = mem.timestamp + 1
          /\ mem'.valid = mem.valid
      BY <1>1, <1>4, HeadFields
    <2> HIDE DEF t
    <2>3. Lists' = Range(t)
      BY <2>2 DEF Lists
    <2>4. Reach(Blocks)'
      <3>1. \A b \in Blocks : b \in Lists \/ Lost(b)
        BY <1>2, Sizes DEF Reach
      <3>2. \A b \in Blocks : b \in Lists \/ Lost(b)'
        BY <3>1, <1>1, LostKept
      <3> QED BY <3>2, <2>1, <2>2, <2>3 DEF Reach
    <2>5. NoneNewer(Blocks)'
      <3>1. mem.timestamp <= mem'.timestamp
        BY <2>2, <1>1
      <3>2. \A b \in Blocks : \A p \in Starts : HeaderAt(flash'[b], p) => flash'[b][p].ts <= mem'.timestamp
        BY <3>1, <1>1, <1>2, NewestKept
      <3> QED BY <3>2 DEF NoneNewer
    <2> QED BY <2>1, <2>2, <2>3, <2>4, <2>5, <1>4 DEF ListsInv
  <1> QED BY <1>1, <1>3, <1>4

LEMMA ListsPrepare ==
    ASSUME Sound, Sound', PagesInv, ListsInv, prepare
    PROVE  ListsInv'
  <1> DEFINE c == mem.blk_addr
  <1>1. /\ Types /\ Types' /\ mem \in Mem /\ pc = "prepare" /\ c \in Blocks
        /\ mem.timestamp \in Nat
    BY MemOK DEF Sound, PcOK, Types, prepare
  <1>2. /\ Reach(Blocks) /\ Unlike(mem.nfree) /\ NoneNewer(Blocks) /\ c \notin Lists
    BY <1>1 DEF ListsInv, Listing
  <1>3. \/ /\ c \in bad /\ mem' = AtPage(mem, PagesPerBlk - PageNum) /\ pc' = "search"
           /\ bad' = bad /\ flash' = flash
        \/ /\ flash' = ErasedFlash(c) /\ pc' = "write" /\ mem' = mem /\ bad' = bad
        \/ /\ mem' = AtPage(mem, PagesPerBlk) /\ pc' = "search"
           /\ bad' = bad \cup {c} /\ flash' = flash
    BY DEF prepare, AtPage
  <1>4. /\ mem'.valid = mem.valid /\ mem'.blk_addr = c /\ mem'.nfree = mem.nfree
        /\ mem'.timestamp = mem.timestamp
    BY <1>1, <1>3, ChosenKeeps
  <1>5. /\ Lists' = Lists /\ bad \subseteq bad'
        /\ \A b \in Blocks : b = c \/ flash'[b] = flash[b]
    BY <1>1, <1>3, <1>4, ErasedBlocks DEF Lists
  <1>6. Reach(Blocks)'
    <2>1. \A b \in Blocks : b \in Lists \/ b = c \/ Lost(b)'
      BY <1>2, <1>5, LostKept DEF Reach
    <2> QED BY <2>1, <1>4, <1>5 DEF Reach
  <1>7. NoneNewer(Blocks)'
    <2>1. \A b \in Blocks : flash'[b] = flash[b] \/ flash'[b] \in {EmptyBlock, RuinedBlock}
      BY <1>1, <1>3, ErasedBlocks
    <2>2. AllFormed
      BY DEF PagesInv
    <2>3. \A b \in Blocks : \A p \in Starts :
            HeaderAt(flash'[b], p) => HeaderAt(flash[b], p) /\ flash'[b][p] = flash[b][p]
      BY <2>1, <2>2, BlocksErased
    <2>4. mem.timestamp <= mem'.timestamp
      BY <1>1, <1>4
    <2>5. \A b \in Blocks : \A p \in Starts : HeaderAt(flash'[b], p) => flash'[b][p].ts <= mem'.timestamp
      BY <2>3, <2>4, <1>1, <1>2, NewestKept
    <2> QED BY <2>5 DEF NoneNewer
  <1>8. pc' = "search" => Lost(mem.blk_addr)'
    BY <1>3, <1>4 DEF Lost
  <1> QED BY <1>2, <1>3, <1>4, <1>5, <1>6, <1>7, <1>8 DEF ListsInv

LEMMA ListsWrite ==
    ASSUME Sound, Sound', PagesInv, ListsInv, write
    PROVE  ListsInv'
  <1> DEFINE new == [mem EXCEPT !.valid = TRUE, !.abnormal = FALSE]
  <1>1. /\ Types /\ Types' /\ mem \in Mem /\ pc = "write" /\ Program(Content) /\ bad' = bad
        /\ job \in Values /\ next < PageNum /\ mem.timestamp \in Nat
        /\ \/ mem' = new /\ pc' = "idle"
           \/ mem' = mem /\ pc' = "write"
    BY MemOK DEF Sound, PcOK, Types, Working, write, Return
  <1>2. /\ Reach(Blocks) /\ Unlike(mem.nfree) /\ NoneNewer(Blocks) /\ mem.blk_addr \notin Lists
    BY <1>1 DEF ListsInv, Listing
  <1>3. /\ new.valid /\ new.blk_addr = mem.blk_addr /\ new.nfree = mem.nfree
        /\ new.timestamp = mem.timestamp
    BY <1>1 DEF Mem
  <1> HIDE DEF new
  <1>4. /\ mem'.blk_addr = mem.blk_addr /\ mem'.nfree = mem.nfree
        /\ mem'.timestamp = mem.timestamp /\ (pc' = "idle" => mem'.valid)
        /\ pc' \in {"idle", "write"}
    BY <1>1, <1>3
  <1>5. Content \in Page /\ Content.st = "data" /\ Content.ts <= mem.timestamp
    BY <1>1, ContentPage
  <1>6. /\ \A b \in Blocks : \A p \in Starts : HeaderAt(flash'[b], p) =>
             \/ HeaderAt(flash[b], p) /\ flash'[b][p] = flash[b][p]
             \/ flash'[b][p] = Content
        /\ \A b \in Blocks : AllTorn(flash[b]) => AllTorn(flash'[b])
    BY <1>1, <1>5, PageWritten
  <1>7. Lists' = Lists
    BY <1>4 DEF Lists
  <1>8. Reach(Blocks)'
    <2>1. \A b \in Blocks : b \in Lists \/ b = mem.blk_addr \/ Lost(b)'
      BY <1>1, <1>2, <1>6, LostKept DEF Reach
    <2> QED BY <2>1, <1>4, <1>7 DEF Reach
  <1>9. NoneNewer(Blocks)'
    <2>1. \A b \in Blocks : \A p \in Starts : HeaderAt(flash'[b], p) =>
            \/ HeaderAt(flash[b], p) /\ flash'[b][p] = flash[b][p]
            \/ flash'[b][p].ts <= mem'.timestamp
      BY <1>4, <1>5, <1>6
    <2>2. mem.timestamp <= mem'.timestamp
      BY <1>1, <1>4
    <2>3. \A b \in Blocks : \A p \in Starts : HeaderAt(flash'[b], p) => flash'[b][p].ts <= mem'.timestamp
      BY <2>1, <2>2, <1>1, <1>2, NewestKept
    <2> QED BY <2>3 DEF NoneNewer
  <1> QED BY <1>2, <1>4, <1>7, <1>8, <1>9 DEF ListsInv

LEMMA ListsRead ==
    ASSUME ListsInv, meson_rsv_read
    PROVE  ListsInv'
  <1>1. /\ pc = "idle" /\ UNCHANGED <<flash, bad, mem, next>>
        /\ pc' \in {"idle", "scan"}
    BY DEF meson_rsv_read
  <1> QED BY <1>1 DEF ListsInv, Listing, Reach, NoneNewer, Lists, Lost

\* A block whose headers are all torn has no header.
LEMMA TornNoHeader ==
    ASSUME NEW b, AllTorn(flash[b])
    PROVE  ~HasHeader(b)
  BY DEF AllTorn, HasHeader, HeaderAt

LEMMA ListsErase ==
    ASSUME Sound, ListsInv, meson_rsv_erase, NodeCount >= NBlocks
    PROVE  ListsInv'
  <1> DEFINE c == mem.blk_addr
             s == mem.nfree
             t == Append(s, c)
  <1>1. /\ mem \in Mem /\ pc = "idle" /\ mem.valid /\ c \in Blocks /\ s \in Seq(Blocks)
        /\ bad = {} /\ bad' = bad /\ flash' = flash
    BY MemOK DEF Sound, Types, PcOK, meson_rsv_erase
  <1>2. Reach(Blocks) /\ Unlike(s) /\ c \notin Lists
    BY <1>1 DEF ListsInv, Listing
  <1>3. NodeLeft(s)
    <2>1. Len(s) < NBlocks /\ Len(s) \in Nat
      BY <1>1, <1>2, ShortList, MemFields DEF Lists
    <2> QED BY <2>1, Sizes DEF NodeLeft
  <1>4. /\ ~mem'.valid /\ mem'.blk_addr = c /\ mem'.nfree = t
        /\ pc' = (IF s = <<>> THEN "abort" ELSE "erase") /\ next' = 1
    BY <1>3, EraseCases
  <1>5. Range(t) = Lists \cup {c} /\ Unlike(t) /\ t \in Seq(Blocks)
    BY <1>1, <1>2, AppendList DEF Lists
  <1> HIDE DEF t
  <1>6. Lists' = Lists \cup {c}
    BY <1>4, <1>5 DEF Lists
  <1>7. Reach(Blocks)'
    BY <1>1, <1>2, <1>6 DEF Reach, Lost
  <1>8. CASE pc' = "erase"
    <2>1. \A b \in Blocks : HasHeader(b)' => \E i \in next' .. Len(mem'.nfree) : mem'.nfree[i] = b
      <3> SUFFICES ASSUME NEW b \in Blocks, HasHeader(b)'
                   PROVE  \E i \in 1 .. Len(t) : t[i] = b
        BY <1>4
      <3>1. HasHeader(b)
        BY <1>1 DEF HasHeader
      <3>2. b \in Lists \cup {c}
        BY <3>1, <1>1, <1>2, TornNoHeader DEF Reach, Lost
      <3>3. b \in Range(t) /\ DOMAIN t = 1 .. Len(t)
        BY <3>2, <1>5, LenProperties
      <3> QED BY <3>3 DEF Range
    <2> QED BY <2>1, <1>1, <1>4, <1>5, <1>6, <1>7, <1>8 DEF ListsInv
  <1>9. CASE pc' = "abort"
    BY <1>4, <1>9 DEF ListsInv, Listing
  <1> QED BY <1>4, <1>8, <1>9

LEMMA ListsEraseBlock ==
    ASSUME Sound, PagesInv, ListsInv, erase_block
    PROVE  ListsInv'
  <1> DEFINE s == mem.nfree
             e == s[next]
  <1>1. /\ Types /\ pc = "erase" /\ ~mem.valid /\ next \in 1 .. Len(s) /\ Len(s) \in Nat
        /\ s \in Seq(Blocks) /\ flash' = ErasedFlash(e) /\ mem' = mem /\ bad' = bad
        /\ \/ next = Len(s) /\ pc' = "idle"
           \/ next # Len(s) /\ next' = next + 1 /\ pc' = pc
    BY MemOK DEF Sound, PcOK, erase_block, Return
  <1>2. /\ Reach(Blocks) /\ Unlike(s) /\ bad = {}
        /\ mem.blk_addr \in Lists \cup {NoBlock} \/ Lost(mem.blk_addr)
        /\ \A b \in Blocks : HasHeader(b) => \E i \in next .. Len(s) : s[i] = b
    BY <1>1 DEF ListsInv, Listing
  <1>3. e \in Blocks /\ e \in Lists
    <2>1. DOMAIN s = 1 .. Len(s) /\ s \in [1 .. Len(s) -> Blocks]
      BY <1>1, LenProperties
    <2> QED BY <2>1, <1>1 DEF Lists, Range
  <1> HIDE DEF e
  <1>4. \A b \in Blocks : flash'[b] = IF b = e THEN EmptyBlock ELSE flash[b]
    BY <1>1, <1>2, ErasedType
  <1>5. Lists' = Lists /\ mem'.blk_addr = mem.blk_addr
    BY <1>1 DEF Lists
  <1>6. \A b \in Blocks : Lost(b) => b \in Lists \/ Lost(b)'
    BY <1>1, <1>3, <1>4, LostKept
  <1>7. Reach(Blocks)'
    BY <1>2, <1>5, <1>6 DEF Reach
  <1>8. (mem.blk_addr \in Lists \cup {NoBlock} \/ Lost(mem.blk_addr))'
    <2>1. mem.blk_addr \in Blocks \cup {NoBlock}
      BY <1>1, MemOK
    <2> QED BY <2>1, <1>2, <1>5, <1>6
  <1>9. \A b \in Blocks : HasHeader(b)' => \E i \in next .. Len(s) : s[i] = b /\ i # next
    <2> SUFFICES ASSUME NEW b \in Blocks, HasHeader(b)'
                 PROVE  \E i \in next .. Len(s) : s[i] = b /\ i # next
      OBVIOUS
    <2>1. b # e
      BY <1>4, EmptyForms DEF HasHeader
    <2>2. HasHeader(b)
      BY <2>1, <1>4 DEF HasHeader
    <2>3. PICK i \in next .. Len(s) : s[i] = b
      BY <2>2, <1>2
    <2> QED BY <2>1, <2>3 DEF e
  <1>10. CASE next = Len(s) /\ pc' = "idle"
    <2>1. \A b \in Blocks : ~HasHeader(b)'
      <3>1. next .. Len(s) = {next}
        BY <1>1, <1>10
      <3> QED BY <3>1, <1>9
    <2>2. NoneNewer(Blocks)'
      BY <2>1 DEF NoneNewer, HasHeader
    <2> QED BY <2>2, <1>1, <1>2, <1>7, <1>8, <1>10 DEF ListsInv
  <1>11. CASE next # Len(s) /\ next' = next + 1 /\ pc' = pc
    <2>1. \A i \in next .. Len(s) : i # next => i \in next' .. Len(s)
      BY <1>1, <1>11
    <2>2. \A b \in Blocks : HasHeader(b)' => \E i \in next' .. Len(s) : s[i] = b
      BY <2>1, <1>9
    <2> QED BY <2>2, <1>1, <1>2, <1>7, <1>8, <1>11 DEF ListsInv
  <1> QED BY <1>1, <1>10, <1>11

LEMMA ListsStep ==
    ASSUME Sound, Sound', PagesInv, ListsInv, [Next]_vars, fails = 0, fails' = 0,
           NodeCount >= NBlocks
    PROVE  ListsInv'
  <1>1. CASE PowerUp \/ meson_rsv_free \/ PowerCut
    BY <1>1 DEF PowerUp, meson_rsv_free, PowerCut, ListsInv, Listing
  <1>2. CASE write_fails
    BY <1>2 DEF write_fails
  <1>3. CASE \E v \in Values : meson_rsv_save(v)
    BY <1>3, ListsSave
  <1>4. CASE UNCHANGED vars
    BY <1>4 DEF vars, ListsInv, Listing, Reach, NoneNewer, Lists, Lost, HasHeader
  <1> QED BY <1>1, <1>2, <1>3, <1>4, ListsScan, ListsSelect, ListsSame, ListsNext, ListsFirst,
             ListsWipe, ListsPrepare, ListsWrite, ListsEraseBlock, ListsRead, ListsErase
          DEF Next, Driver

-----------------------------------------------------------------------------
(* FaultsInv: a block is spoiled once per fault.                           *)

\* What one step does to the flash: erases, an erase cut short, or one page of a save.
LEMMA FlashCases ==
    ASSUME Sound, [Next]_vars
    PROVE  \/ /\ \A b \in Blocks : flash'[b] = flash[b] \/ flash'[b] = EmptyBlock
              /\ cuts' + fails' >= cuts + fails
           \/ /\ \E c \in Blocks : \A b \in Blocks :
                    flash'[b] = flash[b] \/ (b = c /\ flash'[b] \in {EmptyBlock, RuinedBlock})
              /\ cuts' + fails' = cuts + fails + 1
           \/ pc = "write" /\ Program(Content) /\ cuts' + fails' >= cuts + fails
           \/ pc = "write" /\ Program(Torn) /\ cuts' + fails' = cuts + fails + 1
  <1>1. Types /\ cuts \in Nat /\ fails \in Nat
    BY DEF Sound, Types
  <1>2. CASE flash' = flash /\ cuts' = cuts /\ fails' = fails
    BY <1>1, <1>2
  <1>3. CASE \E c : flash' = ErasedFlash(c) /\ cuts' = cuts /\ fails' = fails
    BY <1>1, <1>3, ErasedType
  <1>4. CASE write
    BY <1>1, <1>4 DEF write
  <1>5. CASE write_fails
    BY <1>1, <1>5 DEF write_fails
  <1>6. CASE PowerCut
    <2>1. cuts' + fails' = cuts + fails + 1
      BY <1>1, <1>6 DEF PowerCut
    <2>2. CASE UNCHANGED flash
      BY <2>1, <2>2, <1>1
    <2>3. CASE \E c \in Erasing, result \in {EmptyBlock, RuinedBlock} :
                 flash' = [flash EXCEPT ![c] = result]
      <3>1. PICK c \in Erasing, result \in {EmptyBlock, RuinedBlock} :
                 flash' = [flash EXCEPT ![c] = result]
        BY <2>3
      <3>2. \A b \in Blocks : flash'[b] = flash[b] \/ (b = c /\ flash'[b] = result)
        <4>1. flash \in [Blocks -> [Pages -> Page]]
          BY <1>1 DEF Types
        <4> QED BY <3>1, <4>1
      <3>3. CASE c \in Blocks
        BY <2>1, <3>2, <3>3
      <3>4. CASE c \notin Blocks
        BY <2>1, <3>2, <3>4, <1>1
      <3> QED BY <3>3, <3>4
    <2>4. CASE pc = "write" /\ \E page \in {Torn, Content} : Program(page)
      BY <2>1, <2>4, <1>1
    <2> QED BY <2>2, <2>3, <2>4, <1>6 DEF PowerCut
  <1>7. CASE \/ PowerUp \/ scan_block \/ select_copy \/ search_same \/ search_next \/ search_first
             \/ meson_rsv_read \/ meson_rsv_erase \/ UNCHANGED vars
             \/ \E v \in Values : meson_rsv_save(v)
    BY <1>2, <1>7 DEF PowerUp, scan_block, select_copy, search_same, search_next, search_first,
                      meson_rsv_read, meson_rsv_erase, meson_rsv_save, vars
  <1>8. CASE meson_rsv_free \/ wipe \/ erase_block
    BY <1>3, <1>8 DEF meson_rsv_free, wipe, erase_block
  <1>9. CASE prepare
    BY <1>2, <1>3, <1>9 DEF prepare
  <1> QED BY <1>4, <1>5, <1>6, <1>7, <1>8, <1>9 DEF Next, Driver

LEMMA FiniteBlocks == IsFiniteSet(Blocks) /\ Cardinality(Blocks) = NBlocks
  <1>1. 0 \in Int /\ NBlocks - 1 \in Int /\ ~(0 > NBlocks - 1)
    BY Sizes
  <1>2. IsFiniteSet(Blocks) /\ Cardinality(Blocks) = ((NBlocks - 1) - 0) + 1
    BY <1>1, FS_Interval DEF Blocks
  <1> QED BY <1>2, Sizes

\* A set of blocks that takes in one more at most.
LEMMA OneMore ==
    ASSUME NEW S, S \subseteq Blocks, NEW T, NEW c
    PROVE  /\ T \subseteq S => Cardinality(T) <= Cardinality(S)
           /\ T \subseteq S \cup {c} => Cardinality(T) <= Cardinality(S) + 1
           /\ Cardinality(S) \in Nat
           /\ T \subseteq Blocks => Cardinality(T) \in Nat
  <1>1. IsFiniteSet(S) /\ Cardinality(S) \in Nat
    BY FiniteBlocks, FS_Subset, FS_CardinalityType
  <1>2. ASSUME T \subseteq S PROVE Cardinality(T) <= Cardinality(S)
    BY <1>1, <1>2, FS_Subset
  <1>3. ASSUME T \subseteq S \cup {c} PROVE Cardinality(T) <= Cardinality(S) + 1
    <2> DEFINE U == S \cup {c}
    <2>1. IsFiniteSet(U) /\ Cardinality(U) = IF c \in S THEN Cardinality(S) ELSE Cardinality(S) + 1
      BY <1>1, FS_AddElement
    <2> HIDE DEF U
    <2>2. T \subseteq U
      BY <1>3 DEF U
    <2>3. Cardinality(T) <= Cardinality(U) /\ IsFiniteSet(T)
      BY <2>1, <2>2, FS_Subset
    <2>4. Cardinality(T) \in Nat
      BY <2>3, FS_CardinalityType
    <2> QED BY <2>1, <2>3, <2>4, <1>1
  <1>4. ASSUME T \subseteq Blocks PROVE Cardinality(T) \in Nat
    BY <1>4, FiniteBlocks, FS_Subset, FS_CardinalityType
  <1> QED BY <1>1, <1>2, <1>3, <1>4

LEMMA OneFault ==
    ASSUME NEW S, NEW T, S \subseteq Blocks, T \subseteq Blocks, NEW m \in Nat, NEW n \in Nat,
           Cardinality(S) <= m,
           \/ T \subseteq S /\ n >= m
           \/ (\E c : T \subseteq S \cup {c}) /\ n = m + 1
    PROVE  Cardinality(T) <= n
  <1>1. Cardinality(S) \in Nat /\ Cardinality(T) \in Nat
    BY OneMore
  <1>2. CASE T \subseteq S /\ n >= m
    <2>1. Cardinality(T) <= Cardinality(S)
      BY <1>2, OneMore
    <2> QED BY <2>1, <1>1, <1>2
  <1>3. CASE (\E c : T \subseteq S \cup {c}) /\ n = m + 1
    <2>1. Cardinality(T) <= Cardinality(S) + 1
      BY <1>3, OneMore
    <2> QED BY <2>1, <1>1, <1>3
  <1> QED BY <1>2, <1>3

LEMMA TornStep ==
    ASSUME Sound, [Next]_vars
    PROVE  \/ TornBlocks' \subseteq TornBlocks /\ cuts' + fails' >= cuts + fails
           \/ /\ \E c : TornBlocks' \subseteq TornBlocks \cup {c}
              /\ cuts' + fails' = cuts + fails + 1
  <1>1. Types /\ \A p \in Pages : EmptyBlock[p].st # "torn"
    BY EmptyForms DEF Sound
  <1>2. ASSUME \A b \in Blocks : flash'[b] = flash[b] \/ flash'[b] = EmptyBlock
        PROVE  TornBlocks' \subseteq TornBlocks
    BY <1>1, <1>2 DEF TornBlocks
  <1>3. ASSUME \E c \in Blocks : \A b \in Blocks :
                 flash'[b] = flash[b] \/ (b = c /\ flash'[b] \in {EmptyBlock, RuinedBlock})
        PROVE  \E c : TornBlocks' \subseteq TornBlocks \cup {c}
    <2>1. PICK c \in Blocks : \A b \in Blocks :
                 flash'[b] = flash[b] \/ (b = c /\ flash'[b] \in {EmptyBlock, RuinedBlock})
      BY <1>3
    <2>2. TornBlocks' \subseteq TornBlocks \cup {c}
      BY <2>1 DEF TornBlocks
    <2> QED BY <2>2
  <1>4. ASSUME pc = "write", Program(Content) \/ Program(Torn)
        PROVE  /\ Program(Content) => TornBlocks' \subseteq TornBlocks
               /\ Program(Torn) => \E c : TornBlocks' \subseteq TornBlocks \cup {c}
    <2>1. /\ next < PageNum /\ job \in Values /\ mem.blk_addr \in Blocks
      BY <1>4 DEF Sound, PcOK, Working
    <2>2. Content \in Page /\ Content.st = "data" /\ Torn \in Page
      BY <2>1, <1>1, ContentPage, BlockTypes
    <2>3. ASSUME Program(Content) PROVE TornBlocks' \subseteq TornBlocks
      <3>1. \A b \in Blocks, p \in Pages :
              flash'[b][p] = IF b = mem.blk_addr /\ p = Target THEN Content ELSE flash[b][p]
        BY <2>1, <2>2, <2>3, <1>1, Programmed
      <3> QED BY <3>1, <2>2 DEF TornBlocks
    <2>4. ASSUME Program(Torn) PROVE TornBlocks' \subseteq TornBlocks \cup {mem.blk_addr}
      <3>1. \A b \in Blocks, p \in Pages :
              flash'[b][p] = IF b = mem.blk_addr /\ p = Target THEN Torn ELSE flash[b][p]
        BY <2>1, <2>2, <2>4, <1>1, Programmed
      <3> QED BY <3>1 DEF TornBlocks
    <2> QED BY <2>3, <2>4
  <1> QED BY <1>2, <1>3, <1>4, FlashCases

LEMMA FaultsStep ==
    ASSUME Sound, FaultsInv, [Next]_vars
    PROVE  FaultsInv'
  <1>1. /\ Types /\ cuts \in Nat /\ fails \in Nat /\ bad \subseteq Blocks
        /\ TornBlocks \subseteq Blocks
        /\ Cardinality(TornBlocks) <= cuts + fails /\ Cardinality(bad) <= MaxBad
    BY DEF Sound, Types, FaultsInv, TornBlocks
  <1>2. Cardinality(TornBlocks) \in Nat /\ Cardinality(bad) \in Nat /\ MaxBad \in Nat
    BY <1>1, OneMore, Sizes
  <1>3. Cardinality(TornBlocks') <= cuts' + fails'
    <2>1. TornBlocks' \subseteq Blocks
      BY DEF TornBlocks
    <2>2. cuts + fails \in Nat /\ cuts' + fails' \in Nat
      BY SoundStep DEF Sound, Types
    <2> DEFINE m == cuts + fails
               n == cuts' + fails'
    <2>3. \/ TornBlocks' \subseteq TornBlocks /\ n >= m
          \/ (\E c : TornBlocks' \subseteq TornBlocks \cup {c}) /\ n = m + 1
      BY TornStep
    <2> HIDE DEF m, n
    <2>4. Cardinality(TornBlocks) <= m /\ m \in Nat /\ n \in Nat
      BY <1>1, <2>2 DEF m, n
    <2>5. Cardinality(TornBlocks') <= n
      BY <1>1, <2>1, <2>3, <2>4, OneFault
    <2> QED BY <2>5 DEF n
  <1>4. bad' = bad \/ (Cardinality(bad) < MaxBad /\ \E c : bad' = bad \cup {c})
    BY DEF Next, Driver, vars, PowerUp, scan_block, select_copy, meson_rsv_free, search_same,
           search_next, search_first, wipe, prepare, write, write_fails, erase_block,
           meson_rsv_save, meson_rsv_read, meson_rsv_erase, PowerCut
  <1>5. Cardinality(bad') <= MaxBad
    <2>1. CASE bad' = bad
      BY <2>1, <1>1
    <2>2. CASE Cardinality(bad) < MaxBad /\ \E c : bad' = bad \cup {c}
      <3>1. PICK c : bad' = bad \cup {c}
        BY <2>2
      <3>2. Cardinality(bad \cup {c}) <= Cardinality(bad) + 1
        BY <1>1, OneMore
      <3>3. bad' \subseteq Blocks
        BY SoundStep DEF Sound, Types
      <3>4. Cardinality(bad') \in Nat
        BY <3>3, OneMore
      <3> QED BY <3>1, <3>2, <3>4, <2>2, <1>2
    <2> QED BY <2>1, <2>2, <1>4
  <1> QED BY <1>3, <1>5 DEF FaultsInv

-----------------------------------------------------------------------------
(* The whole invariant, and what follows from it.                          *)

NandInv ==
    /\ Sound /\ FaultsInv
    /\ fails <= 1 => PagesInv
    /\ fails = 0 => ListsInv

LEMMA NandInit == Init => NandInv
  <1> SUFFICES ASSUME Init PROVE NandInv
    OBVIOUS
  <1>1. FaultsInv
    <2>1. TornBlocks = {}
      BY EmptyForms DEF Init, TornBlocks
    <2> QED BY <2>1, FS_EmptySet, Sizes DEF Init, FaultsInv
  <1>2. ListsInv
    BY DEF Init, ListsInv, Listing
  <1> QED BY <1>1, <1>2, InitSound, PagesInit DEF NandInv

LEMMA FailsStep == [Next]_vars => fails' = fails \/ fails' = fails + 1
  BY DEF Next, Driver, vars, PowerUp, scan_block, select_copy, meson_rsv_free, search_same,
         search_next, search_first, wipe, prepare, write, write_fails, erase_block,
         meson_rsv_save, meson_rsv_read, meson_rsv_erase, PowerCut

LEMMA NandStep ==
    ASSUME NandInv, [Next]_vars, NodeCount >= NBlocks
    PROVE  NandInv'
  <1>1. Sound /\ FaultsInv /\ Sound'
    BY SoundStep DEF NandInv
  <1>2. fails \in Nat /\ fails' \in Nat
    BY <1>1 DEF Sound, Types
  <1>3. fails' = fails \/ fails' = fails + 1
    BY FailsStep
  <1>4. ASSUME fails' <= 1 PROVE PagesInv'
    <2>1. fails <= 1
      BY <1>2, <1>3, <1>4
    <2>2. PagesInv /\ (fails = 0 => ListsInv)
      BY <2>1 DEF NandInv
    <2> QED BY <2>2, <1>1, <1>4, PagesStep
  <1>5. ASSUME fails' = 0 PROVE ListsInv'
    <2>1. fails = 0
      BY <1>2, <1>3, <1>5
    <2>2. PagesInv /\ ListsInv
      BY <2>1 DEF NandInv
    <2> QED BY <2>1, <2>2, <1>1, <1>5, ListsStep
  <1> QED BY <1>1, <1>4, <1>5, FaultsStep DEF NandInv

LEMMA NandInvariant ==
    ASSUME NodeCount >= NBlocks
    PROVE  Spec => []NandInv
  BY NandInit, NandStep, PTL DEF Spec

LEMMA ListSound ==
    ASSUME Sound, fails = 0 => PagesInv /\ ListsInv
    PROVE  FreeListSound
  <1> SUFFICES ASSUME mem.valid, fails = 0
               PROVE  /\ \A i \in DOMAIN mem.nfree : mem.nfree[i] # mem.blk_addr
                      /\ \A i, j \in DOMAIN mem.nfree : i # j => mem.nfree[i] # mem.nfree[j]
    BY DEF FreeListSound
  <1>1. CASE Unlike(mem.nfree) /\ mem.blk_addr \notin Lists
    BY <1>1 DEF Unlike, Lists, Range
  <1>2. CASE pc = "off"
    BY <1>2, NothingFields DEF Sound, PcOK
  <1>3. CASE pc = "scan"
    <2>1. Scanned(scan.start)
      BY <1>3 DEF PagesInv, Resume
    <2> QED BY <2>1, <1>1 DEF Scanned
  <1>4. CASE pc \in Listing \cup {"free"}
    BY <1>1, <1>4 DEF ListsInv
  <1>5. CASE pc = "abort"
    <2>1. mem.nfree = <<>>
      BY <1>5 DEF ListsInv
    <2>2. DOMAIN mem.nfree = {}
      BY <2>1
    <2> QED BY <2>2
  <1> QED BY <1>2, <1>3, <1>4, <1>5 DEF Sound, Types, Listing

\* The free list never holds the valid block, nor a block twice, while no page has
\* failed to program (aml_rsv.c, meson_rsv_scan and meson_rsv_save).  The nodes are
\* enough for the blocks of a region, as MTD_RSV_BLOCK_CNT is for all regions together.
THEOREM NandRsvFreeListSound ==
    ASSUME NodeCount >= NBlocks
    PROVE  Spec => []FreeListSound
  <1>1. NandInv => FreeListSound
    BY ListSound DEF NandInv
  <1> QED BY <1>1, NandInvariant, PTL

\* A region with more blocks than can be lost has one that is free.
LEMMA BlockLeft ==
    ASSUME Sound, FaultsInv, fails = 0, Reach(Blocks), NBlocks >= MaxCuts + MaxBad + 2
    PROVE  mem.nfree # <<>>
  <1> SUFFICES ASSUME mem.nfree = <<>> PROVE FALSE
    OBVIOUS
  <1> DEFINE L == bad \cup TornBlocks
             c == mem.blk_addr
  <1>1. /\ Types /\ cuts \in 0 .. MaxCuts /\ bad \subseteq Blocks /\ TornBlocks \subseteq Blocks
        /\ Cardinality(TornBlocks) <= cuts /\ Cardinality(bad) <= MaxBad
    BY DEF Sound, Types, FaultsInv, TornBlocks
  <1>2. Blocks \subseteq L \cup {c}
    <2>1. \A b \in Blocks : b = c \/ Lost(b)
      BY NothingFields DEF Reach, Lists, NothingKnown
    <2>2. \A b \in Blocks : Lost(b) => b \in L
      <3>1. 0 \in Headers /\ 0 \in Pages
        BY HeaderRange
      <3> QED BY <3>1 DEF Lost, AllTorn, TornBlocks
    <2> QED BY <2>1, <2>2
  <1>3. /\ IsFiniteSet(bad) /\ IsFiniteSet(TornBlocks)
        /\ Cardinality(bad) \in Nat /\ Cardinality(TornBlocks) \in Nat
    BY <1>1, FiniteBlocks, FS_Subset, FS_CardinalityType
  <1>4. Cardinality(L) <= Cardinality(bad) + Cardinality(TornBlocks) /\ Cardinality(L) \in Nat
    <2>1. /\ IsFiniteSet(bad \cap TornBlocks) /\ Cardinality(bad \cap TornBlocks) \in Nat
      BY <1>3, FS_Intersection, FS_CardinalityType
    <2>2. Cardinality(L) = Cardinality(bad) + Cardinality(TornBlocks) - Cardinality(bad \cap TornBlocks)
      BY <1>3, FS_Union
    <2>3. Cardinality(L) \in Nat
      BY <1>1, OneMore
    <2> QED BY <2>1, <2>2, <2>3, <1>3
  <1>5. NBlocks <= Cardinality(L) + 1
    <2>1. L \subseteq Blocks
      BY <1>1
    <2> HIDE DEF L
    <2> QED BY <2>1, <1>2, FiniteBlocks, OneMore
  <1> HIDE DEF L
  <1>6. Cardinality(TornBlocks) <= MaxCuts
    BY <1>1, <1>3, Sizes
  <1> QED BY <1>1, <1>3, <1>4, <1>5, <1>6, Sizes

LEMMA OutOfBlocksStep ==
    ASSUME Sound, FaultsInv, ListsInv, fails = 0, [Next]_vars, pc # "abort",
           NBlocks >= MaxCuts + MaxBad + 2
    PROVE  pc' # "abort"
  <1>1. CASE search_next
    <2> DEFINE page == mem.page_addr + PageNum
               m == AtPage(mem, page)
    <2>1. mem \in Mem /\ pc = "search" /\ (pc' = "wipe" \/ MoveToNextBlock(m))
      BY <1>1 DEF Sound, Types, search_next, AtPage
    <2>2. m.nfree = mem.nfree
      BY <2>1, ChosenKeeps
    <2>3. m.nfree # <<>>
      BY <2>1, <2>2, BlockLeft DEF ListsInv, Listing
    <2> HIDE DEF m
    <2> QED BY <2>1, <2>3 DEF MoveToNextBlock, Return
  <1>2. CASE wipe
    <2>1. pc = "wipe" /\ MoveToNextBlock(mem)
      BY <1>2 DEF wipe
    <2>2. mem.nfree # <<>>
      BY <2>1, BlockLeft DEF ListsInv, Listing
    <2> QED BY <2>1, <2>2 DEF MoveToNextBlock, Return
  <1>3. CASE search_first
    <2>1. mem.nfree # <<>>
      BY <1>3, BlockLeft DEF search_first, ListsInv, Listing
    <2> QED BY <2>1, <1>3 DEF search_first
  <1>4. CASE meson_rsv_erase
    <2>1. mem.nfree # <<>> /\ pc = "idle"
      BY <1>4, BlockLeft DEF meson_rsv_erase, ListsInv, Listing
    <2> QED BY <2>1, <1>4, EraseCases
  <1>5. CASE \/ PowerUp \/ scan_block \/ select_copy \/ meson_rsv_free \/ search_same
             \/ prepare \/ write \/ write_fails \/ erase_block
             \/ \E v \in Values : meson_rsv_save(v)
             \/ meson_rsv_read \/ PowerCut \/ UNCHANGED vars
    BY <1>5 DEF PowerUp, scan_block, select_copy, meson_rsv_free, search_same, prepare, write,
                write_fails, erase_block, meson_rsv_save, meson_rsv_read, PowerCut, vars, Return
  <1> QED BY <1>1, <1>2, <1>3, <1>4, <1>5 DEF Next, Driver

\* With two blocks more than power cuts and bad blocks can take away, a save always
\* finds a block: the code after RE_SEARCH that reads through an empty list is not
\* reached while no page has failed to program.
THEOREM NandRsvNeverOutOfBlocks ==
    ASSUME NodeCount >= NBlocks, NBlocks >= MaxCuts + MaxBad + 2
    PROVE  Spec => [](fails = 0 => NeverOutOfBlocks)
  <1> DEFINE Left == fails = 0 => pc # "abort"
  <1>1. Init => Left
    BY DEF Init
  <1>2. ASSUME NandInv, NandInv', Left, [Next]_vars
        PROVE  Left'
    <2> SUFFICES ASSUME fails' = 0 PROVE pc' # "abort"
      OBVIOUS
    <2>1. fails' = fails \/ fails' = fails + 1
      BY <1>2, FailsStep
    <2>2. fails = 0 /\ Sound /\ FaultsInv /\ ListsInv
      BY <2>1, <1>2 DEF NandInv, Sound, Types
    <2> QED BY <2>2, <1>2, OutOfBlocksStep
  <1>3. Left => (fails = 0 => NeverOutOfBlocks)
    BY DEF NeverOutOfBlocks
  <1> QED BY <1>1, <1>2, <1>3, NandInvariant, PTL DEF Spec

LEMMA ErasedBefore ==
    ASSUME Sound, PagesInv, [Next]_vars, NEW b \in Blocks, NEW p \in Pages,
           flash[b][p].st = "data", flash'[b][p] # flash[b][p]
    PROVE  flash'[b] \in {EmptyBlock, RuinedBlock}
  <1>1. CASE \A c \in Blocks : flash'[c] = flash[c] \/ flash'[c] = EmptyBlock
    BY <1>1
  <1>2. CASE \E d \in Blocks : \A c \in Blocks :
               flash'[c] = flash[c] \/ (c = d /\ flash'[c] \in {EmptyBlock, RuinedBlock})
    BY <1>2
  <1>3. ASSUME pc = "write", Program(Content) \/ Program(Torn) PROVE FALSE
    <2>1. Types /\ next < PageNum /\ job \in Values /\ mem.blk_addr \in Blocks
      BY <1>3 DEF Sound, PcOK, Working
    <2>2. /\ Content \in Page /\ Torn \in Page /\ Content.st = "data" /\ Torn.st = "torn"
      BY <2>1, ContentPage, BlockTypes
    <2>3. PICK page \in {Content, Torn} : Program(page)
      BY <1>3
    <2>4. page \in Page /\ page.st # "erased"
      BY <2>2
    <2>5. /\ Target \in Pages
          /\ \A c \in Blocks : c # mem.blk_addr => flash'[c] = flash[c]
          /\ \A q \in Pages : flash'[mem.blk_addr][q] = IF q = Target THEN page
                                                        ELSE flash[mem.blk_addr][q]
      BY <1>3, <2>3, <2>4, PageWritten
    <2>6. b = mem.blk_addr /\ p = Target
      BY <2>5
    <2>7. Clear(flash[mem.blk_addr], Target)
      BY <1>3 DEF PagesInv, Current
    <2>8. flash[mem.blk_addr][Target].st = "erased"
      <3>1. Target >= Target
        BY <2>5, PageRange
      <3> QED BY <3>1, <2>5, <2>7 DEF Clear
    <2> QED BY <2>6, <2>8
  <1> QED BY <1>1, <1>2, <1>3, FlashCases

\* A page that holds data is erased with its block before it is programmed again, as
\* long as at most one page has failed to program (meson_rsv_write after RE_SEARCH).
THEOREM NandRsvProgramsErasedPages ==
    ASSUME NodeCount >= NBlocks, MaxFails <= 1
    PROVE  Spec => ProgramsErasedPages
  <1>1. NandInv /\ [Next]_vars =>
          [\A b \in Blocks, p \in Pages :
             flash[b][p].st = "data" /\ flash'[b][p] # flash[b][p]
               => flash'[b] \in {EmptyBlock, RuinedBlock}]_flash
    <2> SUFFICES ASSUME NandInv, [Next]_vars, NEW b \in Blocks, NEW p \in Pages,
                        flash[b][p].st = "data", flash'[b][p] # flash[b][p]
                 PROVE  flash'[b] \in {EmptyBlock, RuinedBlock}
      OBVIOUS
    <2>1. fails <= 1
      BY Sizes DEF NandInv, Sound, Types
    <2>2. Sound /\ PagesInv
      BY <2>1 DEF NandInv
    <2> QED BY <2>2, ErasedBefore
  <1> QED BY <1>1, NandInvariant, PTL DEF Spec, ProgramsErasedPages

-----------------------------------------------------------------------------
(* What the blocks hold while no page has failed to program.  f is what    *)
(* flash holds of a block, fl of all of them.                              *)

Chips == [Blocks -> BlockPages]

\* The last page of the copy at s is written, and with it the copy is complete.
Holds(f, s) == f[s + PageNum - 1].st = "data"

\* The pages of a block have the timestamp of the block, those of a copy its content.
Uniform(f) == \A p, q \in Pages : f[p].st = "data" /\ f[q].st = "data" => f[p].ts = f[q].ts
Alike(f) == \A s \in Starts : \A k \in 0 .. PageNum - 1 :
              f[s + k].st = "data" => f[s + k] = [f[s] EXCEPT !.part = k]

\* Nothing is written behind a copy that is not complete.
OneBroken(f) == \A s, t \in Starts : s < t /\ ~Holds(f, s)
                  => \A k \in 0 .. PageNum - 1 : f[t + k].st = "erased"

Tidy(f) == Uniform(f) /\ Alike(f) /\ (f = RuinedBlock \/ OneBroken(f))

\* The header of a tidy block is on its first page.
Dated(f) == f[0].st = "data"
Time(f) == f[0].ts

Distinct(fl) == \A b, c \in Blocks : b # c /\ Dated(fl[b]) /\ Dated(fl[c]) => Time(fl[b]) # Time(fl[c])

Sorted(fl) == fl \in Chips /\ (\A b \in Blocks : Formed(fl[b]) /\ Tidy(fl[b])) /\ Distinct(fl)

\* The last complete copy of a block, and the block with the newest ones.
LastCopy(f, s) == /\ s \in Starts /\ Holds(f, s)
                  /\ \A t \in Starts : s < t => ~Holds(f, t)
Latest(fl, b) == /\ \E s \in Starts : Holds(fl[b], s)
                 /\ \A c \in Blocks : Dated(fl[c]) => Time(fl[c]) <= Time(fl[b])

LEMMA LastPage ==
    ASSUME NEW s \in Starts
    PROVE  /\ PageNum - 1 \in 0 .. PageNum - 1 /\ s + PageNum - 1 \in Pages
           /\ s + (PageNum - 1) = s + PageNum - 1 /\ s \in Pages /\ s \in Int /\ s >= 0
           /\ 0 \in 0 .. PageNum - 1 /\ s + 0 = s
  <1>1. s \in Int /\ s >= 0 /\ s \in Pages /\ PageNum \in Int /\ PageNum >= 1
    BY Sizes
  <1>2. PageNum - 1 \in 0 .. PageNum - 1
    BY <1>1
  <1>3. s + (PageNum - 1) \in Pages
    BY <1>2, CopyFits
  <1>4. s + (PageNum - 1) = s + PageNum - 1
    BY <1>1
  <1> QED BY <1>1, <1>2, <1>3, <1>4

LEMMA PageFacts ==
    ASSUME NEW f \in BlockPages, NEW p \in Pages
    PROVE  /\ f[p] \in Page /\ f[p].ts \in Int /\ f[p].ts \in Nat
           /\ f[p].val \in Values \cup {None}
  <1>1. f[p] \in Page
    BY DEF BlockPages
  <1> QED BY <1>1, Sizes DEF Page

LEMMA TidyBlocks ==
    /\ Tidy(EmptyBlock) /\ Tidy(RuinedBlock)
    /\ ~Dated(EmptyBlock) /\ ~Dated(RuinedBlock)
    /\ \A s \in Starts : ~Holds(EmptyBlock, s) /\ ~Holds(RuinedBlock, s)
  <1>1. \A p \in Pages : EmptyBlock[p].st = "erased" /\ RuinedBlock[p].st = "torn"
    BY EmptyForms
  <1>2. 0 \in Pages
    BY ZeroStart, Sizes
  <1>3. \A s \in Starts : \A k \in 0 .. PageNum - 1 : s + k \in Pages
    BY CopyFits
  <1>4. \A s \in Starts : s + PageNum - 1 \in Pages
    BY LastPage
  <1>5. Uniform(EmptyBlock) /\ Uniform(RuinedBlock)
    BY <1>1 DEF Uniform
  <1>6. Alike(EmptyBlock) /\ Alike(RuinedBlock)
    BY <1>1, <1>3 DEF Alike
  <1>7. OneBroken(EmptyBlock)
    BY <1>1, <1>3 DEF OneBroken
  <1> QED BY <1>1, <1>2, <1>4, <1>5, <1>6, <1>7 DEF Tidy, Dated, Holds

\* What a complete copy says of its block.
LEMMA HeldCopy ==
    ASSUME NEW f \in BlockPages, Formed(f), Tidy(f), NEW s \in Starts, Holds(f, s)
    PROVE  /\ \A k \in 0 .. PageNum - 1 : f[s + k].st = "data"
           /\ f[s].st = "data" /\ OneBroken(f) /\ f # RuinedBlock
           /\ Dated(f) /\ f[s].ts = Time(f)
           /\ \A t \in Starts : t < s => Holds(f, t)
  <1>1. \A t \in Starts : Holds(f, t) => \A k \in 0 .. PageNum - 1 : f[t + k].st = "data"
    <2> SUFFICES ASSUME NEW t \in Starts, Holds(f, t), NEW k \in 0 .. PageNum - 1
                 PROVE  f[t + k].st = "data"
      OBVIOUS
    <2>1. PageNum - 1 \in 0 .. PageNum - 1 /\ f[t + (PageNum - 1)].st = "data"
      BY LastPage DEF Holds
    <2> QED BY <2>1 DEF Formed, CopyInOrder
  <1>2. \A t \in Starts : Holds(f, t) => f[t].st = "data"
    <2>1. \A t \in Starts : 0 \in 0 .. PageNum - 1 /\ t + 0 = t
      BY LastPage
    <2> QED BY <2>1, <1>1
  <1>3. f # RuinedBlock /\ OneBroken(f)
    BY TidyBlocks DEF Tidy
  <1>4. ASSUME NEW t \in Starts, t < s PROVE Holds(f, t)
    <2> SUFFICES ASSUME ~Holds(f, t) PROVE FALSE
      OBVIOUS
    <2>1. f[s + (PageNum - 1)].st = "erased"
      BY <1>3, <1>4, LastPage DEF OneBroken
    <2> QED BY <2>1, LastPage DEF Holds
  <1>5. f[0].st = "data"
    <2>1. 0 \in Starts /\ (s = 0 \/ 0 < s)
      BY ZeroStart, LastPage
    <2> QED BY <2>1, <1>2, <1>4
  <1>6. f[s].ts = f[0].ts
    BY <1>2, <1>5, LastPage, ZeroStart DEF Tidy, Uniform
  <1> QED BY <1>1, <1>2, <1>3, <1>4, <1>5, <1>6 DEF Dated, Time

\* Complete copies are those whose last page is there.
WholeIn(f, p) == /\ f[p].st = "data"
                 /\ \A k \in 0 .. PageNum - 1 : f[p + k] = [f[p] EXCEPT !.part = k]

LEMMA WholeHolds ==
    ASSUME NEW f \in BlockPages, Formed(f), Tidy(f), NEW s \in Starts
    PROVE  WholeIn(f, s) <=> Holds(f, s)
  <1>1. ASSUME WholeIn(f, s) PROVE Holds(f, s)
    <2>1. f[s + PageNum - 1] = [f[s] EXCEPT !.part = PageNum - 1] /\ f[s].st = "data"
      BY <1>1, LastPage DEF WholeIn
    <2>2. f[s] \in Page
      BY PageFacts, LastPage
    <2>3. [f[s] EXCEPT !.part = PageNum - 1].st = f[s].st
      BY <2>2 DEF Page
    <2> QED BY <2>1, <2>3 DEF Holds
  <1>2. ASSUME Holds(f, s) PROVE WholeIn(f, s)
    <2>1. f[s].st = "data" /\ \A k \in 0 .. PageNum - 1 : f[s + k].st = "data"
      BY <1>2, HeldCopy
    <2>2. Alike(f)
      BY DEF Tidy
    <2> QED BY <2>1, <2>2 DEF WholeIn, Alike
  <1> QED BY <1>1, <1>2

CopyIn(fl, b, s) == [blk |-> b, page |-> s, ts |-> fl[b][s].ts, val |-> fl[b][s].val]
CopiesIn(fl) == {CopyIn(fl, c[1], c[2]) : c \in {d \in Blocks \X Starts : WholeIn(fl[d[1]], d[2])}}

LEMMA CopiesNow == Copies = CopiesIn(flash) /\ Copies' = CopiesIn(flash')
  BY DEF Copies, CopiesIn, Places, Complete, WholeIn, CopyAt, CopyIn

LEMMA CopyFields ==
    ASSUME NEW fl, NEW b, NEW s
    PROVE  LET c == CopyIn(fl, b, s)
           IN  c.blk = b /\ c.page = s /\ c.ts = fl[b][s].ts /\ c.val = fl[b][s].val
  BY DEF CopyIn

LEMMA InCopies ==
    ASSUME NEW fl, Sorted(fl)
    PROVE  /\ \A c \in CopiesIn(fl) : \E b \in Blocks, s \in Starts :
                Holds(fl[b], s) /\ c = CopyIn(fl, b, s)
           /\ \A b \in Blocks, s \in Starts : Holds(fl[b], s) => CopyIn(fl, b, s) \in CopiesIn(fl)
  <1>1. \A b \in Blocks, s \in Starts : WholeIn(fl[b], s) <=> Holds(fl[b], s)
    <2>1. \A b \in Blocks : fl[b] \in BlockPages /\ Formed(fl[b]) /\ Tidy(fl[b])
      BY DEF Sorted, Chips
    <2> QED BY <2>1, WholeHolds
  <1>2. ASSUME NEW c \in CopiesIn(fl)
        PROVE  \E b \in Blocks, s \in Starts : WholeIn(fl[b], s) /\ c = CopyIn(fl, b, s)
    <2>1. PICK d \in Blocks \X Starts : WholeIn(fl[d[1]], d[2]) /\ c = CopyIn(fl, d[1], d[2])
      BY DEF CopiesIn
    <2> QED BY <2>1
  <1>3. ASSUME NEW b \in Blocks, NEW s \in Starts, WholeIn(fl[b], s)
        PROVE  CopyIn(fl, b, s) \in CopiesIn(fl)
    <2> DEFINE d == <<b, s>>
    <2>1. d \in Blocks \X Starts /\ d[1] = b /\ d[2] = s
      OBVIOUS
    <2> HIDE DEF d
    <2> QED BY <2>1, <1>3 DEF CopiesIn
  <1> QED BY <1>1, <1>2, <1>3

\* The newest copy is the last one of the block with the largest timestamp.
LEMMA NewestIs ==
    ASSUME NEW fl, Sorted(fl), NEW b \in Blocks, NEW s, Latest(fl, b), LastCopy(fl[b], s)
    PROVE  /\ CopiesIn(fl) # {} /\ Newest(CopiesIn(fl)) = CopyIn(fl, b, s)
           /\ Stored(CopiesIn(fl)) = fl[b][s].val
  <1> DEFINE C == CopiesIn(fl)
             n == CopyIn(fl, b, s)
  <1>1. \A a \in Blocks : fl[a] \in BlockPages /\ Formed(fl[a]) /\ Tidy(fl[a])
    BY DEF Sorted, Chips
  <1>2. s \in Starts /\ Holds(fl[b], s) /\ \A t \in Starts : s < t => ~Holds(fl[b], t)
    BY DEF LastCopy
  <1>3. \A a \in Blocks, t \in Starts : Holds(fl[a], t) =>
          /\ Dated(fl[a]) /\ fl[a][t].ts = Time(fl[a]) /\ Time(fl[a]) \in Int
    <2>1. \A a \in Blocks : Time(fl[a]) \in Int
      BY <1>1, PageFacts, LastPage, ZeroStart DEF Time
    <2> QED BY <2>1, <1>1, HeldCopy
  <1>4. n \in C /\ n.blk = b /\ n.page = s /\ n.ts = Time(fl[b]) /\ n.val = fl[b][s].val
        /\ Time(fl[b]) \in Int
    <2>1. n \in C
      BY <1>2, InCopies
    <2>2. n.blk = b /\ n.page = s /\ n.ts = fl[b][s].ts /\ n.val = fl[b][s].val
      BY CopyFields
    <2> QED BY <2>1, <2>2, <1>2, <1>3
  <1>5. ASSUME NEW d \in C
        PROVE  /\ d.ts \in Int /\ d.page \in Starts
               /\ \/ d.blk # b /\ d.ts < n.ts
                  \/ d.blk = b /\ d.ts = n.ts /\ d.page <= s /\ (d.page = s => d = n)
    <2>1. PICK a \in Blocks, t \in Starts : Holds(fl[a], t) /\ d = CopyIn(fl, a, t)
      BY InCopies
    <2>2. d.blk = a /\ d.page = t /\ d.ts = Time(fl[a]) /\ Dated(fl[a]) /\ Time(fl[a]) \in Int
      BY <2>1, <1>3, CopyFields
    <2>3. CASE a # b
      <3>1. Dated(fl[b])
        BY <1>2, <1>3
      <3>2. Time(fl[a]) # Time(fl[b])
        BY <2>2, <2>3, <3>1 DEF Sorted, Distinct
      <3>3. Time(fl[a]) <= Time(fl[b])
        BY <2>2 DEF Latest
      <3> HIDE DEF n
      <3> QED BY <2>2, <2>3, <3>2, <3>3, <1>4
    <2>4. CASE a = b
      <3>1. ~(s < t)
        BY <2>1, <2>4, <1>2
      <3>2. t <= s
        BY <3>1, <1>2, LastPage
      <3>3. t = s => d = n
        BY <2>1, <2>4
      <3> HIDE DEF n
      <3> QED BY <2>2, <2>4, <3>2, <3>3, <1>4
    <2> QED BY <2>3, <2>4
  <1> HIDE DEF n, C
  <1>6. \A d \in C : Newer(n, d)
    <2> TAKE d \in C
    <2>1. d.ts \in Int /\ d.page \in Starts
          /\ \/ d.blk # b /\ d.ts < n.ts
             \/ d.blk = b /\ d.ts = n.ts /\ d.page <= s /\ (d.page = s => d = n)
      BY <1>5
    <2>2. d.page \in Int /\ s \in Int
      BY <2>1, <1>2, LastPage
    <2>3. d.ts < n.ts => n.ts > d.ts
      BY <2>1, <1>4
    <2>4. d.page <= s => n.page >= d.page
      BY <2>2, <1>4
    <2> QED BY <2>1, <2>3, <2>4, <1>4 DEF Newer
  <1>7. ASSUME NEW c \in C, \A d \in C : Newer(c, d) PROVE c = n
    <2>1. Newer(c, n)
      BY <1>7, <1>4
    <2>2. /\ c.ts \in Int /\ c.page \in Starts
          /\ \/ c.blk # b /\ c.ts < n.ts
             \/ c.blk = b /\ c.ts = n.ts /\ c.page <= s /\ (c.page = s => c = n)
      BY <1>5
    <2>3. c.page \in Int /\ s \in Int /\ b \in Int
      <3>1. b \in Int
        BY Sizes
      <3> QED BY <3>1, <2>2, <1>2, LastPage
    <2>4. c.ts < n.ts => ~(c.ts > n.ts) /\ c.ts # n.ts
      BY <2>2, <1>4
    <2>5. ~(c.ts > c.ts) /\ ~(b < b)
      BY <2>2, <2>3
    <2>6. c.blk = b /\ c.page >= s
      BY <2>1, <2>2, <2>4, <2>5, <1>4 DEF Newer
    <2> QED BY <2>2, <2>3, <2>4, <2>6, <1>4
  <1>8. Newest(C) = n
    BY <1>4, <1>6, <1>7 DEF Newest
  <1>9. C # {}
    BY <1>4
  <1> QED BY <1>4, <1>8, <1>9 DEF Stored, C, n

LEMMA NothingIn ==
    ASSUME NEW fl, Sorted(fl), \A b \in Blocks : ~Dated(fl[b])
    PROVE  CopiesIn(fl) = {} /\ Stored(CopiesIn(fl)) = None
  <1>1. \A b \in Blocks, s \in Starts : ~Holds(fl[b], s)
    <2>1. \A a \in Blocks : fl[a] \in BlockPages /\ Formed(fl[a]) /\ Tidy(fl[a])
      BY DEF Sorted, Chips
    <2> QED BY <2>1, HeldCopy
  <1>2. CopiesIn(fl) = {}
    BY <1>1, InCopies
  <1> QED BY <1>2 DEF Stored

LEMMA SomeLast ==
    ASSUME NEW f, \E s \in Starts : Holds(f, s)
    PROVE  \E s \in Starts : LastCopy(f, s)
  <1> DEFINE S == {s \in Starts : Holds(f, s)}
             h == Highest(S)
  <1>1. S \subseteq Pages /\ S # {}
    BY Sizes
  <1>2. h \in S /\ \A q \in S : q <= h
    BY <1>1, Greatest
  <1>3. \A t \in Starts : h < t => t \notin S
    <2>1. \A t \in Starts : t \in Int
      BY LastPage
    <2>2. h \in Int
      BY <1>2, LastPage
    <2> HIDE DEF h
    <2>3. \A t \in Starts : h < t => ~(t <= h)
      BY <2>1, <2>2
    <2> QED BY <2>3, <1>2
  <1> QED BY <1>2, <1>3 DEF LastCopy

\* An erase, whole or cut short, leaves the other blocks as they are.
LEMMA SortedErase ==
    ASSUME NEW fl, NEW gl, Sorted(fl), gl \in Chips,
           \A b \in Blocks : gl[b] = fl[b] \/ gl[b] \in {EmptyBlock, RuinedBlock}
    PROVE  /\ Sorted(gl)
           /\ \A b \in Blocks : Dated(gl[b]) => gl[b] = fl[b] /\ Dated(fl[b])
           /\ \A b \in Blocks, s \in Starts : Holds(gl[b], s) => gl[b] = fl[b]
           /\ \A b \in Blocks : Latest(fl, b) /\ gl[b] = fl[b]
                => Latest(gl, b) /\ Stored(CopiesIn(gl)) = Stored(CopiesIn(fl))
  <1>1. \A b \in Blocks : Formed(gl[b]) /\ Tidy(gl[b])
    BY EmptyForms, TidyBlocks DEF Sorted
  <1>2. \A b \in Blocks : Dated(gl[b]) => gl[b] = fl[b] /\ Dated(fl[b])
    BY TidyBlocks
  <1>3. \A b \in Blocks, s \in Starts : Holds(gl[b], s) => gl[b] = fl[b]
    BY TidyBlocks
  <1>4. Distinct(gl)
    BY <1>2 DEF Sorted, Distinct
  <1>5. Sorted(gl)
    BY <1>1, <1>4 DEF Sorted
  <1>6. ASSUME NEW b \in Blocks, Latest(fl, b), gl[b] = fl[b]
        PROVE  Latest(gl, b) /\ Stored(CopiesIn(gl)) = Stored(CopiesIn(fl))
    <2>1. Latest(gl, b)
      BY <1>2, <1>6 DEF Latest
    <2>2. PICK s \in Starts : LastCopy(fl[b], s)
      BY <1>6, SomeLast DEF Latest
    <2>3. Stored(CopiesIn(fl)) = fl[b][s].val
      BY <1>6, <2>2, NewestIs
    <2>4. Stored(CopiesIn(gl)) = gl[b][s].val
      BY <1>5, <1>6, <2>1, <2>2, NewestIs
    <2> QED BY <2>1, <2>3, <2>4, <1>6
  <1> QED BY <1>2, <1>3, <1>5, <1>6

\* Page k of the copy of v that is written with timestamp t.
Wrote(v, k, t) == [st |-> "data", val |-> v, part |-> k, ts |-> t]

\* A page of a copy, good or bad, behind complete copies and the pages of its own copy.
LEMMA TidyWrite ==
    ASSUME NEW f \in BlockPages, NEW g \in BlockPages, NEW page \in Page, NEW s \in Starts,
           NEW k \in 0 .. PageNum - 1, NEW t \in Nat, NEW v,
           Formed(f), Tidy(f), Clear(f, s + k),
           page.st = "torn" \/ page = Wrote(v, k, t),
           \A p \in Pages : f[p].st = "data" => f[p].ts = t,
           \A u \in Starts : u < s => Holds(f, u),
           \A j \in 0 .. k - 1 : f[s + j] = Wrote(v, j, t),
           \A p \in Pages : g[p] = IF p = s + k THEN page ELSE f[p]
    PROVE  /\ Tidy(g)
           /\ \A p \in Pages : g[p].st = "data" => g[p].ts = t
           /\ \A u \in Starts : u # s => (Holds(g, u) <=> Holds(f, u))
           /\ ~Holds(f, s)
           /\ Holds(g, s) <=> page.st = "data" /\ k = PageNum - 1
           /\ page.st = "data" => \A j \in 0 .. k : g[s + j] = Wrote(v, j, t)
           /\ \A u \in Starts : s < u => ~Holds(g, u)
  <1>1. \A u \in Starts : \A j \in 0 .. PageNum - 1 : u + j \in Pages /\ u + j \in Int
    <2>1. \A u \in Starts : \A j \in 0 .. PageNum - 1 : u + j \in Pages
      BY CopyFits
    <2> QED BY <2>1, PageRange
  <1>2. \A u \in Starts : u \in Pages /\ u \in Int /\ u >= 0 /\ u + PageNum - 1 = u + (PageNum - 1)
                          /\ u + PageNum - 1 \in Pages /\ u + 0 = u
    BY LastPage
  <1>3. PageNum \in Int /\ PageNum >= 1 /\ k \in Int /\ k >= 0 /\ k <= PageNum - 1
        /\ PageNum - 1 \in 0 .. PageNum - 1 /\ 0 \in 0 .. PageNum - 1
    <2>1. PageNum \in Int /\ PageNum >= 1
      BY Sizes
    <2>2. k \in Int /\ k >= 0 /\ k <= PageNum - 1
      BY <2>1
    <2> QED BY <2>1, <2>2
  <1>4. \A p \in Pages : p \in Int /\ (p >= s + k => f[p].st = "erased")
    BY PageRange DEF Clear
  <1>5. s + k \in Pages /\ g[s + k] = page /\ f[s + k].st = "erased"
    BY <1>1, <1>2, <1>3, <1>4
  <1>6. \A p \in Pages : p # s + k => g[p] = f[p]
    OBVIOUS
  <1>7. ~Holds(f, s)
    <2>1. s + PageNum - 1 >= s + k
      BY <1>2, <1>3
    <2>2. f[s + PageNum - 1].st = "erased"
      BY <2>1, <1>2, <1>4
    <2> QED BY <2>2 DEF Holds
  <1>8. \A u \in Starts : \A j \in 0 .. PageNum - 1 : u + j = s + k => u = s /\ j = k
    BY OneCopy
  <1>9. \A u \in Starts : u # s => (Holds(g, u) <=> Holds(f, u))
    <2> TAKE u \in Starts
    <2> HAVE u # s
    <2>1. u + (PageNum - 1) # s + k
      BY <1>3, <1>8
    <2>2. g[u + PageNum - 1] = f[u + PageNum - 1]
      BY <2>1, <1>2, <1>6
    <2> QED BY <2>2 DEF Holds
  <1>10. Holds(g, s) <=> page.st = "data" /\ k = PageNum - 1
    <2>1. CASE k = PageNum - 1
      BY <2>1, <1>2, <1>5 DEF Holds
    <2>2. CASE k # PageNum - 1
      <3>1. s + (PageNum - 1) # s + k
        BY <2>2, <1>2, <1>3
      <3>2. g[s + PageNum - 1] = f[s + PageNum - 1]
        BY <3>1, <1>2, <1>6
      <3> QED BY <3>2, <2>2, <1>7 DEF Holds
    <2> QED BY <2>1, <2>2
  <1>11. \A u \in Starts : s < u => \A j \in 0 .. PageNum - 1 : f[u + j].st = "erased" /\ g[u + j] = f[u + j]
    <2> TAKE u \in Starts
    <2> HAVE s < u
    <2> TAKE j \in 0 .. PageNum - 1
    <2>1. s + PageNum <= u
      BY <1>2, MultSteps DEF Starts, Mult
    <2>2. u + j >= s + k /\ u + j # s + k
      BY <2>1, <1>2, <1>3
    <2> QED BY <2>2, <1>1, <1>4, <1>6
  <1>12. \A u \in Starts : s < u => ~Holds(g, u)
    <2> TAKE u \in Starts
    <2> HAVE s < u
    <2>1. g[u + (PageNum - 1)].st = "erased"
      BY <1>3, <1>11
    <2> QED BY <2>1, <1>2 DEF Holds
  <1>13. \A p \in Pages : g[p].st = "data" => g[p].ts = t
    <2> TAKE p \in Pages
    <2>1. CASE p = s + k
      BY <2>1, <1>5 DEF Wrote
    <2>2. CASE p # s + k
      BY <2>2, <1>6
    <2> QED BY <2>1, <2>2
  <1>14. Uniform(g)
    BY <1>13 DEF Uniform
  <1>15. page.st = "data" => \A j \in 0 .. k : g[s + j] = Wrote(v, j, t)
    <2> HAVE page.st = "data"
    <2> TAKE j \in 0 .. k
    <2>1. CASE j = k
      BY <2>1, <1>5
    <2>2. CASE j # k
      <3>1. j \in 0 .. k - 1 /\ s + j # s + k /\ j \in 0 .. PageNum - 1
        BY <2>2, <1>2, <1>3
      <3> QED BY <3>1, <1>1, <1>6
    <2> QED BY <2>1, <2>2
  <1>16. Alike(g)
    <2> SUFFICES ASSUME NEW u \in Starts, NEW j \in 0 .. PageNum - 1, g[u + j].st = "data"
                 PROVE  g[u + j] = [g[u] EXCEPT !.part = j]
      BY DEF Alike
    <2>1. CASE u = s /\ j <= k
      <3>1. CASE page.st = "data"
        <4>1. j \in 0 .. k /\ 0 \in 0 .. k
          BY <2>1, <1>3
        <4>2. g[u + j] = Wrote(v, j, t)
          BY <3>1, <2>1, <4>1, <1>15
        <4>3. g[u + 0] = Wrote(v, 0, t)
          BY <3>1, <2>1, <4>1, <1>15
        <4>4. u + 0 = u
          BY <1>2
        <4> QED BY <4>2, <4>3, <4>4 DEF Wrote
      <3>2. CASE page.st # "data"
        <4>1. j # k
          BY <3>2, <2>1, <1>5
        <4>2. j \in 0 .. k - 1 /\ 0 \in 0 .. k - 1
          BY <2>1, <4>1, <1>3
        <4>3. f[s + j] = Wrote(v, j, t)
          BY <4>2
        <4>4. f[s + 0] = Wrote(v, 0, t)
          BY <4>2
        <4>5. s + j # s + k /\ s + 0 # s + k /\ s + 0 = s
          BY <4>2, <1>2, <1>3
        <4>6. g[s + j] = f[s + j] /\ g[s + 0] = f[s + 0]
          BY <4>5, <1>1, <1>2, <1>6
        <4> QED BY <2>1, <4>3, <4>4, <4>5, <4>6 DEF Wrote
      <3> QED BY <3>1, <3>2
    <2>2. CASE ~(u = s /\ j <= k)
      <3>1. u + j # s + k
        BY <2>2, <1>3, <1>8
      <3>2. g[u + j] = f[u + j]
        BY <3>1, <1>1, <1>6
      <3>3. f[u + j] = [f[u] EXCEPT !.part = j]
        BY <3>2 DEF Tidy, Alike
      <3>4. u # s + k \/ u = s
        BY <1>2, <1>3, <1>8
      <3>5. CASE u # s + k
        <4>1. g[u] = f[u]
          BY <3>5, <1>2, <1>6
        <4> QED BY <4>1, <3>2, <3>3
      <3>6. CASE u = s
        <4>1. j > k
          BY <2>2, <3>6, <1>3
        <4>2. u + j >= s + k
          BY <4>1, <3>6, <1>2, <1>3
        <4>3. f[u + j].st = "erased"
          BY <4>2, <1>1, <1>4
        <4> QED BY <4>3, <3>2
      <3> QED BY <3>4, <3>5, <3>6
    <2> QED BY <2>1, <2>2
  <1>17. OneBroken(g)
    <2> SUFFICES ASSUME NEW u \in Starts, NEW w \in Starts, u < w, ~Holds(g, u),
                        NEW j \in 0 .. PageNum - 1
                 PROVE  g[w + j].st = "erased"
      BY DEF OneBroken
    <2>1. CASE u < s
      <3>1. u # s
        BY <2>1, <1>2
      <3> QED BY <2>1, <3>1, <1>9
    <2>2. CASE ~(u < s)
      <3>1. s < w
        BY <2>2, <1>2
      <3> QED BY <3>1, <1>11
    <2> QED BY <2>1, <2>2
  <1> QED BY <1>7, <1>9, <1>10, <1>12, <1>13, <1>14, <1>15, <1>16, <1>17 DEF Tidy

-----------------------------------------------------------------------------
(* The invariant: where the last content is, at every step of the driver.  *)

\* The valid block has the timestamp that the driver goes by.
Own == Dated(Current) /\ Time(Current) = mem.timestamp

\* The block of the last content waits in q, and every block behind it is one that
\* the save has found bad.
Turn(fl, B, ab, q, t) ==
  \E i \in 1 .. Len(q) : /\ \A k \in 1 .. Len(q) : i < k => q[k] \in B
                         /\ t < MaxTimestamp + Len(q) - i
                         /\ ~ab => Latest(fl, q[i])

\* The scan and what follows from it.
FoundInv ==
  /\ pc = "scan" => IF mem.blk_addr = NoBlock
                    THEN \A b \in 0 .. scan.start - 1 : ~Dated(flash[b])
                    ELSE mem.valid /\ Own
  /\ pc \in {"select", "free", "idle"} /\ mem.valid => Own
  /\ pc = "free" => \A s \in Starts : ~Holds(Current, s)
  /\ pc = "idle" /\ mem.valid => LastCopy(Current, mem.page_addr)
  /\ pc = "erase" => Latest(flash, mem.nfree[Len(mem.nfree)])
  /\ pc \in {"select", "idle", "search", "prepare"} /\ ~mem.valid
       => \A b \in Blocks : ~Dated(flash[b])

\* A save on its way to the block it is going to write.
SearchInv ==
  /\ pc = "search" /\ mem.valid =>
       /\ Room => Own /\ LastCopy(Current, mem.page_addr)
       /\ mem.page_addr = PagesPerBlk => mem.abnormal \/ mem.blk_addr \in bad
  /\ pc = "wipe" => mem.abnormal \/ mem.blk_addr \in bad
  /\ pc \in {"search", "wipe"} /\ mem.valid
       => Turn(flash, bad, mem.abnormal, Append(mem.nfree, mem.blk_addr), mem.timestamp)
  /\ pc = "prepare" =>
       /\ \A b \in Blocks : Dated(flash[b]) => Time(flash[b]) < mem.timestamp
       /\ mem.valid => Turn(flash, bad, mem.abnormal, mem.nfree, mem.timestamp - 1)
  /\ pc \in {"search", "prepare"} /\ ~mem.valid
       => mem.timestamp + Len(mem.nfree) < MaxTimestamp + NBlocks

\* A save that writes its pages behind complete copies, newer than all other blocks.
WriteInv ==
  pc = "write" =>
    /\ mem.timestamp < TimestampMod
    /\ \A b \in Blocks : b # mem.blk_addr /\ Dated(flash[b]) => Time(flash[b]) < mem.timestamp
    /\ \A p \in Pages : Current[p].st = "data" => Current[p].ts = mem.timestamp
    /\ \A s \in Starts : s < mem.page_addr => Holds(Current, s)
    /\ \A j \in 0 .. next - 1 : Current[mem.page_addr + j] =
         Wrote(job, j, mem.timestamp)

LastInv == Sorted(flash) /\ FoundInv /\ SearchInv /\ WriteInv

\* Enough nodes, blocks and timestamps.
Enough == /\ NodeCount >= NBlocks /\ NBlocks >= MaxCuts + MaxBad + 2
          /\ MaxTimestamp + NBlocks <= TimestampMod

Settled == Sound /\ PagesInv /\ ListsInv /\ FaultsInv /\ LastInv /\ fails = 0

LEMMA TimeOK ==
    ASSUME Types, NEW b \in Blocks
    PROVE  /\ flash[b] \in BlockPages /\ Time(flash[b]) \in Nat /\ Time(flash[b]) \in Int
           /\ Time(flash[b]) < TimestampMod /\ mem.timestamp \in Int
  <1>1. flash[b] \in BlockPages /\ 0 \in Pages
    BY ZeroStart, Sizes DEF Types, BlockPages
  <1>2. flash[b][0] \in Page
    BY <1>1, PageFacts
  <1>3. flash[b][0].ts \in 0 .. TimestampMod - 1
    BY <1>2 DEF Page
  <1>4. mem.timestamp \in Int
    BY MemOK
  <1> QED BY <1>1, <1>3, <1>4, Sizes DEF Time

LEMMA SortedBlock ==
    ASSUME NEW fl, Sorted(fl), NEW b \in Blocks
    PROVE  fl[b] \in BlockPages /\ Formed(fl[b]) /\ Tidy(fl[b])
  BY DEF Sorted, Chips

\* The header that the scan finds is the first page.
LEMMA HeaderFirst ==
    ASSUME NEW f \in BlockPages, Formed(f), Tidy(f)
    PROVE  /\ \A p : HeaderAt(f, p) => p = 0 /\ Dated(f)
           /\ Dated(f) => HeaderAt(f, 0)
           /\ AllTorn(f) => ~Dated(f)
           /\ Dated(f) => f # RuinedBlock /\ OneBroken(f)
  <1>1. 0 \in Starts /\ \A q \in Starts : q \in Pages /\ q \in Int /\ q >= 0 /\ q + 0 = q
                          /\ 0 \in 0 .. PageNum - 1
    BY ZeroStart, LastPage
  <1>. 0 \in Headers /\ Headers \subseteq Starts
    BY HeaderRange, Sizes
  <1>2. ASSUME NEW p, HeaderAt(f, p), p # 0 PROVE FALSE
    <2>1. p \in Starts /\ 0 < p /\ f[p].st = "data" /\ f[0].st = "torn"
      BY <1>1, <1>2 DEF HeaderAt
    <2>2. ~Holds(f, 0)
      BY <2>1, <1>1, HeldCopy
    <2>3. f # RuinedBlock
      BY <2>1, <1>1, EmptyForms
    <2>4. f[p + 0].st = "erased"
      BY <2>1, <2>2, <2>3, <1>1 DEF Tidy, OneBroken
    <2> QED BY <2>1, <2>4, <1>1
  <1>3. \A p : HeaderAt(f, p) => p = 0 /\ Dated(f)
    BY <1>2 DEF HeaderAt, Dated
  <1>4. Dated(f) => HeaderAt(f, 0)
    BY <1>1 DEF HeaderAt, Dated
  <1>5. AllTorn(f) => ~Dated(f)
    BY <1>1 DEF AllTorn, Dated
  <1>6. Dated(f) => f # RuinedBlock /\ OneBroken(f)
    BY TidyBlocks DEF Tidy
  <1> QED BY <1>3, <1>4, <1>5, <1>6

LEMMA NotNewer ==
    ASSUME NEW S, S \subseteq Blocks, NoneNewer(S)
    PROVE  \A b \in S : Dated(flash[b]) => Time(flash[b]) <= mem.timestamp
  <1>1. \A b \in S : Dated(flash[b]) => HeaderAt(flash[b], 0)
    <2>1. 0 \in Headers /\ \A q \in Starts : ~(q < 0)
      BY HeaderRange, LastPage
    <2> QED BY <2>1 DEF HeaderAt, Dated
  <1> QED BY <1>1, ZeroStart DEF NoneNewer, Time

LEMMA LatestOwn ==
    ASSUME Types, Own, LastCopy(Current, mem.page_addr), NoneNewer(Blocks)
    PROVE  Latest(flash, mem.blk_addr)
  <1>1. \E s \in Starts : Holds(flash[mem.blk_addr], s)
    BY DEF LastCopy, Current
  <1>2. \A c \in Blocks : Dated(flash[c]) => Time(flash[c]) <= Time(flash[mem.blk_addr])
    BY NotNewer DEF Own, Current
  <1> QED BY <1>1, <1>2 DEF Latest

\* Every page is in one copy.
LEMMA InACopy ==
    ASSUME NEW p \in Pages
    PROVE  \E s \in Starts, k \in 0 .. PageNum - 1 : p = s + k /\ s <= p
  <1> DEFINE k == p % PageNum
             s == PageNum * (p \div PageNum)
  <1>1. p \in Nat /\ p < PagesPerBlk
    BY PageRange
  <1>2. k \in 0 .. PageNum - 1 /\ p = s + k /\ s \in Int /\ s >= 0 /\ p \div PageNum \in Int
    BY <1>1, Sizes
  <1>3. Mult(s)
    BY <1>2, Multiples
  <1> HIDE DEF k, s
  <1>4. s <= p /\ s \in Pages
    BY <1>1, <1>2, Sizes DEF Pages
  <1> QED BY <1>2, <1>3, <1>4 DEF Starts, Mult

\* Len is at most the number of blocks.
LEMMA ListLength ==
    ASSUME NEW s \in Seq(Blocks), Unlike(s)
    PROVE  Len(s) \in Nat /\ Len(s) <= NBlocks
  <1>1. CASE s = <<>>
    BY <1>1, LenProperties, Sizes
  <1>2. CASE s # <<>>
    <2>1. /\ Head(s) \in Blocks /\ Tail(s) \in Seq(Blocks) /\ Len(Tail(s)) = Len(s) - 1
          /\ Unlike(Tail(s)) /\ Head(s) \notin Range(Tail(s)) /\ Len(s) \in Nat
      BY <1>2, HeadList
    <2>2. Len(Tail(s)) < NBlocks
      BY <2>1, ShortList
    <2> QED BY <2>1, <2>2, Sizes
  <1> QED BY <1>1, <1>2

\* A region with more blocks than can be lost has one besides c.
LEMMA OneKept ==
    ASSUME Sound, FaultsInv, fails = 0, NBlocks >= MaxCuts + MaxBad + 2, NEW c,
           \A b \in Blocks : b = c \/ Lost(b)
    PROVE  FALSE
  <1> DEFINE L == bad \cup TornBlocks
  <1>1. /\ Types /\ cuts \in 0 .. MaxCuts /\ bad \subseteq Blocks /\ TornBlocks \subseteq Blocks
        /\ Cardinality(TornBlocks) <= cuts /\ Cardinality(bad) <= MaxBad
    BY DEF Sound, Types, FaultsInv, TornBlocks
  <1>2. Blocks \subseteq L \cup {c}
    <2>1. \A b \in Blocks : Lost(b) => b \in L
      <3>1. 0 \in Headers /\ 0 \in Pages
        BY HeaderRange
      <3> QED BY <3>1 DEF Lost, AllTorn, TornBlocks
    <2> QED BY <2>1
  <1>3. /\ IsFiniteSet(bad) /\ IsFiniteSet(TornBlocks)
        /\ Cardinality(bad) \in Nat /\ Cardinality(TornBlocks) \in Nat
    BY <1>1, FiniteBlocks, FS_Subset, FS_CardinalityType
  <1>4. Cardinality(L) <= Cardinality(bad) + Cardinality(TornBlocks) /\ Cardinality(L) \in Nat
    <2>1. /\ IsFiniteSet(bad \cap TornBlocks) /\ Cardinality(bad \cap TornBlocks) \in Nat
      BY <1>3, FS_Intersection, FS_CardinalityType
    <2>2. Cardinality(L) = Cardinality(bad) + Cardinality(TornBlocks) - Cardinality(bad \cap TornBlocks)
      BY <1>3, FS_Union
    <2>3. Cardinality(L) \in Nat
      BY <1>1, OneMore
    <2> QED BY <2>1, <2>2, <2>3, <1>3
  <1>5. NBlocks <= Cardinality(L) + 1
    <2>1. L \subseteq Blocks
      BY <1>1
    <2> HIDE DEF L
    <2> QED BY <2>1, <1>2, FiniteBlocks, OneMore
  <1> HIDE DEF L
  <1>6. Cardinality(TornBlocks) <= MaxCuts
    BY <1>1, <1>3, Sizes
  <1> QED BY <1>1, <1>3, <1>4, <1>5, <1>6, Sizes

\* The lengths of the list.
LEMMA ListRoom ==
    ASSUME Sound, ListsInv, pc \in Listing, NodeCount >= NBlocks
    PROVE  /\ mem.nfree \in Seq(Blocks) /\ Len(mem.nfree) \in Nat
           /\ Len(mem.nfree) <= NBlocks /\ Len(mem.nfree) <= NodeCount
           /\ mem.valid \/ pc \in {"prepare", "write"}
                => Len(mem.nfree) < NBlocks /\ NodeLeft(mem.nfree) /\ mem.blk_addr \in Blocks
  <1>1. mem.nfree \in Seq(Blocks) /\ Unlike(mem.nfree) /\ Len(mem.nfree) <= NodeCount
    BY MemOK DEF Sound, Types, ListsInv
  <1>2. Len(mem.nfree) \in Nat /\ Len(mem.nfree) <= NBlocks
    BY <1>1, ListLength
  <1>3. ASSUME mem.valid \/ pc \in {"prepare", "write"}
        PROVE  Len(mem.nfree) < NBlocks /\ NodeLeft(mem.nfree) /\ mem.blk_addr \in Blocks
    <2>1. mem.blk_addr \in Blocks /\ mem.blk_addr \notin Range(mem.nfree)
      BY <1>3 DEF Sound, PcOK, ListsInv, Lists
    <2>2. Len(mem.nfree) < NBlocks
      BY <2>1, <1>1, ShortList
    <2> QED BY <2>1, <2>2, <1>2, Sizes DEF NodeLeft
  <1> QED BY <1>1, <1>2, <1>3

-----------------------------------------------------------------------------
(* LastInv: lemmas on the free list.                                       *)

LEMMA TurnTail ==
    ASSUME NEW fl, NEW B, NEW ab, NEW q \in Seq(Blocks), NEW t \in Int, q # <<>>,
           Turn(fl, B, ab, q, t), ~(\A k \in 1 .. Len(q) : 1 < k => q[k] \in B)
    PROVE  Turn(fl, B, ab, Tail(q), t)
  <1> DEFINE r == Tail(q)
  <1>1. /\ r \in Seq(Blocks) /\ Len(r) = Len(q) - 1 /\ Len(q) \in Nat \ {0}
        /\ \A k \in 1 .. Len(r) : r[k] = q[k + 1]
    BY HeadList, HeadTailProperties
  <1>2. PICK i \in 1 .. Len(q) : /\ \A k \in 1 .. Len(q) : i < k => q[k] \in B
                                 /\ t < MaxTimestamp + Len(q) - i
                                 /\ ~ab => Latest(fl, q[i])
    BY DEF Turn
  <1>3. i # 1
    BY <1>2
  <1> HIDE DEF r
  <1>4. i - 1 \in 1 .. Len(r) /\ r[i - 1] = q[i]
    <2>1. i - 1 \in 1 .. Len(r) /\ (i - 1) + 1 = i
      BY <1>1, <1>3
    <2> QED BY <2>1, <1>1
  <1>5. \A k \in 1 .. Len(r) : i - 1 < k => r[k] \in B
    <2> TAKE k \in 1 .. Len(r)
    <2> HAVE i - 1 < k
    <2>1. k + 1 \in 1 .. Len(q) /\ i < k + 1
      BY <1>1
    <2> QED BY <2>1, <1>1, <1>2
  <1>6. t < MaxTimestamp + Len(r) - (i - 1)
    BY <1>1, <1>2, RsvAssumption
  <1>7. Turn(fl, B, ab, r, t)
    BY <1>2, <1>4, <1>5, <1>6 DEF Turn
  <1> QED BY <1>7 DEF r

LEMMA TurnAppend ==
    ASSUME NEW fl, NEW B, NEW D, NEW ab, NEW q \in Seq(Blocks), NEW t \in Int, NEW b \in Blocks,
           Turn(fl, B, ab, q, t - 1), B \subseteq D, b \in D
    PROVE  Turn(fl, D, ab, Append(q, b), t)
  <1> DEFINE r == Append(q, b)
  <1>1. /\ Len(r) = Len(q) + 1 /\ Len(q) \in Nat
        /\ \A k \in 1 .. Len(q) : r[k] = q[k]
        /\ r[Len(q) + 1] = b
    BY AppendProperties, LenProperties
  <1>2. PICK i \in 1 .. Len(q) : /\ \A k \in 1 .. Len(q) : i < k => q[k] \in B
                                 /\ t - 1 < MaxTimestamp + Len(q) - i
                                 /\ ~ab => Latest(fl, q[i])
    BY DEF Turn
  <1> HIDE DEF r
  <1>3. i \in 1 .. Len(r) /\ r[i] = q[i]
    BY <1>1
  <1>4. \A k \in 1 .. Len(r) : i < k => r[k] \in D
    <2> TAKE k \in 1 .. Len(r)
    <2> HAVE i < k
    <2>1. CASE k = Len(q) + 1
      BY <2>1, <1>1
    <2>2. CASE k # Len(q) + 1
      <3>1. k \in 1 .. Len(q)
        BY <2>2, <1>1
      <3> QED BY <3>1, <1>1, <1>2
    <2> QED BY <2>1, <2>2
  <1>5. t < MaxTimestamp + Len(r) - i
    BY <1>1, <1>2, RsvAssumption
  <1>6. Turn(fl, D, ab, r, t)
    BY <1>2, <1>3, <1>4, <1>5 DEF Turn
  <1> QED BY <1>6 DEF r

\* At its call, the block of the last content is the last to be taken.
LEMMA TurnBegins ==
    ASSUME NEW fl, NEW B, NEW ab, NEW q \in Seq(Blocks), NEW t \in Int, NEW b \in Blocks,
           t < MaxTimestamp, ~ab => Latest(fl, b)
    PROVE  Turn(fl, B, ab, Append(q, b), t)
  <1> DEFINE r == Append(q, b)
             n == Len(q) + 1
  <1>1. Len(r) = n /\ Len(q) \in Nat /\ r[n] = b
    BY AppendProperties, LenProperties
  <1> HIDE DEF r
  <1>2. n \in 1 .. Len(r) /\ \A k \in 1 .. Len(r) : ~(n < k)
    BY <1>1
  <1>3. t < MaxTimestamp + Len(r) - n
    BY <1>1, RsvAssumption
  <1> HIDE DEF n
  <1>4. Turn(fl, B, ab, r, t)
    BY <1>1, <1>2, <1>3 DEF Turn
  <1> QED BY <1>4 DEF r

\* The next block is taken: it is not the one with the last content, as there would be
\* none besides it.
LEMMA TurnMoves ==
    ASSUME Sound, ListsInv, FaultsInv, fails = 0, Enough, pc \in {"search", "wipe"}, mem.valid,
           mem.nfree # <<>>, NEW fl, NEW ab, NEW t \in Int,
           Turn(fl, bad, ab, Append(mem.nfree, mem.blk_addr), t)
    PROVE  Turn(fl, bad, ab, Append(Tail(mem.nfree), mem.blk_addr), t)
  <1> DEFINE l == mem.nfree
             c == mem.blk_addr
             q == Append(l, c)
             h == Head(l)
  <1>1. /\ l \in Seq(Blocks) /\ c \in Blocks /\ Reach(Blocks) /\ Len(l) \in Nat
        /\ DOMAIN l = 1 .. Len(l)
    BY MemOK, MemFields DEF Sound, PcOK, ListsInv, Listing
  <1>2. /\ q \in Seq(Blocks) /\ q # <<>> /\ Len(q) = Len(l) + 1
        /\ \A k \in 1 .. Len(l) : q[k] = l[k]
        /\ q[Len(l) + 1] = c
    BY <1>1, AppendProperties
  <1>3. h = l[1] /\ Len(l) >= 1
    BY <1>1, HeadTailProperties, HeadList
  <1>4. Tail(q) = Append(Tail(l), c)
    BY <1>1, HeadTailAppend
  <1> HIDE DEF q, h
  <1>5. ASSUME \A k \in 1 .. Len(q) : 1 < k => q[k] \in bad PROVE FALSE
    <2>1. \A k \in 1 .. Len(l) : l[k] = h \/ l[k] \in bad
      <3> TAKE k \in 1 .. Len(l)
      <3>1. CASE k = 1
        BY <3>1, <1>3
      <3>2. CASE k # 1
        <4>1. 1 < k /\ k \in 1 .. Len(q)
          BY <3>2, <1>1, <1>2
        <4> QED BY <4>1, <1>2, <1>5
      <3> QED BY <3>1, <3>2
    <2>2. c \in bad
      <3>1. Len(l) + 1 \in 1 .. Len(q) /\ 1 < Len(l) + 1
        BY <1>1, <1>2, <1>3
      <3> QED BY <3>1, <1>2, <1>5
    <2>3. \A b \in Lists : b = h \/ b \in bad
      BY <2>1, <1>1 DEF Lists, Range
    <2>4. \A b \in Blocks : b = h \/ Lost(b)
      BY <2>2, <2>3, <1>1 DEF Reach, Lost
    <2> HIDE DEF l, c
    <2> QED BY <2>4, OneKept DEF Enough
  <1> HIDE DEF l, c
  <1>6. Turn(fl, bad, ab, Tail(q), t)
    <2>1. Turn(fl, bad, ab, q, t)
      BY DEF q, l, c
    <2> QED BY <2>1, <1>2, <1>5, TurnTail
  <1> QED BY <1>4, <1>6 DEF l, c

-----------------------------------------------------------------------------
(* LastInv: the scan.                                                      *)

LEMMA LastPowerUp ==
    ASSUME Settled, PowerUp
    PROVE  LastInv'
  <1>1. /\ pc = "off" /\ pc' = "scan" /\ mem' = mem /\ flash' = flash /\ scan' = scan
        /\ mem = NothingKnown /\ scan = NewScan
    BY DEF PowerUp, Settled, Sound, PcOK
  <1>2. mem'.blk_addr = NoBlock /\ scan'.start = 0
    BY <1>1, NothingFields DEF NewScan
  <1>3. \A b : b \notin 0 .. 0 - 1
    OBVIOUS
  <1> QED BY <1>1, <1>2, <1>3 DEF Settled, LastInv, FoundInv, SearchInv, WriteInv

LEMMA LastScan ==
    ASSUME Settled, Enough, scan_block
    PROVE  LastInv'
  <1> DEFINE n == scan.start
             m == [mem EXCEPT !.abnormal = FALSE]
             new == Visit(m, n)
             h == Header(n)
             f == flash[n]
             c == mem.blk_addr
  <1>1. /\ Types /\ n \in Blocks /\ n \in Nat /\ n < NBlocks /\ mem \in Mem /\ flash' = flash
        /\ pc = "scan" /\ Sorted(flash) /\ fails = 0 /\ fails' = fails
        /\ c \in Blocks \cup {NoBlock}
    <2>1. Types /\ n \in Blocks
      BY DEF Settled, Sound, Types
    <2>2. n \in Nat /\ n < NBlocks
      BY <2>1, Sizes DEF Blocks
    <2> QED BY <2>1, <2>2, MemOK DEF scan_block, Settled, LastInv, Types
  <1>2. Scanned(n)
    BY <1>1 DEF Settled, PagesInv, Resume
  <1>3. /\ (mem.valid => c # NoBlock)
        /\ IF c = NoBlock THEN \A b \in 0 .. n - 1 : ~Dated(flash[b])
           ELSE mem.valid /\ Dated(flash[c]) /\ Time(flash[c]) = mem.timestamp
    <2>1. mem.valid => c # NoBlock
      BY Sizes DEF Settled, Sound, PcOK
    <2> QED BY <2>1, <1>1 DEF Settled, LastInv, FoundInv, Own, Current
  <1>4. /\ m \in Mem /\ m.valid = mem.valid /\ m.blk_addr = c
        /\ m.page_addr = mem.page_addr /\ m.timestamp = mem.timestamp /\ m.nfree = mem.nfree
    BY <1>1 DEF Mem
  <1>5. NodeLeft(mem.nfree)
    <2>1. Len(mem.nfree) <= n /\ Len(mem.nfree) \in Nat
      BY <1>1, <1>2, MemOK DEF Scanned
    <2> QED BY <2>1, <1>1, Sizes DEF NodeLeft, Enough
  <1>6. /\ pc' = (IF n + 1 < NBlocks THEN "scan" ELSE "select")
        /\ scan' = [scan EXCEPT !.start = IF n + 1 < NBlocks THEN n + 1 ELSE 0]
        /\ \/ Readable(n) = {} /\ mem' = mem
           \/ Readable(n) # {} /\ mem' = new
    BY <1>5 DEF scan_block
  <1>7. scan'.start = IF n + 1 < NBlocks THEN n + 1 ELSE 0
    BY <1>1, <1>6 DEF Types
  <1>8. /\ f \in BlockPages /\ Formed(f) /\ Tidy(f)
    BY <1>1, SortedBlock
  <1>9. /\ Readable(n) = {} => ~Dated(f)
        /\ Readable(n) # {} /\ h.st = "data" => Dated(f) /\ h.ts = Time(f)
        /\ Dated(f) => h.st = "data"
    <2>1. /\ Readable(n) = {} <=> AllTorn(f)
          /\ Readable(n) # {} /\ h.st = "data" => \E p \in Starts : HeaderAt(f, p) /\ h = f[p]
          /\ \A p \in Starts : HeaderAt(f, p) => Readable(n) # {} /\ h = f[p] /\ h.st = "data"
      BY <1>1, HeaderLink
    <2>2. /\ \A p : HeaderAt(f, p) => p = 0 /\ Dated(f)
          /\ Dated(f) => HeaderAt(f, 0)
          /\ AllTorn(f) => ~Dated(f)
      BY <1>8, HeaderFirst
    <2> HIDE DEF f, h
    <2> QED BY <2>1, <2>2, ZeroStart DEF Time
  <1> HIDE DEF m, h
  \* What has to be shown of the new record.
  <1>10. /\ (mem'.valid => mem'.blk_addr # NoBlock)
         /\ IF mem'.blk_addr = NoBlock THEN \A b \in 0 .. n : ~Dated(flash[b])
            ELSE mem'.valid /\ Dated(flash[mem'.blk_addr]) /\ Time(flash[mem'.blk_addr]) = mem'.timestamp
    <2>1. \A b \in 0 .. n : b \in 0 .. n - 1 \/ b = n
      BY <1>1
    <2>2. CASE Readable(n) = {} /\ mem' = mem
      BY <2>1, <2>2, <1>3, <1>9 DEF f
    <2>3. CASE Readable(n) # {} /\ mem' = new
      <3>1. n # NoBlock
        BY <1>1, Sizes
      <3>2. /\ h.st # "data" => new.valid = m.valid /\ new.blk_addr = m.blk_addr /\ new.timestamp = m.timestamp
            /\ h.st = "data" /\ m.blk_addr = NoBlock =>
                 new.valid /\ new.blk_addr = n /\ new.timestamp = h.ts
            /\ h.st = "data" /\ m.blk_addr # NoBlock /\ h.ts > m.timestamp =>
                 new.valid /\ new.blk_addr = n /\ new.timestamp = h.ts
            /\ h.st = "data" /\ m.blk_addr # NoBlock /\ ~(h.ts > m.timestamp) =>
                 new.valid /\ new.blk_addr = m.blk_addr /\ new.timestamp = m.timestamp
        BY <1>1, <1>4, <2>3, VisitFields DEF h
      <3> HIDE DEF new
      <3>3. CASE h.st # "data"
        BY <3>2, <3>3, <2>1, <2>3, <1>3, <1>4, <1>9 DEF f
      <3>4. CASE h.st = "data" /\ c = NoBlock
        BY <3>1, <3>2, <3>4, <2>3, <1>4, <1>9 DEF f
      <3>5. CASE h.st = "data" /\ c # NoBlock /\ h.ts > mem.timestamp
        BY <3>1, <3>2, <3>5, <2>3, <1>4, <1>9 DEF f
      <3>6. CASE h.st = "data" /\ c # NoBlock /\ ~(h.ts > mem.timestamp)
        BY <3>2, <3>6, <2>3, <1>3, <1>4
      <3> QED BY <3>3, <3>4, <3>5, <3>6
    <2> QED BY <2>2, <2>3, <1>6
  <1>11. CASE n + 1 < NBlocks
    <2>1. pc' = "scan" /\ scan'.start = n + 1 /\ 0 .. n = 0 .. (n + 1) - 1
      BY <1>1, <1>6, <1>7, <1>11
    <2> QED BY <2>1, <1>1, <1>10 DEF LastInv, FoundInv, SearchInv, WriteInv, Own, Current
  <1>12. CASE ~(n + 1 < NBlocks)
    <2>1. pc' = "select"
      BY <1>6, <1>12
    <2>2. 0 .. n = Blocks
      BY <1>1, <1>12, Sizes DEF Blocks
    <2> QED BY <2>1, <2>2, <1>1, <1>10 DEF LastInv, FoundInv, SearchInv, WriteInv, Own, Current
  <1> QED BY <1>11, <1>12

\* The pages of complete copies are those a scan takes for good.
LEMMA HeldGood ==
    ASSUME NEW b \in Blocks, flash[b] \in BlockPages, Formed(flash[b]), Tidy(flash[b]), NEW s \in Starts
    PROVE  Holds(flash[b], s) <=> s + PageNum - 1 \in Good(b)
  <1> DEFINE f == flash[b]
             e == s + PageNum - 1
  <1>1. e \in Pages /\ e \in Int /\ s \in Int /\ PageNum - 1 \in 0 .. PageNum - 1
        /\ e = s + (PageNum - 1)
    BY LastPage, PageRange
  <1>2. ASSUME Holds(f, s), NEW q \in 0 .. e PROVE f[q].st = "data"
    <2>1. q \in Pages /\ q <= e
      <3>1. 0 <= q /\ q <= e /\ e <= PagesPerBlk - 1 /\ PagesPerBlk \in Int
        BY <1>1, Sizes DEF Pages
      <3> QED BY <3>1, <1>1 DEF Pages
    <2>2. PICK u \in Starts, k \in 0 .. PageNum - 1 : q = u + k /\ u <= q
      BY <2>1, InACopy
    <2>3. u \in Int /\ k \in Int /\ q \in Int
      BY <2>1, <2>2, LastPage, PageRange
    <2>4. u < s \/ u = s
      <3>1. ~(s < u)
        <4>1. s < u => s + PageNum <= u
          BY <2>3, <1>1, MultSteps DEF Starts, Mult
        <4> HIDE DEF e
        <4>2. s < u => e < u
          <5>1. e = s + (PageNum - 1) /\ PageNum \in Int
            BY <1>1, Sizes
          <5> QED BY <5>1, <4>1, <2>3, <1>1
        <4> QED BY <4>2, <2>1, <2>2, <2>3, <1>1
      <3> QED BY <3>1, <2>3, <1>1
    <2>5. Holds(f, u)
      BY <2>4, <1>2, HeldCopy
    <2> QED BY <2>2, <2>5, HeldCopy
  <1>3. ASSUME Holds(f, s) PROVE e \in Good(b)
    <2>1. \A q \in 0 .. e : f[q].st = "data"
      BY <1>2, <1>3
    <2>2. f[e].st = "data"
      BY <1>3 DEF Holds
    <2> QED BY <2>1, <2>2, <1>1 DEF Good, Seen
  <1>4. e \in Good(b) => Holds(f, s)
    BY DEF Good, Holds
  <1> QED BY <1>3, <1>4

LEMMA LastSelect ==
    ASSUME Settled, Enough, select_copy
    PROVE  LastInv'
  <1> DEFINE b == mem.blk_addr
             f == flash[b]
             last == IF Good(b) = {} THEN mem.page_addr ELSE Highest(Good(b))
             cutoff == (last + 1) % PageNum # 0
             good == scan.good \cup Good(b)
             copies == {p \in Starts : \A k \in 0 .. PageNum - 1 : p + k \in good}
             retry == cutoff \/ scan.incomplete
             page == IF retry THEN Highest(copies) ELSE last - (PageNum - 1)
             ab == cutoff \/ Seen(b) # Good(b)
  <1>1. /\ Types /\ NoLastPage /\ flash' = flash /\ bad' = bad /\ fails' = fails /\ Sorted(flash)
        /\ mem \in Mem /\ pc = "select"
        /\ mem.valid => b \in Blocks /\ Own
        /\ ~mem.valid => \A c \in Blocks : ~Dated(flash[c])
    BY MemOK DEF Settled, Sound, Types, PcOK, PagesInv, LastInv, FoundInv, select_copy
  <1>2. Good(b) \subseteq Pages /\ copies \subseteq Starts /\ copies \subseteq Pages
    BY <1>1, Sizes DEF Good, Seen
  <1>3. \/ ~mem.valid /\ pc' = "idle" /\ mem' = mem
        \/ /\ mem.valid /\ (retry => copies # {}) /\ mem' = Chosen(mem, page, ab) /\ pc' = "idle"
        \/ /\ mem.valid /\ copies = {} /\ pc' = "free" /\ mem' = mem
    BY DEF select_copy, Chosen
  <1>4. CASE ~mem.valid /\ pc' = "idle" /\ mem' = mem
    BY <1>4, <1>1 DEF LastInv, FoundInv, SearchInv, WriteInv
  <1>5. ASSUME mem.valid
        PROVE  /\ f \in BlockPages /\ Formed(f) /\ Tidy(f)
               /\ \A s \in Starts : s \in copies <=> Holds(f, s)
               /\ \A s \in Starts : s + PageNum - 1 \in Good(b) <=> Holds(f, s)
    <2>1. b \in Blocks /\ f \in BlockPages /\ Formed(f) /\ Tidy(f)
      BY <1>1, <1>5, SortedBlock
    <2>2. \A s \in Starts : s + PageNum - 1 \in Good(b) <=> Holds(f, s)
      BY <2>1, HeldGood
    <2>3. ASSUME NEW s \in Starts, s \in copies PROVE Holds(f, s)
      <3>1. PageNum - 1 \in 0 .. PageNum - 1 /\ s + PageNum - 1 = s + (PageNum - 1)
        BY LastPage
      <3>2. s + PageNum - 1 \in good
        BY <3>1, <2>3
      <3>3. s + PageNum - 1 \in Good(b)
        BY <3>2, <1>1 DEF NoLastPage
      <3> QED BY <3>3, <2>2
    <2>4. ASSUME NEW s \in Starts, Holds(f, s) PROVE s \in copies
      <3>1. s + PageNum - 1 \in Good(b)
        BY <2>2, <2>4
      <3>2. \A k \in 0 .. PageNum - 1 : s + k \in Good(b)
        BY <3>1, <2>1, <1>1, CopyBefore
      <3> QED BY <3>2
    <2> QED BY <2>1, <2>2, <2>3, <2>4
  <1> HIDE DEF b, f, last, good, copies
  <1>6. CASE mem.valid /\ copies = {} /\ pc' = "free" /\ mem' = mem
    <2>1. \A s \in Starts : ~Holds(f, s)
      BY <1>5, <1>6
    <2> QED BY <2>1, <1>1, <1>6 DEF LastInv, FoundInv, SearchInv, WriteInv, Own, Current, f, b
  <1>7. CASE mem.valid /\ (retry => copies # {}) /\ mem' = Chosen(mem, page, ab) /\ pc' = "idle"
    <2>1. LastCopy(f, page)
      <3>1. CASE retry
        <4>1. page \in copies /\ \A q \in copies : q <= page
          BY <3>1, <1>2, <1>7, Greatest
        <4>2. page \in Starts /\ Holds(f, page)
          BY <4>1, <1>2, <1>5, <1>7
        <4> HIDE DEF page
        <4>3. \A t \in Starts : t \in Int /\ page \in Int
          BY <4>2, LastPage
        <4>4. ASSUME NEW t \in Starts, page < t PROVE ~Holds(f, t)
          <5>1. ~(t <= page)
            BY <4>3, <4>4
          <5> QED BY <5>1, <4>1, <1>5, <1>7
        <4> QED BY <4>2, <4>4 DEF LastCopy
      <3>2. CASE ~retry
        <4>1. 0 \in Good(b)
          <5>1. f[0].st = "data" /\ 0 \in Pages
            BY <1>1, <1>7, ZeroStart, LastPage DEF Own, Dated, Current, f, b
          <5>2. \A q \in 0 .. 0 : q = 0
            OBVIOUS
          <5> QED BY <5>1, <5>2 DEF Good, Seen, f
        <4>2. last \in Good(b) /\ \A q \in Good(b) : q <= last
          <5>1. last = Highest(Good(b))
            BY <4>1 DEF last
          <5> QED BY <5>1, <4>1, <1>2, Greatest
        <4>3. last \in Pages /\ last \in Int /\ last >= 0 /\ page = last - (PageNum - 1)
              /\ last <= PagesPerBlk - 1 /\ PagesPerBlk \in Int /\ PageNum \in Int /\ PageNum >= 1
          BY <4>2, <3>2, <1>2, Sizes DEF Pages
        <4>4. Mult(last + 1) /\ last + 1 \in Int
          BY <3>2, <4>3 DEF Mult
        <4>5. PageNum <= last + 1
          <5>1. Mult(0) /\ 0 < last + 1
            BY <4>3, MultSteps
          <5>2. 0 + PageNum <= last + 1
            BY <5>1, <4>4, MultSteps
          <5> QED BY <5>2, <4>3
        <4>6. Mult((last + 1) - PageNum) /\ page = (last + 1) - PageNum
          <5>1. Mult((last + 1) - PageNum)
            BY <4>4, MultSteps
          <5> HIDE DEF page
          <5> QED BY <5>1, <4>3
        <4> HIDE DEF page
        <4>7. page \in Starts /\ page + PageNum - 1 = last
          BY <4>3, <4>5, <4>6 DEF Starts, Pages, Mult
        <4>8. Holds(f, page)
          BY <4>2, <4>7, <1>5, <1>7
        <4>9. ASSUME NEW t \in Starts, page < t PROVE ~Holds(f, t)
          <5>1. t \in Int /\ page \in Int
            BY <4>7, LastPage
          <5>2. ~(t + PageNum - 1 <= last)
            BY <5>1, <4>3, <4>7, <4>9
          <5>3. t + PageNum - 1 \notin Good(b)
            BY <5>2, <4>2
          <5> QED BY <5>3, <1>5, <1>7
        <4> QED BY <4>7, <4>8, <4>9 DEF LastCopy
      <3> QED BY <3>1, <3>2
    <2>2. page \in -1 .. PagesPerBlk + PageNum
      BY <2>1, Sizes, PageRange DEF LastCopy
    <2>3. ab \in BOOLEAN
      OBVIOUS
    <2> HIDE DEF page, ab
    <2>4. /\ mem'.valid = mem.valid /\ mem'.blk_addr = mem.blk_addr /\ mem'.page_addr = page
          /\ mem'.timestamp = mem.timestamp
      BY <2>2, <2>3, <1>1, <1>7, ChosenFields
    <2>5. Own'
      BY <2>4, <1>1, <1>7 DEF Own, Current
    <2>6. LastCopy(flash'[mem'.blk_addr], mem'.page_addr)
      BY <2>1, <2>4, <1>1 DEF f, b
    <2> QED BY <2>4, <2>5, <2>6, <1>1, <1>7 DEF LastInv, FoundInv, SearchInv, WriteInv, Current
  <1> QED BY <1>3, <1>4, <1>6, <1>7

\* What an erase does to the flash as a whole.
LEMMA ErasedSorted ==
    ASSUME Types, NEW b, flash' = ErasedFlash(b)
    PROVE  /\ flash' \in Chips
           /\ \A c \in Blocks : flash'[c] = flash[c] \/ flash'[c] = EmptyBlock
           /\ \A c \in Blocks : flash'[c] = IF c = b /\ b \notin bad THEN EmptyBlock ELSE flash[c]
  BY ErasedType DEF Chips, BlockPages

LEMMA LastFree ==
    ASSUME Settled, Enough, meson_rsv_free
    PROVE  LastInv'
  <1>1. /\ Types /\ pc = "free" /\ pc' = "scan" /\ mem' = NothingKnown /\ scan' = scan
        /\ flash' = ErasedFlash(mem.blk_addr) /\ scan.start = 0 /\ Sorted(flash)
    BY DEF meson_rsv_free, Settled, Sound, PcOK, LastInv
  <1>2. Sorted(flash')
    BY <1>1, ErasedSorted, SortedErase
  <1>3. mem'.blk_addr = NoBlock /\ \A b : b \notin 0 .. 0 - 1
    BY <1>1, NothingFields
  <1> QED BY <1>1, <1>2, <1>3 DEF LastInv, FoundInv, SearchInv, WriteInv

-----------------------------------------------------------------------------
(* LastInv: a save finds its block.                                        *)

LEMMA LastSave ==
    ASSUME Settled, Enough, NEW v \in Values, meson_rsv_save(v)
    PROVE  LastInv'
  <1>1. /\ Types /\ pc = "idle" /\ pc' = "search" /\ flash' = flash /\ bad' = bad /\ Sorted(flash)
        /\ mem \in Mem /\ fails = 0
        /\ mem' = IF mem.abnormal THEN AtPage(mem, PagesPerBlk) ELSE mem
        /\ mem.timestamp \in Int /\ mem.timestamp < MaxTimestamp
    <2>1. mem.timestamp + fails < MaxTimestamp /\ fails = 0
      BY DEF meson_rsv_save, Settled
    <2>2. mem.timestamp \in Int /\ Types
      BY MemOK DEF Settled, Sound
    <2>3. mem.timestamp < MaxTimestamp
      BY <2>1, <2>2, RsvAssumption
    <2> QED BY <2>1, <2>2, <2>3, MemOK DEF meson_rsv_save, AtPage, Settled, LastInv, Types
  <1>2. PagesPerBlk \in -1 .. PagesPerBlk + PageNum /\ PagesPerBlk \in Int /\ PageNum \in Int /\ PageNum >= 1
    BY Sizes
  <1>3. /\ mem'.valid = mem.valid /\ mem'.abnormal = mem.abnormal /\ mem'.blk_addr = mem.blk_addr
        /\ mem'.timestamp = mem.timestamp /\ mem'.nfree = mem.nfree
        /\ mem'.page_addr = IF mem.abnormal THEN PagesPerBlk ELSE mem.page_addr
    BY <1>1, <1>2, PageFields
  <1>4. /\ mem.nfree \in Seq(Blocks) /\ Len(mem.nfree) \in Nat /\ Len(mem.nfree) <= NBlocks
        /\ NoneNewer(Blocks)
    BY <1>1, ListRoom DEF Settled, ListsInv, Listing, Enough
  <1>5. CASE ~mem.valid
    <2>1. \A c \in Blocks : ~Dated(flash[c])
      BY <1>1, <1>5 DEF Settled, LastInv, FoundInv
    <2>2. mem.timestamp + Len(mem.nfree) < MaxTimestamp + NBlocks
      BY <1>1, <1>4, Sizes, RsvAssumption
    <2> QED BY <2>1, <2>2, <1>1, <1>3, <1>5 DEF LastInv, FoundInv, SearchInv, WriteInv
  <1>6. CASE mem.valid
    <2>1. Own /\ LastCopy(Current, mem.page_addr) /\ mem.blk_addr \in Blocks
      BY <1>1, <1>6 DEF Settled, LastInv, FoundInv, Sound, PcOK
    <2>2. Latest(flash, mem.blk_addr)
      BY <2>1, <1>1, <1>4, LatestOwn
    <2>3. Turn(flash, bad, mem.abnormal, Append(mem.nfree, mem.blk_addr), mem.timestamp)
      BY <2>1, <2>2, <1>1, <1>4, TurnBegins
    <2>4. mem.page_addr # PagesPerBlk
      <3>1. mem.page_addr \in Pages
        BY <2>1, Sizes DEF LastCopy
      <3> QED BY <3>1, PageRange, <1>2
    <2>5. Room' => ~mem.abnormal
      BY <1>2, <1>3 DEF Room
    <2>6. Room' => Own' /\ LastCopy(Current', mem'.page_addr)
      <3>1. ~mem.abnormal => mem'.page_addr = mem.page_addr
        BY <1>3
      <3>2. Own'
        BY <2>1, <1>1, <1>3 DEF Own, Current
      <3>3. Current' = Current
        BY <1>1, <1>3 DEF Current
      <3> QED BY <3>1, <3>2, <3>3, <2>1, <2>5
    <2>7. mem'.page_addr = PagesPerBlk => mem'.abnormal
      BY <2>4, <1>3
    <2> QED BY <2>3, <2>6, <2>7, <1>1, <1>3, <1>6 DEF LastInv, FoundInv, SearchInv, WriteInv
  <1> QED BY <1>5, <1>6

LEMMA LastSame ==
    ASSUME Settled, Enough, search_same
    PROVE  LastInv'
  <1> DEFINE b == mem.blk_addr
             f == flash[b]
             s == mem.page_addr
  <1>1. /\ Types /\ mem \in Mem /\ pc = "search" /\ mem.valid /\ pc' = "write" /\ next' = 0
        /\ flash' = flash /\ bad' = bad /\ Sorted(flash) /\ Room /\ b \in Blocks /\ s \in Int
        /\ s + PageNum \in -1 .. PagesPerBlk + PageNum /\ mem' = AtPage(mem, s + PageNum)
    <2>1. /\ Types /\ mem \in Mem /\ s \in Int /\ s >= 0 /\ s + 2 * PageNum <= PagesPerBlk
          /\ b \in Blocks
      BY MemOK DEF Settled, Sound, PcOK, search_same
    <2>2. s + PageNum \in -1 .. PagesPerBlk + PageNum
      BY <2>1, Sizes
    <2> QED BY <2>1, <2>2 DEF search_same, Settled, LastInv, Room, AtPage
  <1>2. /\ mem'.blk_addr = b /\ mem'.timestamp = mem.timestamp /\ mem'.page_addr = s + PageNum
    BY <1>1, PageFields
  <1>3. /\ Dated(f) /\ Time(f) = mem.timestamp /\ LastCopy(f, s) /\ NoneNewer(Blocks)
    BY <1>1 DEF Settled, LastInv, SearchInv, Own, Current, ListsInv, Listing
  <1>4. f \in BlockPages /\ Formed(f) /\ Tidy(f) /\ Time(f) < TimestampMod
    BY <1>1, SortedBlock, TimeOK
  <1>5. \A c \in Blocks : c # b /\ Dated(flash[c]) => Time(flash[c]) < mem.timestamp
    <2> SUFFICES ASSUME NEW c \in Blocks, c # b, Dated(flash[c])
                 PROVE  Time(flash[c]) < mem.timestamp
      OBVIOUS
    <2>1. Time(flash[c]) <= mem.timestamp
      BY <1>3, NotNewer
    <2>2. Time(flash[c]) # mem.timestamp
      BY <1>1, <1>3 DEF Sorted, Distinct
    <2>3. Time(flash[c]) \in Int /\ mem.timestamp \in Int
      BY <1>1, TimeOK
    <2> QED BY <2>1, <2>2, <2>3
  <1>6. \A p \in Pages : f[p].st = "data" => f[p].ts = mem.timestamp
    BY <1>3, <1>4, ZeroStart, LastPage DEF Tidy, Uniform, Dated, Time
  <1>7. \A u \in Starts : u < s + PageNum => Holds(f, u)
    <2> TAKE u \in Starts
    <2> HAVE u < s + PageNum
    <2>1. s \in Starts /\ Holds(f, s)
      BY <1>3 DEF LastCopy
    <2>2. s < u => s + PageNum <= u
      BY <2>1, LastPage, MultSteps DEF Starts, Mult
    <2>3. u < s \/ u = s
      <3>1. s \in Int /\ u \in Int
        BY <2>1, LastPage
      <3>2. PageNum \in Int
        BY Sizes
      <3> HIDE DEF s
      <3> QED BY <3>1, <3>2, <2>2
    <2> QED BY <2>1, <2>3, <1>4, HeldCopy
  <1> HIDE DEF b, f, s
  <1>8. Current' = f
    BY <1>1, <1>2 DEF Current, f
  <1>9. \A j : j \notin 0 .. next' - 1
    BY <1>1
  <1> QED BY <1>1, <1>2, <1>3, <1>4, <1>5, <1>6, <1>7, <1>8, <1>9
          DEF LastInv, FoundInv, SearchInv, WriteInv

\* The next block of the list is taken.
LEMMA LastMoved ==
    ASSUME Settled, Enough, NEW m \in Mem, MoveToNextBlock(m), pc \in {"search", "wipe"}, mem.valid,
           m.valid = mem.valid, m.abnormal = mem.abnormal, m.blk_addr = mem.blk_addr,
           m.nfree = mem.nfree, m.timestamp = mem.timestamp, m.page_addr >= 0, Mult(m.page_addr),
           bad' = bad, Sorted(flash'),
           \A b \in Blocks : Dated(flash'[b]) => Dated(flash[b]) /\ Time(flash'[b]) = Time(flash[b]),
           Turn(flash', bad, mem.abnormal, Append(mem.nfree, mem.blk_addr), mem.timestamp)
    PROVE  LastInv'
  <1>1. /\ Sound /\ Types /\ ListsInv /\ FaultsInv /\ fails = 0 /\ NodeLeft(mem.nfree)
        /\ mem.blk_addr \in Blocks /\ Len(mem.nfree) <= NodeCount /\ NoneNewer(Blocks)
        /\ mem.timestamp \in Int
    BY ListRoom, MemOK DEF Settled, Sound, Listing, ListsInv, Enough
  <1>2. \/ m.nfree = <<>> /\ pc' = "abort"
        \/ /\ m.nfree # <<>> /\ pc' = "prepare" /\ mem'.valid /\ mem'.abnormal = m.abnormal
           /\ mem'.timestamp = m.timestamp + 1
           /\ mem'.nfree = Append(Tail(m.nfree), m.blk_addr)
    BY <1>1, Moved
  <1>3. CASE m.nfree = <<>> /\ pc' = "abort"
    BY <1>3 DEF LastInv, FoundInv, SearchInv, WriteInv
  <1>4. CASE /\ m.nfree # <<>> /\ pc' = "prepare" /\ mem'.valid /\ mem'.abnormal = m.abnormal
             /\ mem'.timestamp = m.timestamp + 1
             /\ mem'.nfree = Append(Tail(m.nfree), m.blk_addr)
    <2>1. Turn(flash', bad, mem.abnormal, Append(Tail(mem.nfree), mem.blk_addr), mem.timestamp)
      BY <1>1, <1>4, TurnMoves
    <2>2. mem'.timestamp - 1 = mem.timestamp
      BY <1>1, <1>4
    <2>3. \A b \in Blocks : Dated(flash'[b]) => Time(flash'[b]) < mem'.timestamp
      <3> SUFFICES ASSUME NEW b \in Blocks, Dated(flash'[b])
                   PROVE  Time(flash'[b]) < mem'.timestamp
        OBVIOUS
      <3>1. Time(flash'[b]) = Time(flash[b]) /\ Time(flash[b]) <= mem.timestamp
        BY <1>1, NotNewer
      <3>2. Time(flash[b]) \in Int
        BY <1>1, TimeOK
      <3> QED BY <3>1, <3>2, <1>1, <1>4
    <2>4. Turn(flash', bad', mem'.abnormal, mem'.nfree, mem'.timestamp - 1)
      BY <2>1, <2>2, <1>4
    <2> QED BY <2>3, <2>4, <1>4 DEF LastInv, FoundInv, SearchInv, WriteInv
  <1> QED BY <1>2, <1>3, <1>4

LEMMA LastNext ==
    ASSUME Settled, Enough, search_next
    PROVE  LastInv'
  <1> DEFINE page == mem.page_addr + PageNum
             m == AtPage(mem, page)
  <1>1. /\ mem \in Mem /\ pc = "search" /\ flash' = flash /\ bad' = bad /\ mem.valid
        /\ mem.page_addr >= 0 /\ mem.page_addr \in Int /\ Mult(mem.page_addr)
        /\ mem.page_addr <= PagesPerBlk /\ Sorted(flash)
        /\ \/ mem.page_addr = PagesPerBlk /\ pc' = "wipe" /\ mem' = m
           \/ MoveToNextBlock(m)
    BY MemOK DEF Settled, LastInv, Sound, PcOK, Types, search_next, AtPage
  <1>2. /\ Turn(flash, bad, mem.abnormal, Append(mem.nfree, mem.blk_addr), mem.timestamp)
        /\ mem.page_addr = PagesPerBlk => mem.abnormal \/ mem.blk_addr \in bad
    BY <1>1 DEF Settled, LastInv, SearchInv
  <1>3. page \in -1 .. PagesPerBlk + PageNum /\ page >= 0
    BY <1>1, Sizes
  <1>4. Mult(page)
    BY <1>1, MultSteps
  <1> HIDE DEF page
  <1>5. /\ m \in Mem /\ m.valid = mem.valid /\ m.blk_addr = mem.blk_addr /\ m.page_addr = page
        /\ m.nfree = mem.nfree /\ m.timestamp = mem.timestamp /\ m.abnormal = mem.abnormal
    BY <1>1, <1>3, PageFields
  <1> HIDE DEF m
  <1>6. CASE mem.page_addr = PagesPerBlk /\ pc' = "wipe" /\ mem' = m
    BY <1>1, <1>2, <1>5, <1>6 DEF LastInv, FoundInv, SearchInv, WriteInv
  <1>7. CASE MoveToNextBlock(m)
    <2>1. \A b \in Blocks : Dated(flash'[b]) => Dated(flash[b]) /\ Time(flash'[b]) = Time(flash[b])
      BY <1>1
    <2>2. Turn(flash', bad, mem.abnormal, Append(mem.nfree, mem.blk_addr), mem.timestamp)
      BY <1>1, <1>2
    <2> QED BY <2>1, <2>2, <1>1, <1>3, <1>4, <1>5, <1>7, LastMoved
  <1> QED BY <1>1, <1>6, <1>7

LEMMA LastWipe ==
    ASSUME Settled, Enough, wipe
    PROVE  LastInv'
  <1>1. /\ Types /\ mem \in Mem /\ pc = "wipe" /\ flash' = ErasedFlash(mem.blk_addr) /\ bad' = bad
        /\ mem.valid /\ mem.page_addr >= 0 /\ Mult(mem.page_addr) /\ MoveToNextBlock(mem)
        /\ Sorted(flash)
    BY DEF Settled, LastInv, Sound, PcOK, Types, wipe
  <1>2. /\ Turn(flash, bad, mem.abnormal, Append(mem.nfree, mem.blk_addr), mem.timestamp)
        /\ mem.abnormal \/ mem.blk_addr \in bad
    BY <1>1 DEF Settled, LastInv, SearchInv
  <1>3. /\ flash' \in Chips
        /\ \A b \in Blocks : flash'[b] = flash[b] \/ flash'[b] \in {EmptyBlock, RuinedBlock}
    BY <1>1, ErasedSorted
  <1>4. /\ Sorted(flash')
        /\ \A b \in Blocks : Dated(flash'[b]) => flash'[b] = flash[b] /\ Dated(flash[b])
    BY <1>1, <1>3, SortedErase
  <1>5. Turn(flash', bad, mem.abnormal, Append(mem.nfree, mem.blk_addr), mem.timestamp)
    <2>1. CASE mem.blk_addr \in bad
      <3>1. flash' = flash
        BY <2>1, <1>1 DEF ErasedFlash
      <3> QED BY <3>1, <1>2
    <2>2. CASE mem.abnormal
      BY <2>2, <1>2 DEF Turn
    <2> QED BY <2>1, <2>2, <1>2
  <1>6. \A b \in Blocks : Dated(flash'[b]) => Dated(flash[b]) /\ Time(flash'[b]) = Time(flash[b])
    BY <1>4
  <1> QED BY <1>1, <1>4, <1>5, <1>6, LastMoved

LEMMA LastFirst ==
    ASSUME Settled, Enough, search_first
    PROVE  LastInv'
  <1>1. /\ Types /\ mem \in Mem /\ pc = "search" /\ flash' = flash /\ bad' = bad /\ Sorted(flash)
        /\ ~mem.valid /\ mem.nfree \in Seq(Blocks) /\ mem.timestamp \in Nat
        /\ \/ mem.nfree = <<>> /\ mem' = mem /\ pc' = "abort"
           \/ mem.nfree # <<>> /\ mem' = TakeHead(mem) /\ pc' = "prepare"
    BY MemOK DEF Settled, LastInv, Sound, Types, search_first
  <1>2. /\ \A b \in Blocks : ~Dated(flash[b])
        /\ mem.timestamp + Len(mem.nfree) < MaxTimestamp + NBlocks
    BY <1>1 DEF Settled, LastInv, FoundInv, SearchInv
  <1>3. CASE mem.nfree = <<>> /\ mem' = mem /\ pc' = "abort"
    BY <1>1, <1>3 DEF LastInv, FoundInv, SearchInv, WriteInv
  <1>4. CASE mem.nfree # <<>> /\ mem' = TakeHead(mem) /\ pc' = "prepare"
    <2>1. /\ mem'.nfree = Tail(mem.nfree) /\ mem'.timestamp = mem.timestamp + 1
          /\ mem'.valid = mem.valid /\ Len(Tail(mem.nfree)) = Len(mem.nfree) - 1
          /\ Len(mem.nfree) \in Nat
      BY <1>1, <1>4, HeadFields, HeadList
    <2>2. mem'.timestamp + Len(mem'.nfree) < MaxTimestamp + NBlocks
      BY <2>1, <1>1, <1>2, Sizes, RsvAssumption
    <2> QED BY <2>1, <2>2, <1>1, <1>2, <1>4 DEF LastInv, FoundInv, SearchInv, WriteInv
  <1> QED BY <1>1, <1>3, <1>4

LEMMA LastPrepare ==
    ASSUME Settled, Enough, prepare
    PROVE  LastInv'
  <1> DEFINE c == mem.blk_addr
  <1>1. /\ Types /\ mem \in Mem /\ pc = "prepare" /\ c \in Blocks /\ mem.page_addr = 0
        /\ mem.timestamp \in Nat /\ mem.timestamp \in Int /\ Sorted(flash)
        /\ mem.nfree \in Seq(Blocks) /\ Len(mem.nfree) \in Nat /\ Len(mem.nfree) < NBlocks
        /\ PageNum \in Int /\ PageNum >= 1 /\ PagesPerBlk \in Int
    <2>1. /\ Types /\ pc = "prepare" /\ c \in Blocks /\ mem.page_addr = 0 /\ Sorted(flash)
      BY DEF Settled, LastInv, Sound, PcOK, prepare
    <2>2. mem.nfree \in Seq(Blocks) /\ Len(mem.nfree) \in Nat /\ Len(mem.nfree) < NBlocks
      BY <2>1, ListRoom DEF Settled, Listing, Enough
    <2>3. PageNum \in Int /\ PageNum >= 1 /\ PagesPerBlk \in Int
      BY Sizes
    <2> QED BY <2>1, <2>2, <2>3, MemOK
  <1>2. /\ \A b \in Blocks : Dated(flash[b]) => Time(flash[b]) < mem.timestamp
        /\ mem.valid => Turn(flash, bad, mem.abnormal, mem.nfree, mem.timestamp - 1)
        /\ ~mem.valid => /\ \A b \in Blocks : ~Dated(flash[b])
                         /\ mem.timestamp + Len(mem.nfree) < MaxTimestamp + NBlocks
    BY <1>1 DEF Settled, LastInv, FoundInv, SearchInv
  <1>3. \/ /\ c \in bad /\ mem' = AtPage(mem, PagesPerBlk - PageNum) /\ pc' = "search"
           /\ bad' = bad /\ flash' = flash
        \/ /\ flash' = ErasedFlash(c) /\ c \notin bad /\ pc' = "write" /\ next' = 0
           /\ mem' = mem /\ bad' = bad
        \/ /\ mem' = AtPage(mem, PagesPerBlk) /\ pc' = "search"
           /\ bad' = bad \cup {c} /\ flash' = flash
    BY DEF prepare, AtPage
  \* The block is bad, or found to be.
  <1>4. ASSUME NEW page \in {PagesPerBlk - PageNum, PagesPerBlk}, mem' = AtPage(mem, page),
               pc' = "search", flash' = flash, c \in bad', bad \subseteq bad'
        PROVE  LastInv'
    <2>1. page \in -1 .. PagesPerBlk + PageNum
      <3>1. PageNum <= PagesPerBlk
        <4>1. Mult(0) /\ Mult(PagesPerBlk) /\ 0 < PagesPerBlk /\ PagesPerBlk \in Int
          BY Sizes, MultSteps
        <4>2. 0 + PageNum <= PagesPerBlk
          BY <4>1, MultSteps
        <4> QED BY <4>2, <1>1
      <3> QED BY <3>1, <1>1
    <2>2. /\ mem'.valid = mem.valid /\ mem'.blk_addr = c /\ mem'.nfree = mem.nfree
          /\ mem'.timestamp = mem.timestamp /\ mem'.abnormal = mem.abnormal /\ mem'.page_addr = page
      BY <1>1, <1>4, <2>1, PageFields
    <2>3. ~Room'
      BY <2>2, <1>1 DEF Room
    <2>4. mem.valid => Turn(flash, bad', mem.abnormal, Append(mem.nfree, c), mem.timestamp)
      BY <1>1, <1>2, <1>4, TurnAppend
    <2> HIDE DEF c
    <2> QED BY <2>2, <2>3, <2>4, <1>1, <1>2, <1>4 DEF LastInv, FoundInv, SearchInv, WriteInv
  <1>5. CASE /\ flash' = ErasedFlash(c) /\ c \notin bad /\ pc' = "write" /\ next' = 0
             /\ mem' = mem /\ bad' = bad
    <2>1. /\ flash' \in Chips
          /\ \A b \in Blocks : flash'[b] = flash[b] \/ flash'[b] \in {EmptyBlock, RuinedBlock}
          /\ flash'[c] = EmptyBlock
      BY <1>1, <1>5, ErasedSorted
    <2>2. /\ Sorted(flash')
          /\ \A b \in Blocks : Dated(flash'[b]) => flash'[b] = flash[b] /\ Dated(flash[b])
      BY <2>1, <1>1, SortedErase
    <2>3. \A b \in Blocks : Dated(flash'[b]) => Time(flash'[b]) < mem.timestamp
      BY <2>2, <1>2
    <2>4. \A p \in Pages : EmptyBlock[p].st = "erased"
      BY EmptyForms
    <2>5. \A s \in Starts : ~(s < 0)
      BY LastPage
    <2>6. mem.timestamp < TimestampMod
      <3>1. CASE mem.valid
        <4>1. PICK i \in 1 .. Len(mem.nfree) : mem.timestamp - 1 < MaxTimestamp + Len(mem.nfree) - i
          BY <3>1, <1>2 DEF Turn
        <4>2. mem.timestamp - 1 < MaxTimestamp + Len(mem.nfree) - 1
          BY <4>1, <1>1, RsvAssumption
        <4> QED BY <4>2, <1>1, RsvAssumption DEF Enough
      <3>2. CASE ~mem.valid
        BY <3>2, <1>1, <1>2, RsvAssumption DEF Enough
      <3> QED BY <3>1, <3>2
    <2>7. \A j : j \notin 0 .. next' - 1
      BY <1>5
    <2>8. Current' = EmptyBlock
      BY <2>1, <1>5 DEF Current
    <2> HIDE DEF c
    <2> QED BY <2>2, <2>3, <2>4, <2>5, <2>6, <2>7, <2>8, <1>1, <1>5
            DEF LastInv, FoundInv, SearchInv, WriteInv
  <1> QED BY <1>3, <1>4, <1>5

-----------------------------------------------------------------------------
(* LastInv: a save writes its pages.                                       *)

\* One page more: what the save had written stays, and with its last page the copy is
\* the last of its block.
LEMMA WriteLast ==
    ASSUME Settled, pc = "write", NEW page \in {Torn, Content}, Program(page)
    PROVE  /\ Sorted(flash') /\ mem.blk_addr \in Blocks /\ mem.page_addr \in Starts
           /\ next \in 0 .. PageNum - 1 /\ job \in Values
           /\ \A b \in Blocks : b # mem.blk_addr => flash'[b] = flash[b]
           /\ \A p \in Pages : flash'[mem.blk_addr][p] = IF p = mem.page_addr + next THEN page
                                                         ELSE flash[mem.blk_addr][p]
           /\ \A p \in Pages : flash'[mem.blk_addr][p].st = "data"
                                 => flash'[mem.blk_addr][p].ts = mem.timestamp
           /\ \A u \in Starts : u # mem.page_addr
                                  => (Holds(flash'[mem.blk_addr], u) <=> Holds(Current, u))
           /\ ~Holds(Current, mem.page_addr)
           /\ Holds(flash'[mem.blk_addr], mem.page_addr) <=> page = Content /\ next = PageNum - 1
           /\ page = Content => \A j \in 0 .. next : flash'[mem.blk_addr][mem.page_addr + j] =
                                  Wrote(job, j, mem.timestamp)
           /\ \A u \in Starts : mem.page_addr < u => ~Holds(flash'[mem.blk_addr], u)
  <1> DEFINE c == mem.blk_addr
             s == mem.page_addr
             t == mem.timestamp
             f == flash[c]
             g == flash'[c]
  <1>1. /\ Sound /\ Types /\ PagesInv /\ WriteInv /\ Sorted(flash) /\ c \in Blocks /\ job \in Values
        /\ next < PageNum /\ t \in Nat /\ t < TimestampMod
    BY MemOK DEF Settled, Sound, LastInv, PcOK, Working, WriteInv
  <1>2. /\ page \in Page /\ page.st # "erased"
        /\ page.st = "torn" \/ page = Wrote(job, next, t)
        /\ page.st = "data" <=> page = Content
    <2>1. t % TimestampMod = t
      BY <1>1, Sizes
    <2>2. Content = Wrote(job, next, t)
      BY <2>1 DEF Content, Wrote
    <2>3. /\ Content \in Page /\ Content.st = "data" /\ Torn \in Page /\ Torn.st = "torn"
      BY <1>1, ContentPage, BlockTypes
    <2> QED BY <2>2, <2>3
  <1>3. /\ AllFormed' /\ Target = s + next /\ s \in Starts /\ next \in 0 .. PageNum - 1
        /\ \A b \in Blocks : b # c => flash'[b] = flash[b]
        /\ \A p \in Pages : g[p] = IF p = Target THEN page ELSE f[p]
    BY <1>1, <1>2, PageWritten DEF Target
  <1>4. flash' \in Chips /\ f \in BlockPages /\ g \in BlockPages /\ Formed(f) /\ Tidy(f)
    <2>1. flash' \in Chips
      BY <1>1, <1>2, Programmed DEF Chips, BlockPages
    <2>2. f \in BlockPages /\ Formed(f) /\ Tidy(f)
      BY <1>1, SortedBlock
    <2> QED BY <2>1, <2>2, <1>1 DEF Chips
  <1>5. /\ Clear(f, s + next)
        /\ \A b \in Blocks : b # c /\ Dated(flash[b]) => Time(flash[b]) < t
        /\ \A p \in Pages : f[p].st = "data" => f[p].ts = t
        /\ \A u \in Starts : u < s => Holds(f, u)
        /\ \A j \in 0 .. next - 1 : f[s + j] = Wrote(job, j, t)
    BY <1>1, <1>3 DEF PagesInv, WriteInv, Current
  <1>6. \A p \in Pages : g[p] = IF p = s + next THEN page ELSE f[p]
    BY <1>3
  <1> HIDE DEF c, s, f, g, t
  <1>7. /\ Tidy(g)
        /\ \A p \in Pages : g[p].st = "data" => g[p].ts = t
        /\ \A u \in Starts : u # s => (Holds(g, u) <=> Holds(f, u))
        /\ ~Holds(f, s)
        /\ Holds(g, s) <=> page.st = "data" /\ next = PageNum - 1
        /\ page.st = "data" => \A j \in 0 .. next : g[s + j] = Wrote(job, j, t)
        /\ \A u \in Starts : s < u => ~Holds(g, u)
    <2>1. /\ f \in BlockPages /\ g \in BlockPages /\ page \in Page /\ s \in Starts
          /\ next \in 0 .. PageNum - 1 /\ t \in Nat /\ Formed(f) /\ Tidy(f) /\ Clear(f, s + next)
          /\ page.st = "torn" \/ page = Wrote(job, next, t)
      BY <1>1, <1>2, <1>3, <1>4, <1>5
    <2>2. /\ \A p \in Pages : f[p].st = "data" => f[p].ts = t
          /\ \A u \in Starts : u < s => Holds(f, u)
          /\ \A j \in 0 .. next - 1 : f[s + j] = Wrote(job, j, t)
      BY <1>5
    <2> QED BY <2>1, <2>2, <1>6, TidyWrite, SMTT(60)
  <1>8. \A b \in Blocks : Formed(flash'[b]) /\ Tidy(flash'[b])
    <2> TAKE b \in Blocks
    <2>1. Formed(flash'[b])
      BY <1>3 DEF AllFormed
    <2>2. CASE b = c
      BY <2>1, <2>2, <1>7 DEF g
    <2>3. CASE b # c
      BY <2>1, <2>3, <1>1, <1>3 DEF Sorted
    <2> QED BY <2>2, <2>3
  <1>9. Distinct(flash')
    <2>1. \A b \in Blocks : b # c /\ Dated(flash'[b]) => Time(flash'[b]) < t /\ Time(flash'[b]) \in Int
      BY <1>1, <1>3, <1>5, TimeOK
    <2>2. Dated(g) => Time(g) = t
      BY <1>7, ZeroStart, Sizes DEF Dated, Time
    <2>3. \A b \in Blocks : b # c /\ Dated(flash'[b]) => Time(flash'[b]) # t
      BY <2>1, <1>1
    <2>4. \A b, d \in Blocks : b # c /\ d # c /\ b # d /\ Dated(flash'[b]) /\ Dated(flash'[d])
            => Time(flash'[b]) # Time(flash'[d])
      BY <1>1, <1>3 DEF Sorted, Distinct
    <2> QED BY <2>2, <2>3, <2>4 DEF Distinct, g
  <1>10. Sorted(flash')
    BY <1>4, <1>8, <1>9 DEF Sorted
  <1>11. /\ Holds(g, s) <=> page = Content /\ next = PageNum - 1
         /\ page = Content => \A j \in 0 .. next : g[s + j] = Wrote(job, j, t)
    BY <1>2, <1>7
  <1>12. /\ c \in Blocks /\ s \in Starts /\ next \in 0 .. PageNum - 1 /\ job \in Values
         /\ \A b \in Blocks : b # c => flash'[b] = flash[b]
    BY <1>1, <1>3
  <1>13. /\ \A p \in Pages : g[p].st = "data" => g[p].ts = t
         /\ \A u \in Starts : u # s => (Holds(g, u) <=> Holds(f, u))
         /\ ~Holds(f, s)
         /\ \A u \in Starts : s < u => ~Holds(g, u)
    BY <1>7
  <1>14. f = Current /\ f = flash[mem.blk_addr]
    BY DEF f, c, Current
  <1>15. c = mem.blk_addr /\ s = mem.page_addr /\ g = flash'[mem.blk_addr] /\ t = mem.timestamp
    BY DEF c, s, g, t
  <1> QED BY <1>6, <1>10, <1>11, <1>12, <1>13, <1>14, <1>15

LEMMA LastWrite ==
    ASSUME Settled, Enough, write
    PROVE  LastInv'
  <1> DEFINE c == mem.blk_addr
             s == mem.page_addr
             t == mem.timestamp
             g == flash'[c]
  <1>1. /\ pc = "write" /\ Program(Content) /\ Content \in {Torn, Content} /\ Types /\ mem \in Mem
        /\ WriteInv
    BY DEF write, Settled, Sound, Types, LastInv
  <1>2. /\ Sorted(flash') /\ c \in Blocks /\ s \in Starts /\ next \in 0 .. PageNum - 1
        /\ \A b \in Blocks : b # c => flash'[b] = flash[b]
        /\ \A p \in Pages : g[p].st = "data" => g[p].ts = t
        /\ \A u \in Starts : u # s => (Holds(g, u) <=> Holds(Current, u))
        /\ Holds(g, s) <=> next = PageNum - 1
        /\ \A j \in 0 .. next : g[s + j] = Wrote(job, j, t)
        /\ \A u \in Starts : s < u => ~Holds(g, u)
    BY <1>1, WriteLast
  <1>3. /\ t < TimestampMod
        /\ \A b \in Blocks : b # c /\ Dated(flash'[b]) => Time(flash'[b]) < t
        /\ \A u \in Starts : u < s => Holds(g, u)
    <2>1. \A u \in Starts : u < s => u # s
      BY <1>2, LastPage
    <2> QED BY <2>1, <1>1, <1>2 DEF WriteInv
  <1>4. \/ /\ next = PageNum - 1 /\ pc' = "idle"
           /\ mem' = [mem EXCEPT !.valid = TRUE, !.abnormal = FALSE]
        \/ next # PageNum - 1 /\ next' = next + 1 /\ UNCHANGED <<mem, pc, job>>
    BY DEF write, Return
  <1>5. CASE /\ next = PageNum - 1 /\ pc' = "idle"
             /\ mem' = [mem EXCEPT !.valid = TRUE, !.abnormal = FALSE]
    <2>1. mem'.blk_addr = c /\ mem'.page_addr = s /\ mem'.timestamp = t /\ mem'.valid
      BY <1>1, <1>5 DEF Mem
    <2>2. LastCopy(g, s)
      BY <1>2, <1>5 DEF LastCopy
    <2>3. Dated(g) /\ Time(g) = t
      <3>1. g \in BlockPages /\ Formed(g) /\ Tidy(g)
        BY <1>2, SortedBlock
      <3>2. Dated(g)
        BY <3>1, <1>2, <1>5, HeldCopy
      <3> QED BY <3>2, <1>2, ZeroStart, Sizes DEF Dated, Time
    <2> QED BY <2>1, <2>2, <2>3, <1>2, <1>5 DEF LastInv, FoundInv, SearchInv, WriteInv, Own, Current
  <1>6. CASE next # PageNum - 1 /\ next' = next + 1 /\ UNCHANGED <<mem, pc, job>>
    <2>1. 0 .. next' - 1 = 0 .. next
      BY <1>2, <1>6
    <2>2. WriteInv'
      BY <2>1, <1>1, <1>2, <1>3, <1>6 DEF WriteInv, Current
    <2> QED BY <2>2, <1>1, <1>2, <1>6 DEF LastInv, FoundInv, SearchInv
  <1> QED BY <1>4, <1>5, <1>6

-----------------------------------------------------------------------------
(* LastInv: reads, erases and power cuts.                                  *)

\* The valid copy is complete, so that a read never scans again.
LEMMA LastRead ==
    ASSUME Settled, meson_rsv_read
    PROVE  LastInv' /\ pc' = pc
  <1>1. /\ pc = "idle" /\ Sorted(flash)
        /\ UNCHANGED <<flash, bad, mem, job, next, scan, ret, cuts, fails>>
        /\ mem.valid => mem.blk_addr \in Blocks /\ LastCopy(Current, mem.page_addr)
        /\ pc' = pc \/ (mem.valid /\ \E k \in 0 .. PageNum - 1 :
                           flash[mem.blk_addr][mem.page_addr + k].st = "torn")
    BY DEF meson_rsv_read, Settled, LastInv, FoundInv, Sound, PcOK
  <1>2. ASSUME mem.valid, NEW k \in 0 .. PageNum - 1
        PROVE  flash[mem.blk_addr][mem.page_addr + k].st = "data"
    <2>1. Current \in BlockPages /\ Formed(Current) /\ Tidy(Current)
      BY <1>1, <1>2, SortedBlock DEF Current
    <2> QED BY <2>1, <1>1, <1>2, HeldCopy DEF LastCopy, Current
  <1>3. pc' = pc
    BY <1>1, <1>2
  <1> QED BY <1>1, <1>3 DEF Settled, LastInv, FoundInv, SearchInv, WriteInv, Own, Current, Room

LEMMA LastErase ==
    ASSUME Settled, Enough, meson_rsv_erase
    PROVE  LastInv' /\ (pc' = "erase" => job' = None /\ ret' = ret) /\ pc' \in {"erase", "abort"}
  <1>1. /\ Sound /\ Types /\ pc = "idle" /\ mem.valid /\ flash' = flash /\ bad' = bad /\ Sorted(flash)
        /\ mem.nfree \in Seq(Blocks) /\ mem.blk_addr \in Blocks /\ NodeLeft(mem.nfree)
        /\ Own /\ LastCopy(Current, mem.page_addr) /\ NoneNewer(Blocks)
    BY ListRoom DEF meson_rsv_erase, Settled, Sound, LastInv, FoundInv, ListsInv, Listing, Enough
  <1>2. /\ ~mem'.valid /\ mem'.nfree = Append(mem.nfree, mem.blk_addr)
        /\ pc' \in {"erase", "abort"} /\ job' = None /\ ret' = ret
    BY <1>1, EraseCases
  <1>3. Latest(flash, mem.blk_addr)
    BY <1>1, LatestOwn
  <1>4. mem'.nfree[Len(mem'.nfree)] = mem.blk_addr
    BY <1>1, <1>2, AppendProperties
  <1>5. Latest(flash', mem'.nfree[Len(mem'.nfree)])
    BY <1>1, <1>3, <1>4
  <1> QED BY <1>1, <1>2, <1>5 DEF LastInv, FoundInv, SearchInv, WriteInv

\* The block of the last content is the last one to be erased.
LEMMA ErasesLast ==
    ASSUME Settled, erase_block
    PROVE  /\ Sorted(flash') /\ flash' \in Chips /\ mem' = mem
           /\ \A b \in Blocks : flash'[b] = flash[b] \/ flash'[b] \in {EmptyBlock, RuinedBlock}
           /\ next = Len(mem.nfree) => \A b \in Blocks : ~Dated(flash'[b])
           /\ next # Len(mem.nfree) =>
                /\ mem.nfree[Len(mem.nfree)] \in Blocks
                /\ flash'[mem.nfree[Len(mem.nfree)]] = flash[mem.nfree[Len(mem.nfree)]]
  <1> DEFINE s == mem.nfree
             n == Len(s)
             e == s[next]
  <1>1. /\ Sound /\ Types /\ pc = "erase" /\ next \in 1 .. n /\ n \in Nat /\ s \in Seq(Blocks)
        /\ flash' = ErasedFlash(e) /\ mem' = mem /\ Sorted(flash)
    BY MemOK DEF Settled, Sound, LastInv, PcOK, erase_block
  <1>2. /\ Unlike(s) /\ bad = {}
        /\ \A b \in Blocks : HasHeader(b) => \E i \in next .. n : s[i] = b
    BY <1>1 DEF Settled, ListsInv, Listing
  <1>3. DOMAIN s = 1 .. n /\ n \in 1 .. n /\ s[n] \in Blocks
    <2>1. DOMAIN s = 1 .. n /\ s \in [1 .. n -> Blocks] /\ n \in 1 .. n
      BY <1>1, LenProperties
    <2> QED BY <2>1
  <1> HIDE DEF e
  <1>4. /\ flash' \in Chips
        /\ \A b \in Blocks : flash'[b] = flash[b] \/ flash'[b] \in {EmptyBlock, RuinedBlock}
        /\ \A b \in Blocks : flash'[b] = IF b = e THEN EmptyBlock ELSE flash[b]
    BY <1>1, <1>2, ErasedSorted
  <1>5. /\ Sorted(flash')
        /\ \A b \in Blocks : Dated(flash'[b]) => flash'[b] = flash[b] /\ Dated(flash[b])
    BY <1>1, <1>4, SortedErase
  <1>6. ASSUME next = n, NEW b \in Blocks PROVE ~Dated(flash'[b])
    <2> SUFFICES ASSUME Dated(flash'[b]) PROVE FALSE
      OBVIOUS
    <2>1. Dated(flash[b]) /\ flash[b] \in BlockPages /\ Formed(flash[b]) /\ Tidy(flash[b])
      BY <1>1, <1>5, SortedBlock
    <2>2. HasHeader(b)
      BY <2>1, HeaderFirst, ZeroStart DEF HasHeader
    <2>3. next .. n = {next}
      BY <1>1, <1>6
    <2>4. b = e
      BY <2>2, <2>3, <1>2 DEF e
    <2> QED BY <2>4, <1>4, TidyBlocks
  <1>7. ASSUME next # n PROVE flash'[s[n]] = flash[s[n]]
    <2>1. s[n] # e
      BY <1>1, <1>2, <1>3, <1>7 DEF Unlike, e
    <2> QED BY <2>1, <1>3, <1>4
  <1> QED BY <1>1, <1>3, <1>4, <1>5, <1>6, <1>7

LEMMA LastEraseBlock ==
    ASSUME Settled, erase_block
    PROVE  LastInv'
  <1>1. /\ Sorted(flash) /\ Sorted(flash') /\ flash' \in Chips /\ mem' = mem /\ pc = "erase"
        /\ \A b \in Blocks : flash'[b] = flash[b] \/ flash'[b] \in {EmptyBlock, RuinedBlock}
        /\ next = Len(mem.nfree) => \A b \in Blocks : ~Dated(flash'[b])
        /\ next # Len(mem.nfree) =>
             /\ mem.nfree[Len(mem.nfree)] \in Blocks
             /\ flash'[mem.nfree[Len(mem.nfree)]] = flash[mem.nfree[Len(mem.nfree)]]
        /\ ~mem.valid /\ Latest(flash, mem.nfree[Len(mem.nfree)])
    BY ErasesLast DEF Settled, LastInv, FoundInv, Sound, PcOK, erase_block
  <1>2. \/ next = Len(mem.nfree) /\ pc' = "idle"
        \/ next # Len(mem.nfree) /\ pc' = "erase"
    BY DEF erase_block, Return
  <1>3. CASE next = Len(mem.nfree) /\ pc' = "idle"
    BY <1>1, <1>3 DEF LastInv, FoundInv, SearchInv, WriteInv
  <1>4. CASE next # Len(mem.nfree) /\ pc' = "erase"
    <2>1. Latest(flash', mem.nfree[Len(mem.nfree)])
      BY <1>1, <1>4, SortedErase
    <2> QED BY <2>1, <1>1, <1>4 DEF LastInv, FoundInv, SearchInv, WriteInv
  <1> QED BY <1>2, <1>3, <1>4

LEMMA LastPowerCut ==
    ASSUME Settled, PowerCut
    PROVE  LastInv'
  <1>1. Types /\ Sorted(flash) /\ pc' = "off"
    BY DEF Settled, Sound, LastInv, PowerCut
  <1>2. Sorted(flash')
    <2>1. CASE UNCHANGED flash
      BY <2>1, <1>1
    <2>2. CASE \E c \in Erasing, result \in {EmptyBlock, RuinedBlock} :
                 flash' = [flash EXCEPT ![c] = result]
      <3>1. \A b \in Blocks : flash'[b] = flash[b] \/ flash'[b] \in {EmptyBlock, RuinedBlock}
        BY <1>1, <2>2 DEF Types
      <3>2. flash' \in Chips
        BY <1>1, <2>2, BlockTypes DEF Types, Chips, BlockPages
      <3> QED BY <3>1, <3>2, <1>1, SortedErase
    <2>3. CASE pc = "write" /\ \E page \in {Torn, Content} : Program(page)
      BY <2>3, WriteLast
    <2> QED BY <2>1, <2>2, <2>3 DEF PowerCut
  <1> QED BY <1>1, <1>2 DEF LastInv, FoundInv, SearchInv, WriteInv

LEMMA LastStep ==
    ASSUME Settled, Enough, [Next]_vars, fails' = 0
    PROVE  LastInv'
  <1>1. CASE Driver
    <2>1. ~write_fails
      BY DEF write_fails, Settled
    <2> QED BY <1>1, <2>1, LastPowerUp, LastScan, LastSelect, LastFree, LastSame, LastNext, LastFirst,
               LastWipe, LastPrepare, LastWrite, LastEraseBlock DEF Driver
  <1>2. CASE \E v \in Values : meson_rsv_save(v)
    BY <1>2, LastSave
  <1>3. CASE UNCHANGED vars
    BY <1>3 DEF vars, Settled, LastInv, FoundInv, SearchInv, WriteInv, Own, Current, Room
  <1> QED BY <1>1, <1>2, <1>3, LastRead, LastErase, LastPowerCut DEF Next

LEMMA LastInit == Init => LastInv
  <1> SUFFICES ASSUME Init PROVE LastInv
    OBVIOUS
  <1>1. \A b \in Blocks : flash[b] = EmptyBlock
    BY DEF Init
  <1>2. flash \in Chips
    BY EmptyForms DEF Init, Chips
  <1>3. Sorted(flash)
    BY <1>1, <1>2, EmptyForms, TidyBlocks DEF Sorted, Distinct
  <1> QED BY <1>3 DEF Init, LastInv, FoundInv, SearchInv, WriteInv

LEMMA LastInvariant ==
    ASSUME Enough
    PROVE  Spec => [](NandInv /\ (fails = 0 => LastInv))
  <1> DEFINE I == NandInv /\ (fails = 0 => LastInv)
  <1>1. Init => I
    BY NandInit, LastInit
  <1>2. ASSUME I, [Next]_vars PROVE I'
    <2>1. NandInv'
      BY <1>2, NandStep DEF Enough
    <2>2. ASSUME fails' = 0 PROVE LastInv'
      <3>1. fails \in Nat /\ (fails' = fails \/ fails' = fails + 1)
        BY <1>2, FailsStep DEF NandInv, Sound, Types
      <3>2. fails = 0
        BY <3>1, <2>2
      <3>3. Settled
        BY <3>2, <1>2 DEF NandInv, Settled
      <3> QED BY <3>3, <1>2, <2>2, LastStep
    <2> QED BY <2>1, <2>2
  <1> QED BY <1>1, <1>2, PTL DEF Spec

-----------------------------------------------------------------------------
(* The history variable, and what the driver reads.                        *)

HistInv == stored = Stored(Copies)

LEMMA HistStep ==
    ASSUME HistInv, [HNext]_<<vars, stored>>
    PROVE  HistInv' /\ [Next]_vars
  <1>1. CASE HNext
    <2>1. PICK copies \in {Copies'} : stored' = Stored(copies)
      BY <1>1 DEF HNext
    <2>2. stored' = Stored(Copies)'
      BY <2>1
    <2> QED BY <2>2, <1>1 DEF HistInv, HNext
  <1>2. CASE UNCHANGED <<vars, stored>>
    <2>1. Copies' = Copies
      BY <1>2 DEF vars, Copies, Places, Complete, CopyAt
    <2> QED BY <2>1, <1>2 DEF HistInv, vars, Stored
  <1> QED BY <1>1, <1>2

LEMMA HistInvariant == HSpec => Spec /\ []HistInv
  <1>1. HInit => Init /\ HistInv
    BY DEF HInit, HistInv
  <1>2. HistInv /\ [HNext]_<<vars, stored>> => HistInv' /\ [Next]_vars
    BY HistStep
  <1> QED BY <1>1, <1>2, PTL DEF HSpec, Spec

LEMMA ReadsLast ==
    ASSUME Settled, HistInv
    PROVE  ReadsWhatIsStored
  <1> SUFFICES ASSUME pc = "idle" PROVE InUse
    BY DEF ReadsWhatIsStored
  <1>1. /\ Types /\ Sorted(flash) /\ NoneNewer(Blocks) /\ stored = Stored(CopiesIn(flash))
        /\ mem.valid => mem.blk_addr \in Blocks /\ Own /\ LastCopy(Current, mem.page_addr)
        /\ ~mem.valid => \A b \in Blocks : ~Dated(flash[b])
    BY CopiesNow DEF Settled, Sound, PcOK, LastInv, FoundInv, ListsInv, Listing, HistInv
  <1>2. CASE mem.valid
    <2> DEFINE b == mem.blk_addr
               s == mem.page_addr
    <2>1. LastCopy(flash[b], s) /\ Latest(flash, b) /\ b \in Blocks /\ s \in Starts
      BY <1>1, <1>2, LatestOwn DEF Current, LastCopy
    <2>2. stored = flash[b][s].val
      BY <2>1, <1>1, NewestIs
    <2>3. flash[b] \in BlockPages /\ Formed(flash[b]) /\ Tidy(flash[b])
      BY <2>1, <1>1, SortedBlock
    <2>4. WholeIn(flash[b], s)
      BY <2>1, <2>3, WholeHolds DEF LastCopy
    <2> QED BY <2>2, <2>4, <1>2 DEF InUse, Complete, WholeIn
  <1>3. CASE ~mem.valid
    <2>1. Stored(CopiesIn(flash)) = None
      BY <1>1, <1>3, NothingIn
    <2> QED BY <2>1, <1>1, <1>3 DEF InUse
  <1> QED BY <1>2, <1>3

\* Between the calls, the copy that meson_rsv_read reads is the newest on the flash, the
\* one a power cut at this moment would leave, and with no valid block there is none
\* (meson_rsv_scan, meson_rsv_save, meson_rsv_write).
THEOREM NandRsvReadsWhatIsStored ==
    ASSUME NodeCount >= NBlocks, NBlocks >= MaxCuts + MaxBad + 2,
           MaxTimestamp + NBlocks <= TimestampMod
    PROVE  HSpec => []ReadsWhatIsStored
  <1>1. Spec => [](NandInv /\ (fails = 0 => LastInv))
    BY LastInvariant DEF Enough
  <1>2. ASSUME NandInv /\ (fails = 0 => LastInv), HistInv PROVE ReadsWhatIsStored
    <2>1. CASE fails = 0
      <3>1. Settled
        BY <2>1, <1>2 DEF NandInv, Settled
      <3> QED BY <3>1, <1>2, ReadsLast
    <2>2. CASE fails # 0
      <3>1. fails > 0
        BY <2>2, <1>2 DEF NandInv, Sound, Types
      <3> QED BY <3>1 DEF ReadsWhatIsStored, Damaged
    <2> QED BY <2>1, <2>2
  <1> QED BY <1>1, <1>2, HistInvariant, PTL

\* As long as no page has failed to program, the driver is on the newest complete copy
\* of its block after a scan ("step 2, find the newest in the block"): what the run
\* NandRsvFailure finds takes a failed page.
THEOREM NandRsvFindsNewestInBlock ==
    ASSUME NodeCount >= NBlocks, NBlocks >= MaxCuts + MaxBad + 2,
           MaxTimestamp + NBlocks <= TimestampMod
    PROVE  Spec => [](fails = 0 => FindsNewestInBlock)
  <1>1. Spec => [](NandInv /\ (fails = 0 => LastInv))
    BY LastInvariant DEF Enough
  <1>2. ASSUME NandInv /\ (fails = 0 => LastInv), fails = 0 PROVE FindsNewestInBlock
    <2> DEFINE b == mem.blk_addr
               s == mem.page_addr
    <2> SUFFICES ASSUME pc = "idle", mem.valid PROVE s = Highest(Whole(b))
      BY DEF FindsNewestInBlock
    <2>1. Sorted(flash) /\ b \in Blocks /\ LastCopy(flash[b], s)
      BY <1>2 DEF NandInv, Sound, PcOK, LastInv, FoundInv, Current
    <2>2. \A u \in Starts : u \in Whole(b) <=> Holds(flash[b], u)
      BY <2>1, SortedBlock, WholeHolds DEF Whole, Complete, WholeIn
    <2>3. /\ s \in Starts /\ s \in Whole(b) /\ Whole(b) \subseteq Starts
          /\ \A u \in Starts : s < u => u \notin Whole(b)
      BY <2>1, <2>2 DEF LastCopy, Whole
    <2>4. Highest(Whole(b)) \in Whole(b) /\ \A u \in Whole(b) : u <= Highest(Whole(b))
      <3>1. Whole(b) \subseteq Pages /\ Whole(b) # {}
        BY <2>3, Sizes
      <3> QED BY <3>1, Greatest
    <2>5. s <= Highest(Whole(b)) /\ ~(s < Highest(Whole(b)))
      BY <2>3, <2>4
    <2>6. s \in Int /\ Highest(Whole(b)) \in Int
      BY <2>3, <2>4, LastPage
    <2> QED BY <2>5, <2>6
  <1> QED BY <1>1, <1>2, PTL

-----------------------------------------------------------------------------
(* The register: what is stored has a value, whatever has failed.          *)

LEMMA NewestExists ==
    ASSUME NEW C, C # {},
           \A c \in C : c.ts \in 0 .. TimestampMod - 1 /\ c.blk \in Blocks /\ c.page \in Starts
    PROVE  Newest(C) \in C
  <1>1. \A c \in C : /\ c.ts \in Int /\ c.blk \in Int /\ c.page \in Int /\ TimestampMod - c.ts \in Nat
                     /\ c.blk \in Nat /\ PagesPerBlk - c.page \in Nat
                     /\ TimestampMod \in Int /\ PagesPerBlk \in Int
    <2> TAKE c \in C
    <2>1. c.ts \in 0 .. TimestampMod - 1 /\ c.blk \in Blocks /\ c.page \in Starts
      OBVIOUS
    <2>2. c.ts \in Int /\ TimestampMod \in Int /\ TimestampMod - c.ts \in Nat
      BY <2>1, Sizes
    <2>3. c.blk \in Nat /\ c.blk \in Int
      <3>1. c.blk \in Nat
        BY <2>1, Sizes
      <3> QED BY <3>1
    <2>4. c.page \in Pages
      BY <2>1, Sizes
    <2>5. c.page \in Int /\ PagesPerBlk \in Int /\ PagesPerBlk - c.page \in Nat
      BY <2>4, Sizes DEF Pages
    <2> QED BY <2>2, <2>3, <2>5
  <1> DEFINE T == {TimestampMod - c.ts : c \in C}
  <1>2. PICK x \in C : \A d \in C : d.ts <= x.ts
    <2>1. T \subseteq Nat /\ T # {}
      BY <1>1
    <2>2. PICK t \in T : \A u \in T : t <= u
      BY <2>1, Least
    <2>3. PICK x \in C : t = TimestampMod - x.ts
      BY <2>2
    <2>4. \A d \in C : d.ts <= x.ts
      <3> TAKE d \in C
      <3>1. TimestampMod - x.ts <= TimestampMod - d.ts
        BY <2>2, <2>3
      <3> QED BY <3>1, <1>1
    <2> QED BY <2>4
  <1> DEFINE D == {c \in C : c.ts = x.ts}
             B == {c.blk : c \in D}
  <1>3. PICK y \in D : \A d \in D : y.blk <= d.blk
    <2>1. B \subseteq Nat /\ B # {}
      BY <1>1
    <2>2. PICK b \in B : \A u \in B : b <= u
      BY <2>1, Least
    <2> QED BY <2>2
  <1> DEFINE E == {c \in D : c.blk = y.blk}
             P == {PagesPerBlk - c.page : c \in E}
  <1>4. PICK z \in E : \A d \in E : d.page <= z.page
    <2>1. P \subseteq Nat /\ P # {}
      BY <1>1, <1>3
    <2>2. PICK p \in P : \A u \in P : p <= u
      BY <2>1, Least
    <2>3. PICK z \in E : p = PagesPerBlk - z.page
      BY <2>2
    <2>4. \A d \in E : d.page <= z.page
      <3> TAKE d \in E
      <3>1. PagesPerBlk - z.page <= PagesPerBlk - d.page
        BY <2>2, <2>3
      <3>2. z \in C /\ d \in C
        OBVIOUS
      <3> QED BY <3>1, <3>2, <1>1
    <2> QED BY <2>4
  <1>5. z \in C /\ \A d \in C : Newer(z, d)
    <2>1. z \in C /\ z.ts = x.ts /\ z.blk = y.blk
      BY <1>4
    <2> SUFFICES ASSUME NEW d \in C PROVE Newer(z, d)
      BY <2>1
    <2>2. d.ts <= z.ts
      BY <1>2, <2>1
    <2>3. d.ts = z.ts => z.blk <= d.blk
      BY <1>3, <2>1
    <2>4. d.ts = z.ts /\ d.blk = z.blk => d.page <= z.page
      BY <1>4, <2>1
    <2>5. /\ d.ts \in Int /\ d.blk \in Int /\ d.page \in Int
          /\ z.ts \in Int /\ z.blk \in Int /\ z.page \in Int
      BY <1>1, <2>1
    <2> QED BY <2>2, <2>3, <2>4, <2>5 DEF Newer
  <1> QED BY <1>5 DEF Newest

LEMMA StoredType ==
    ASSUME NEW fl, fl \in Chips
    PROVE  Stored(CopiesIn(fl)) \in Values \cup {None}
  <1> DEFINE C == CopiesIn(fl)
  <1>1. ASSUME NEW c \in C
        PROVE  /\ c.ts \in 0 .. TimestampMod - 1 /\ c.blk \in Blocks /\ c.page \in Starts
               /\ c.val \in Values \cup {None}
    <2>1. PICK d \in Blocks \X Starts : c = CopyIn(fl, d[1], d[2])
      BY DEF CopiesIn
    <2>2. d[1] \in Blocks /\ d[2] \in Starts /\ d[2] \in Pages
      BY Sizes
    <2>3. fl[d[1]][d[2]] \in Page
      BY <2>2 DEF Chips, BlockPages
    <2> QED BY <2>1, <2>2, <2>3, CopyFields DEF Page
  <1> HIDE DEF C
  <1>2. C # {} => Newest(C) \in C
    BY <1>1, NewestExists
  <1> QED BY <1>1, <1>2 DEF Stored, C

-----------------------------------------------------------------------------
(* What the steps do to the copies.                                        *)

\* The same complete copies, with the same first pages.
LEMMA SameCopies ==
    ASSUME NEW fl, NEW gl, Sorted(fl), Sorted(gl),
           \A b \in Blocks, s \in Starts : Holds(gl[b], s) <=> Holds(fl[b], s),
           \A b \in Blocks, s \in Starts : Holds(fl[b], s) => gl[b][s] = fl[b][s]
    PROVE  CopiesIn(gl) = CopiesIn(fl)
  <1>1. \A b \in Blocks, s \in Starts : WholeIn(fl[b], s) <=> Holds(fl[b], s)
    BY SortedBlock, WholeHolds
  <1>2. \A b \in Blocks, s \in Starts : WholeIn(gl[b], s) <=> Holds(gl[b], s)
    BY SortedBlock, WholeHolds
  <1>3. \A b \in Blocks, s \in Starts : Holds(fl[b], s) => CopyIn(gl, b, s) = CopyIn(fl, b, s)
    BY DEF CopyIn
  <1> DEFINE F == {d \in Blocks \X Starts : WholeIn(fl[d[1]], d[2])}
             G == {d \in Blocks \X Starts : WholeIn(gl[d[1]], d[2])}
  <1>4. \A d \in Blocks \X Starts : d[1] \in Blocks /\ d[2] \in Starts
    OBVIOUS
  <1>5. F = G
    BY <1>1, <1>2, <1>4
  <1>6. \A d \in F : CopyIn(gl, d[1], d[2]) = CopyIn(fl, d[1], d[2])
    BY <1>1, <1>3, <1>4
  <1>7. CopiesIn(fl) = {CopyIn(fl, c[1], c[2]) : c \in F}
    BY DEF CopiesIn
  <1>8. CopiesIn(gl) = {CopyIn(gl, c[1], c[2]) : c \in G}
    BY DEF CopiesIn
  <1> HIDE DEF F, G
  <1> QED BY <1>5, <1>6, <1>7, <1>8

\* A page of a save does not count until the last one, and then it counts for all.
LEMMA WriteStored ==
    ASSUME Settled, pc = "write", NEW page \in {Torn, Content}, Program(page)
    PROVE  \/ Stored(CopiesIn(flash')) = Stored(CopiesIn(flash)) /\ ~(page = Content /\ next = PageNum - 1)
           \/ Stored(CopiesIn(flash')) = job /\ page = Content /\ next = PageNum - 1
  <1> DEFINE c == mem.blk_addr
             s == mem.page_addr
             t == mem.timestamp
             f == flash[c]
             g == flash'[c]
  <1>1. /\ Sorted(flash) /\ Sorted(flash') /\ c \in Blocks /\ s \in Starts /\ Types
        /\ \A b \in Blocks : b # c /\ Dated(flash[b]) => Time(flash[b]) < t
        /\ t \in Int
    BY WriteLast, MemOK DEF Settled, Sound, LastInv, WriteInv
  <1>2. /\ next \in 0 .. PageNum - 1
        /\ \A b \in Blocks : b # c => flash'[b] = flash[b]
        /\ \A p \in Pages : g[p] = IF p = s + next THEN page ELSE f[p]
        /\ \A p \in Pages : g[p].st = "data" => g[p].ts = t
    BY WriteLast
  <1>3. /\ \A u \in Starts : u # s => (Holds(g, u) <=> Holds(f, u))
        /\ ~Holds(f, s)
        /\ Holds(g, s) <=> page = Content /\ next = PageNum - 1
    BY WriteLast DEF Current
  <1>4. /\ page = Content => \A j \in 0 .. next : g[s + j] = Wrote(job, j, t)
        /\ \A u \in Starts : s < u => ~Holds(g, u)
    BY WriteLast
  <1> HIDE DEF c, s, t, f, g
  <1>5. CASE ~(page = Content /\ next = PageNum - 1)
    <2>1. \A b \in Blocks, u \in Starts : Holds(flash'[b], u) <=> Holds(flash[b], u)
      <3> TAKE b \in Blocks, u \in Starts
      <3>1. CASE b = c
        BY <3>1, <1>3, <1>5 DEF f, g
      <3>2. CASE b # c
        BY <3>2, <1>2
      <3> QED BY <3>1, <3>2
    <2>2. ASSUME NEW b \in Blocks, NEW u \in Starts, Holds(flash[b], u)
          PROVE  flash'[b][u] = flash[b][u]
      <3>1. CASE b = c
        <4>1. u # s
          BY <3>1, <2>2, <1>3 DEF f
        <4>2. u # s + next /\ u \in Pages
          <5>1. u + 0 = u /\ 0 \in 0 .. PageNum - 1 /\ u \in Pages
            BY LastPage
          <5>2. u + 0 = s + next => u = s
            BY <5>1, <1>1, <1>2, OneCopy
          <5> QED BY <5>1, <5>2, <4>1
        <4> QED BY <4>2, <3>1, <1>2 DEF f, g
      <3>2. CASE b # c
        BY <3>2, <1>2
      <3> QED BY <3>1, <3>2
    <2>3. CopiesIn(flash') = CopiesIn(flash)
      BY <2>1, <2>2, <1>1, SameCopies
    <2> QED BY <2>3, <1>5
  <1>6. CASE page = Content /\ next = PageNum - 1
    <2>1. Holds(g, s) /\ LastCopy(g, s)
      BY <1>1, <1>3, <1>4, <1>6 DEF LastCopy
    <2>2. g[s] = Wrote(job, 0, t)
      <3>1. 0 \in 0 .. next /\ s + 0 = s
        BY <1>1, <1>2, LastPage
      <3> QED BY <3>1, <1>4, <1>6
    <2>3. Dated(g) /\ Time(g) = t
      <3>1. Dated(g)
        BY <2>1, <1>1, SortedBlock, HeldCopy DEF g
      <3> QED BY <3>1, <1>2, ZeroStart, Sizes DEF Dated, Time
    <2>4. Latest(flash', c)
      <3>1. \A b \in Blocks : Dated(flash'[b]) => Time(flash'[b]) <= t
        <4> SUFFICES ASSUME NEW b \in Blocks, Dated(flash'[b]) PROVE Time(flash'[b]) <= t
          OBVIOUS
        <4>1. CASE b = c
          BY <4>1, <2>3, <1>1 DEF g
        <4>2. CASE b # c
          <5>1. Time(flash[b]) < t /\ Time(flash[b]) \in Int /\ flash'[b] = flash[b]
            BY <4>2, <1>1, <1>2, TimeOK
          <5> QED BY <5>1, <1>1
        <4> QED BY <4>1, <4>2
      <3> QED BY <3>1, <2>1, <2>3, <1>1 DEF Latest, g
    <2>5. Stored(CopiesIn(flash')) = g[s].val
      BY <2>1, <2>4, <1>1, NewestIs DEF g
    <2> QED BY <2>2, <2>5, <1>6 DEF Wrote
  <1> QED BY <1>5, <1>6

\* An erase, done or cut short, takes nothing but what it is to replace: the block it
\* works on has no newest copy, unless it is the last one of meson_ext_rsv_info_erase.
LEMMA EraseStored ==
    ASSUME Settled, mem.valid /\ mem.abnormal => job = NoJob, NEW c \in Blocks, c \notin bad,
           \/ pc \in {"wipe", "free", "prepare"} /\ c = mem.blk_addr
           \/ pc = "erase" /\ c = mem.nfree[next],
           flash' \in Chips, \A b \in Blocks : b # c => flash'[b] = flash[b],
           flash'[c] \in {EmptyBlock, RuinedBlock}
    PROVE  \/ Stored(CopiesIn(flash')) = Stored(CopiesIn(flash))
              /\ (pc = "erase" => next # Len(mem.nfree))
           \/ pc = "erase" /\ next = Len(mem.nfree) /\ Stored(CopiesIn(flash')) = None
  <1>1. /\ Sound /\ Types /\ Sorted(flash) /\ flash' \in Chips /\ job \in Values \cup {None, NoJob}
        /\ \A b \in Blocks : flash'[b] = flash[b] \/ flash'[b] \in {EmptyBlock, RuinedBlock}
        /\ pc \in Working => job # NoJob
    BY RsvAssumption DEF Settled, Sound, Types, PcOK, LastInv
  <1>2. /\ Sorted(flash')
        /\ \A b \in Blocks : Dated(flash'[b]) => flash'[b] = flash[b] /\ Dated(flash[b])
        /\ \A b \in Blocks, s \in Starts : Holds(flash'[b], s) => flash'[b] = flash[b]
        /\ \A b \in Blocks : Latest(flash, b) /\ flash'[b] = flash[b]
             => Stored(CopiesIn(flash')) = Stored(CopiesIn(flash))
    BY <1>1, SortedErase
  <1>3. CASE pc = "wipe"
    <2>1. mem.valid /\ mem.blk_addr = c /\ job # NoJob
      BY <1>1, <1>3 DEF Sound, PcOK, Working
    <2>2. mem.abnormal
      BY <2>1, <1>3 DEF Settled, LastInv, SearchInv
    <2> QED BY <2>1, <2>2
  <1>4. CASE pc = "free"
    <2>1. \A s \in Starts : ~Holds(flash[c], s)
      BY <1>4 DEF Settled, LastInv, FoundInv, Current
    <2>2. \A s \in Starts : ~Holds(flash'[c], s)
      BY TidyBlocks
    <2>3. \A b \in Blocks, s \in Starts : Holds(flash'[b], s) <=> Holds(flash[b], s)
      BY <2>1, <2>2
    <2>4. \A b \in Blocks, s \in Starts : Holds(flash[b], s) => flash'[b][s] = flash[b][s]
      BY <2>1
    <2>5. CopiesIn(flash') = CopiesIn(flash)
      BY <2>3, <2>4, <1>1, <1>2, SameCopies
    <2> QED BY <2>5, <1>4
  <1>5. CASE pc = "prepare"
    <2>1. job # NoJob /\ c = mem.blk_addr
      BY <1>1, <1>5 DEF Working
    <2>2. CASE mem.valid
      <3>1. /\ mem.nfree \in Seq(Blocks) /\ c \notin Lists /\ Turn(flash, bad, FALSE, mem.nfree, mem.timestamp - 1)
        <4>1. mem.abnormal = FALSE
          BY <1>1, <2>1, <2>2, MemOK
        <4> QED BY <4>1, <1>1, <1>5, <2>1, <2>2, MemOK
                DEF Settled, ListsInv, Listing, LastInv, SearchInv
      <3>2. PICK i \in 1 .. Len(mem.nfree) : Latest(flash, mem.nfree[i])
        BY <3>1 DEF Turn
      <3>3. mem.nfree[i] \in Lists /\ mem.nfree[i] \in Blocks
        <4>1. DOMAIN mem.nfree = 1 .. Len(mem.nfree) /\ mem.nfree \in [1 .. Len(mem.nfree) -> Blocks]
          BY <3>1, LenProperties
        <4> QED BY <4>1 DEF Lists, Range
      <3>4. flash'[mem.nfree[i]] = flash[mem.nfree[i]]
        BY <3>1, <3>3
      <3> QED BY <3>2, <3>3, <3>4, <1>2, <1>5
    <2>3. CASE ~mem.valid
      <3>1. \A b \in Blocks : ~Dated(flash[b]) /\ ~Dated(flash'[b])
        BY <2>3, <1>2, <1>5 DEF Settled, LastInv, FoundInv
      <3>2. CopiesIn(flash) = {} /\ CopiesIn(flash') = {}
        BY <3>1, <1>1, <1>2, NothingIn
      <3> QED BY <3>2, <1>5
    <2> QED BY <2>2, <2>3
  <1>6. CASE pc = "erase"
    <2> DEFINE s == mem.nfree
               n == Len(s)
    <2>1. /\ next \in 1 .. n /\ n \in Nat /\ s \in Seq(Blocks) /\ c = s[next] /\ Unlike(s)
          /\ \A b \in Blocks : HasHeader(b) => \E i \in next .. n : s[i] = b
          /\ Latest(flash, s[n])
      BY <1>1, <1>6, MemOK DEF Settled, Sound, PcOK, ListsInv, Listing, LastInv, FoundInv
    <2>2. CASE next # n
      <3>1. DOMAIN s = 1 .. n /\ s[n] \in Blocks /\ n \in 1 .. n
        <4>1. DOMAIN s = 1 .. n /\ s \in [1 .. n -> Blocks] /\ n \in 1 .. n
          BY <2>1, LenProperties
        <4> QED BY <4>1
      <3>2. s[n] # c
        BY <2>1, <2>2, <3>1 DEF Unlike
      <3> QED BY <2>1, <2>2, <3>1, <3>2, <1>2
    <2>3. CASE next = n
      <3>1. \A b \in Blocks : ~Dated(flash'[b])
        <4> SUFFICES ASSUME NEW b \in Blocks, Dated(flash'[b]) PROVE FALSE
          OBVIOUS
        <4>1. Dated(flash[b]) /\ flash'[b] = flash[b] /\ b # c
          BY <1>2, TidyBlocks
        <4>2. HasHeader(b)
          BY <4>1, <1>1, SortedBlock, HeaderFirst, ZeroStart DEF HasHeader
        <4>3. next .. n = {next}
          BY <2>1, <2>3
        <4> QED BY <4>1, <4>2, <4>3, <2>1
      <3>2. Stored(CopiesIn(flash')) = None
        BY <3>1, <1>2, NothingIn
      <3> QED BY <3>2, <2>3, <1>6
    <2> QED BY <2>2, <2>3
  <1> QED BY <1>3, <1>4, <1>5, <1>6

\* What is being saved, and when nothing is.
JobOK == /\ pc \in {"off", "scan", "select", "free", "idle"} => job = NoJob
         /\ pc = "erase" => job = None

LEMMA JobStep ==
    ASSUME JobOK, Sound, [Next]_vars
    PROVE  JobOK'
  <1>1. CASE PowerUp \/ scan_block \/ select_copy \/ meson_rsv_free \/ meson_rsv_read
    BY <1>1 DEF PowerUp, scan_block, select_copy, meson_rsv_free, meson_rsv_read, JobOK
  <1>2. CASE search_same \/ search_next \/ search_first \/ wipe \/ prepare
    BY <1>2 DEF search_same, search_next, search_first, wipe, prepare, MoveToNextBlock, Return, JobOK
  <1>3. CASE write \/ write_fails \/ erase_block
    BY <1>3 DEF write, write_fails, erase_block, Return, JobOK
  <1>4. CASE \E v \in Values : meson_rsv_save(v)
    BY <1>4 DEF meson_rsv_save, JobOK
  <1>5. CASE meson_rsv_erase
    <2>1. pc = "idle"
      BY <1>5 DEF meson_rsv_erase
    <2> QED BY <2>1, <1>5, EraseCases DEF JobOK
  <1>6. CASE PowerCut \/ UNCHANGED vars
    BY <1>6 DEF PowerCut, vars, JobOK
  <1> QED BY <1>1, <1>2, <1>3, <1>4, <1>5, <1>6 DEF Next, Driver

-----------------------------------------------------------------------------
(* A region implements the register.                                       *)

LEMMA RegInit == HInit => Reg!Init
  <1> SUFFICES ASSUME HInit PROVE Reg!Init
    OBVIOUS
  <1>1. Init /\ stored = Stored(Copies)
    BY DEF HInit
  <1>2. Sorted(flash) /\ \A b \in Blocks : flash[b] = EmptyBlock
    BY <1>1, LastInit DEF LastInv, Init
  <1>3. Copies = {} /\ Stored(Copies) = None
    BY <1>2, TidyBlocks, NothingIn, CopiesNow
  <1>4. job = NoJob /\ ret = "none" /\ mem = NothingKnown /\ fails = 0
    BY <1>1 DEF Init
  <1>5. Damaged = FALSE
    BY <1>4 DEF Damaged
  <1> QED BY <1>1, <1>3, <1>4, <1>5 DEF Reg!Init

\* Without damage every step is one of the register's, or leaves it alone.
LEMMA RegSound ==
    ASSUME Settled, Enough, JobOK, [Next]_vars, stored = Stored(CopiesIn(flash)),
           stored' = Stored(CopiesIn(flash')), Damaged' \in BOOLEAN,
           mem.valid /\ mem.abnormal => job = NoJob
    PROVE  Reg!Next
  <1>1. /\ Sound /\ Types /\ Sorted(flash) /\ job \in Values \cup {None, NoJob} /\ NoJob \notin Values \cup {None}
        /\ pc \in Working => job \in Values
    BY RsvAssumption DEF Settled, Sound, Types, PcOK, LastInv
  <1>2. ASSUME stored' = stored, job' = job, ret' = ret PROVE Reg!Next
    BY <1>2 DEF Reg!Next, Reg!Wear
  <1>3. flash' = flash => stored' = stored
    OBVIOUS
  <1>4. CASE PowerUp \/ scan_block \/ select_copy \/ search_same \/ search_first \/ meson_rsv_read
    BY <1>2, <1>3, <1>4 DEF PowerUp, scan_block, select_copy, search_same, search_first, meson_rsv_read
  <1>5. ASSUME pc \in {"search", "wipe"}, mem.valid, NEW m, m.nfree = mem.nfree, MoveToNextBlock(m)
        PROVE  job' = job /\ ret' = ret
    <2>1. NodeLeft(mem.nfree)
      BY <1>5, ListRoom DEF Settled, Listing, Enough
    <2> QED BY <2>1, <1>5 DEF MoveToNextBlock
  <1>6. CASE search_next
    <2> DEFINE m == AtPage(mem, mem.page_addr + PageNum)
    <2>1. /\ mem \in Mem /\ flash' = flash /\ pc = "search" /\ mem.valid
          /\ MoveToNextBlock(m) \/ UNCHANGED <<job, ret>>
      BY <1>1, <1>6 DEF search_next, AtPage, Types
    <2>2. m.nfree = mem.nfree
      BY <2>1, ChosenKeeps
    <2> HIDE DEF m
    <2>3. job' = job /\ ret' = ret
      BY <2>1, <2>2, <1>5
    <2> QED BY <2>1, <2>3, <1>2, <1>3
  <1>7. CASE \E v \in Values : meson_rsv_save(v)
    <2>1. PICK v \in Values : meson_rsv_save(v)
      BY <1>7
    <2>2. job = NoJob /\ job' = v /\ ret' = ret /\ flash' = flash
      BY <2>1 DEF meson_rsv_save, JobOK
    <2>3. Reg!Call(v) /\ v \in Reg!Contents
      BY <2>2, <1>3 DEF Reg!Call, Reg!Contents
    <2> QED BY <2>3 DEF Reg!Next
  <1>8. CASE meson_rsv_erase
    <2>1. pc = "idle" /\ flash' = flash /\ job = NoJob
      BY <1>8 DEF meson_rsv_erase, JobOK
    <2>2. NodeLeft(mem.nfree)
      BY <1>8, ListRoom DEF meson_rsv_erase, Settled, Listing, Enough
    <2>3. job' = None /\ ret' = ret
      BY <2>2, <1>1, <1>8, EraseCases
    <2>4. Reg!Call(None) /\ None \in Reg!Contents
      BY <2>1, <2>3, <1>3 DEF Reg!Call, Reg!Contents
    <2> QED BY <2>4 DEF Reg!Next
  \* The erases.
  <1>9. ASSUME pc \in {"wipe", "free", "prepare", "erase"}, NEW c \in Blocks,
               \/ pc \in {"wipe", "free", "prepare"} /\ c = mem.blk_addr
               \/ pc = "erase" /\ c = mem.nfree[next],
               flash' = ErasedFlash(c)
        PROVE  \/ stored' = stored /\ (pc = "erase" => next # Len(mem.nfree))
               \/ pc = "erase" /\ next = Len(mem.nfree) /\ stored' = None
    <2>1. CASE c \in bad
      <3>1. flash' = flash
        BY <2>1, <1>9 DEF ErasedFlash
      <3>2. pc # "erase"
        BY <2>1 DEF Settled, ListsInv, Listing
      <3> QED BY <3>1, <3>2, <1>3
    <2>2. CASE c \notin bad
      <3>1. /\ flash' \in Chips /\ \A b \in Blocks : b # c => flash'[b] = flash[b]
            /\ flash'[c] \in {EmptyBlock, RuinedBlock}
        BY <2>2, <1>1, <1>9, ErasedSorted
      <3> QED BY <3>1, <2>2, <1>9, EraseStored
    <2> QED BY <2>1, <2>2
  <1>10. pc \in {"wipe", "free", "prepare"} => mem.blk_addr \in Blocks
    BY <1>1 DEF Sound, PcOK
  <1>11. pc = "erase" => mem.nfree[next] \in Blocks
    <2>1. ASSUME pc = "erase" PROVE mem.nfree[next] \in Blocks
      <3>1. mem.nfree \in Seq(Blocks) /\ next \in 1 .. Len(mem.nfree)
        BY <2>1, <1>1, MemOK DEF Sound, PcOK
      <3> QED BY <3>1, LenProperties
    <2> QED BY <2>1
  <1>12. CASE meson_rsv_free
    <2>1. pc = "free" /\ flash' = ErasedFlash(mem.blk_addr) /\ job' = job /\ ret' = ret
      BY <1>12 DEF meson_rsv_free
    <2> QED BY <2>1, <1>2, <1>9, <1>10
  <1>13. CASE wipe
    <2>1. pc = "wipe" /\ flash' = ErasedFlash(mem.blk_addr) /\ MoveToNextBlock(mem) /\ mem.valid
      BY <1>1, <1>13 DEF wipe, Sound, PcOK
    <2>2. job' = job /\ ret' = ret
      BY <2>1, <1>5
    <2>3. stored' = stored
      BY <2>1, <1>9, <1>10
    <2> QED BY <2>2, <2>3, <1>2
  <1>14. CASE prepare
    <2>1. pc = "prepare" /\ (flash' = flash \/ flash' = ErasedFlash(mem.blk_addr)) /\ job' = job /\ ret' = ret
      BY <1>14 DEF prepare
    <2> QED BY <2>1, <1>2, <1>3, <1>9, <1>10
  <1>15. CASE erase_block
    <2>1. /\ pc = "erase" /\ flash' = ErasedFlash(mem.nfree[next]) /\ job = None
          /\ \/ next = Len(mem.nfree) /\ job' = NoJob /\ ret' = "ok"
             \/ next # Len(mem.nfree) /\ job' = job /\ ret' = ret
      BY <1>15 DEF erase_block, Return, JobOK
    <2>2. \/ stored' = stored /\ next # Len(mem.nfree)
          \/ next = Len(mem.nfree) /\ stored' = None
      BY <2>1, <1>9, <1>11
    <2>3. CASE next = Len(mem.nfree)
      <3>1. Reg!Returns
        BY <2>1, <2>2, <2>3, <1>1 DEF Reg!Returns
      <3> QED BY <3>1 DEF Reg!Next
    <2>4. CASE next # Len(mem.nfree)
      BY <2>1, <2>2, <2>4, <1>2
    <2> QED BY <2>3, <2>4
  \* The pages of a save.
  <1>16. CASE write
    <2>1. /\ pc = "write" /\ Program(Content) /\ job \in Values /\ Content \in {Torn, Content}
          /\ \/ next = PageNum - 1 /\ job' = NoJob /\ ret' = "ok"
             \/ next # PageNum - 1 /\ job' = job /\ ret' = ret
      BY <1>1, <1>16 DEF write, Return, Working
    <2>2. \/ stored' = stored /\ next # PageNum - 1
          \/ stored' = job /\ next = PageNum - 1
      BY <2>1, WriteStored
    <2>3. CASE next = PageNum - 1
      <3>1. Reg!Returns
        BY <2>1, <2>2, <2>3, <1>1 DEF Reg!Returns
      <3> QED BY <3>1 DEF Reg!Next
    <2>4. CASE next # PageNum - 1
      BY <2>1, <2>2, <2>4, <1>2
    <2> QED BY <2>3, <2>4
  <1>17. CASE write_fails
    <2>1. /\ pc = "write" /\ Program(Torn) /\ job \in Values /\ Torn \in {Torn, Content}
          /\ job' = NoJob /\ ret' = "fail" /\ Torn # Content
      BY <1>1, <1>17, BlockTypes DEF write_fails, Return, Working, Content
    <2>2. stored' = stored
      BY <2>1, WriteStored
    <2>3. Reg!Returns
      BY <2>1, <2>2, <1>1 DEF Reg!Returns
    <2> QED BY <2>3 DEF Reg!Next
  <1>18. CASE PowerCut
    <2>1. job' = NoJob /\ ret' = "none"
      BY <1>18 DEF PowerCut
    <2>2. stored' = stored \/ (stored' = job /\ job # NoJob)
      <3>1. CASE UNCHANGED flash
        BY <3>1, <1>3
      <3>2. CASE \E b \in Erasing, result \in {EmptyBlock, RuinedBlock} :
                   flash' = [flash EXCEPT ![b] = result]
        <4>1. PICK c \in Erasing, result \in {EmptyBlock, RuinedBlock} :
                     flash' = [flash EXCEPT ![c] = result]
          BY <3>2
        <4>2. /\ c \notin bad /\ c \in Blocks
              /\ \/ pc \in {"wipe", "free", "prepare"} /\ c = mem.blk_addr
                 \/ pc = "erase" /\ c = mem.nfree[next]
          BY <4>1, <1>10, <1>11 DEF Erasing
        <4>3. /\ flash' \in Chips /\ flash'[c] \in {EmptyBlock, RuinedBlock}
              /\ \A b \in Blocks : b # c => flash'[b] = flash[b]
          BY <4>1, <4>2, <1>1, BlockTypes DEF Types, Chips, BlockPages
        <4>4. \/ stored' = stored
              \/ pc = "erase" /\ stored' = None
          BY <4>2, <4>3, EraseStored
        <4> QED BY <4>4, <1>1 DEF JobOK
      <3>3. CASE pc = "write" /\ \E page \in {Torn, Content} : Program(page)
        <4>1. stored' = stored \/ stored' = job
          BY <3>3, WriteStored
        <4> QED BY <4>1, <3>3, <1>1 DEF Working
      <3> QED BY <3>1, <3>2, <3>3, <1>18 DEF PowerCut
    <2>3. Reg!Interrupted
      BY <2>1, <2>2 DEF Reg!Interrupted
    <2> QED BY <2>3 DEF Reg!Next
  <1>19. CASE UNCHANGED vars
    BY <1>2, <1>3, <1>19 DEF vars
  <1> QED BY <1>4, <1>6, <1>7, <1>8, <1>12, <1>13, <1>14, <1>15, <1>16, <1>17, <1>18, <1>19
          DEF Next, Driver

\* The rest of the step, whatever has failed before.
LEMMA RegBroken ==
    ASSUME Sound, Sound', JobOK, [Next]_vars, Damaged, Damaged' \in BOOLEAN,
           stored = Stored(CopiesIn(flash)), stored' = Stored(CopiesIn(flash'))
    PROVE  Reg!Next
  <1>1. stored' \in Reg!Contents /\ ret' \in {"none", "ok", "fail"}
    <2>1. flash' \in Chips /\ ret' \in {"none", "ok", "fail"}
      BY DEF Sound, Types, Chips, BlockPages
    <2> QED BY <2>1, StoredType DEF Reg!Contents
  <1>2. ASSUME job' \in {job, NoJob} PROVE Reg!Next
    BY <1>1, <1>2 DEF Reg!Next, Reg!Loses
  <1>3. CASE \E v \in Values : meson_rsv_save(v)
    <2>1. PICK v \in Values : meson_rsv_save(v)
      BY <1>3
    <2>2. job = NoJob /\ job' = v /\ ret' = ret /\ flash' = flash
      BY <2>1 DEF meson_rsv_save, JobOK
    <2>3. Reg!Call(v) /\ v \in Reg!Contents
      BY <2>2 DEF Reg!Call, Reg!Contents
    <2> QED BY <2>3 DEF Reg!Next
  <1>4. CASE meson_rsv_erase
    <2>1. pc = "idle" /\ flash' = flash /\ job = NoJob
      BY <1>4 DEF meson_rsv_erase, JobOK
    <2>2. job' = job \/ (job' = None /\ ret' = ret)
      BY <1>4, EraseCases
    <2>3. CASE job' = None /\ ret' = ret
      <3>1. Reg!Call(None) /\ None \in Reg!Contents
        BY <2>1, <2>3 DEF Reg!Call, Reg!Contents
      <3> QED BY <3>1 DEF Reg!Next
    <2> QED BY <2>2, <2>3, <1>2
  <1>5. CASE \/ PowerUp \/ scan_block \/ select_copy \/ meson_rsv_free \/ meson_rsv_read
             \/ search_same \/ search_next \/ search_first \/ wipe \/ prepare
             \/ write \/ write_fails \/ erase_block \/ PowerCut \/ UNCHANGED vars
    <2>1. job' \in {job, NoJob}
      BY <1>5 DEF PowerUp, scan_block, select_copy, meson_rsv_free, meson_rsv_read, search_same,
                  search_next, search_first, wipe, prepare, write, write_fails, erase_block,
                  MoveToNextBlock, Return, PowerCut, vars
    <2> QED BY <2>1, <1>2
  <1> QED BY <1>3, <1>4, <1>5 DEF Next, Driver

\* A region of the reserved area is a register: a save or an erase replaces its content
\* in one step between the call and a return without error, and a power cut leaves the
\* old content or the new one, never an older one and never none.  The exceptions are a
\* page that failed to program, and a save into a region whose valid block shows the
\* traces of one that was cut short, which erases that block first (meson_rsv_scan,
\* meson_rsv_save, meson_rsv_write, meson_ext_rsv_info_erase).
THEOREM NandRsvActsAsRegister ==
    ASSUME NodeCount >= NBlocks, NBlocks >= MaxCuts + MaxBad + 2,
           MaxTimestamp + NBlocks <= TimestampMod
    PROVE  HSpec => ActsAsRegister
  <1> DEFINE Inv == NandInv /\ (fails = 0 => LastInv)
  <1>1. Enough
    BY DEF Enough
  <1>2. Spec => []Inv
    BY <1>1, LastInvariant
  <1>3. ASSUME Inv, Inv', JobOK, HistInv, HistInv', [Next]_vars
        PROVE  [Reg!Next]_Reg!vars
    <2>1. /\ Sound /\ Sound' /\ stored = Stored(CopiesIn(flash)) /\ stored' = Stored(CopiesIn(flash'))
      <3>1. Stored(Copies)' = Stored(CopiesIn(flash'))
        BY CopiesNow DEF Stored
      <3> QED BY <3>1, <1>3, CopiesNow DEF HistInv, NandInv
    <2>2. Damaged' \in BOOLEAN
      BY DEF Damaged
    <2>3. CASE Damaged
      BY <2>1, <2>2, <2>3, <1>3, RegBroken
    <2>4. CASE ~Damaged
      <3>1. fails = 0 /\ (mem.valid /\ mem.abnormal => job = NoJob)
        <4>1. ~(fails > 0) /\ (mem.valid /\ mem.abnormal => job = NoJob)
          BY <2>4 DEF Damaged
        <4> QED BY <4>1, <2>1 DEF Sound, Types
      <3>2. Settled
        BY <3>1, <1>3 DEF NandInv, Settled
      <3> QED BY <3>1, <3>2, <2>1, <2>2, <1>1, <1>3, RegSound
    <2> QED BY <2>3, <2>4
  <1>4. HSpec => []JobOK
    <2>1. Init => JobOK
      BY DEF Init, JobOK
    <2>2. ASSUME JobOK, Inv, [Next]_vars PROVE JobOK'
      BY <2>2, JobStep DEF NandInv
    <2> QED BY <2>1, <2>2, <1>2, HistInvariant, PTL DEF Spec
  <1>5. HInit => Reg!Init
    BY RegInit
  <1>6. [HNext]_<<vars, stored>> /\ HistInv => [Next]_vars
    BY HistStep
  <1> HIDE DEF Inv
  <1> QED BY <1>2, <1>3, <1>4, <1>5, <1>6, HistInvariant, PTL DEF HSpec, ActsAsRegister, Reg!Spec
=============================================================================
