----------------------------- MODULE SwapCache -----------------------------
(* The memory cache of TADS 2 (tads2/mcm.c) and its swap file              *)
(* (tads2/mcs.c).  Objects live in a few chunks of memory; an object that  *)
(* is not locked may be moved, or thrown out to the swap file, whenever an *)
(* allocation needs room, and comes back with mcmlck.                      *)
(*                                                                         *)
(* The client runs in one thread.  A call that allocates - mcmalo0,        *)
(* mcmload, mcmrealo - takes several steps: it tries, collects garbage,    *)
(* tries, swaps objects out one by one, and so on; every other call is one *)
(* step.  Memory and file are sequences of cells, a cell being what was    *)
(* written there, so that a cell that moved to the wrong place is seen.    *)
(* An object keeps its cache entry as long as it exists, and entries do    *)
(* not run out; the entries of free blocks are left out.                   *)
EXTENDS Integers, Sequences, SequencesExt, FiniteSets, FiniteSetsExt

CONSTANTS
  Object,     \* client object numbers
  Static,     \* the objects of the load file
  Size,       \* sizes the client makes an object with
  NewSize,    \* sizes it gives mcmrealo
  Hdr,        \* size of a block's header, osrndsz(sizeof(mcmon))
  Split,      \* MCMSPLIT: the least rest worth a block of its own
  Chunk,      \* MCMCHUNK: size of a chunk, with the first block's header
  FirstChunk, \* what the control structures leave of the first one
  Chunks,     \* chunks that mcmcxmax allows beside the first
  Quota,      \* the swap file may have as many cells
  MaxLock,    \* bound on the locks of an object
  Versions,   \* bound: the contents of an object are told apart modulo this
  FreeAbsent, \* the program frees objects that are not in memory, too
  Free, End,  \* owners of a free block and of the end mark of a chunk
  Junk        \* content of a cell nobody wrote

ASSUME CacheAssumption ==
  /\ Static \subseteq Object
  /\ {Hdr, Split, Chunk, FirstChunk, Chunks, Quota} \subseteq Nat
  /\ Hdr <= FirstChunk /\ FirstChunk <= Chunk
  /\ Hdr <= Split /\ MaxLock \in [Object -> Nat \ {0}] /\ Versions \in [Object -> 1..3]
  /\ {Size, NewSize} \subseteq [Object -> SUBSET (1..(Chunk - Hdr))]
  /\ {Free, End} \cap Object = {} /\ Free # End /\ FreeAbsent \in BOOLEAN

NoSeg == 0          \* MCSSEGINV; segments are counted from 1 here
LoadHandle == -1    \* what mcmoldh holds, in the place of the segment
Flag == {"dirty", "nodisc", "pres", "revrt"}

VARIABLES
  heap,     \* the blocks of all chunks by address: owner and cells
  chunks,   \* mcmcxmax, in chunks
  mapped,   \* client numbers in use
  flags, locks, siz, loc,       \* mcmoflg, mcmolcnt, mcmosiz, mcmoloc
  lru,      \* the LRU list, least recently used first
  seg,      \* the segment descriptors in use, mcscxmsg being its length
  file,     \* the cells of the swap file
  top, max, \* mcscxtop and mcscxmax
  call,     \* the call that is allocating
  kept      \* what the client last wrote into each object

cacheVars == <<heap, chunks, mapped, flags, locks, siz, lru>>
swapVars == <<seg, file, top, max, loc>>
vars == <<cacheVars, swapVars, call, kept>>

Idle == [op |-> "idle", obj |-> Free, need |-> 0, stage |-> "idle", tot |-> 0,
         size |-> 0, mine |-> FALSE]

Value == {Junk} \cup {<<o, v>> : o \in Object, v \in 0..2}
Fill(v, n) == [k \in 1..n |-> v]
Original(o, n) == Fill(<<o, 0>>, n)
Cells(d, n) == [k \in 1..n |-> IF k <= Len(d) THEN d[k] ELSE Junk]

Block(own, d) == [own |-> own, data |-> d]
FreeBlock(n) == Block(Free, Fill(Junk, n))
At(h, o) == CHOOSE i \in DOMAIN h : h[i].own = o
Room(b) == Len(b.data) + Hdr
\* What the first blocks take, block by block, and what blocks i to j take.
Upto(h) ==
  LET sum[k \in 0 .. Len(h)] == IF k = 0 THEN 0 ELSE sum[k - 1] + Room(h[k]) IN sum
Extent(h, i, j) == Upto(h)[j] - Upto(h)[i - 1]
\* Where an object is, counted from the end: a new chunk comes before the others.
Place(h, o) == Extent(h, At(h, o), Len(h))

Init ==
  /\ heap = <<FreeBlock(FirstChunk - Hdr), Block(End, <<>>)>>
  /\ chunks = Chunks
  /\ mapped = {}
  /\ flags = [o \in Object |-> {}]
  /\ locks = [o \in Object |-> 0]
  /\ siz = [o \in Object |-> 0]
  /\ loc = [o \in Object |-> NoSeg]
  /\ lru = <<>>
  /\ seg = <<>> /\ file = Fill(Junk, Quota) /\ top = 0 /\ max = Quota
  /\ call = Idle
  /\ kept = [o \in Object |-> <<>>]

Present(o) == "pres" \in flags[o]

\* mcmunl: the object is taken off the LRU list, if it is on it.
Unlink(l, o) ==
  IF o \in Range(l) THEN RemoveAt(l, CHOOSE i \in DOMAIN l : l[i] = o) ELSE l

\* mcmuse: the object becomes the most recently used.
Use(l, o) == Append(Unlink(l, o), o)

-----------------------------------------------------------------------------
(* Blocks.                                                                 *)

\* The rest of block i beyond n becomes a free block, if it is worth one.
SplitAt(h, i, n) ==
  IF Len(h[i].data) < n + Split THEN h
  ELSE SubSeq(h, 1, i - 1)
       \o <<Block(h[i].own, Cells(h[i].data, n)),
            FreeBlock(Len(h[i].data) - n - Hdr)>>
       \o SubSeq(h, i + 1, Len(h))

\* The free blocks mcmffb may choose; between equals the order of the free
\* list decides, which is left open.
Fits(n) ==
  LET big == {i \in DOMAIN heap : heap[i].own = Free /\ Len(heap[i].data) >= n}
  IN {i \in big : \A j \in big : Len(heap[i].data) <= Len(heap[j].data)}

\* mcmgarb comes to block b: within the blocks between two that stop it free
\* space bubbles up, swallowing the free blocks it meets.  The walk holds the
\* free block it is moving up (hole, <<>> for none) and the blocks it has passed.
Bubble(w, b, stop) ==
  CASE b.own = Free ->
         [done |-> w.done \o w.passed, passed |-> <<>>,
          hole |-> <<FreeBlock(Len(b.data) +
                               (IF w.hole = <<>> THEN 0 ELSE Room(w.hole[1])))>>]
    [] b.own \in stop ->
         [done |-> w.done \o w.hole \o w.passed \o <<b>>, passed |-> <<>>, hole |-> <<>>]
    [] OTHER -> [w EXCEPT !.passed = Append(@, b)]

Bubbled(h, stop) ==
  LET walk[k \in 0 .. Len(h)] ==
        IF k = 0 THEN [done |-> <<>>, hole |-> <<>>, passed |-> <<>>]
        ELSE Bubble(walk[k - 1], h[k], stop)
  IN walk

\* mutant of Stops: mcmgarb moves locked blocks as well.
StopsAtEnd == {End}

\* Locked blocks stay, and the end mark of a chunk.
Stops == {End} \cup {o \in Object : locks[o] > 0}
Garb == Bubbled(heap, Stops)[Len(heap)].done

-----------------------------------------------------------------------------
(* The swap file.  These operators work on the swapper's state as a record *)
(* of the variables swapVars.                                              *)
Swapper == [seg |-> seg, file |-> file, top |-> top, max |-> max, loc |-> loc]
SwapperBecomes(s) ==
  /\ seg' = s.seg /\ file' = s.file /\ top' = s.top /\ max' = s.max
  /\ loc' = s.loc

ReadFile(f, ptr, n) == [k \in 1..n |-> f[ptr + k]]
WriteFile(f, ptr, d) ==
  [k \in DOMAIN f |-> IF k \in (ptr + 1)..(ptr + Len(d)) THEN d[k - ptr] ELSE f[k]]

\* mutant of Renumber: mcmcswf does not look whether the handle is the old one.
RenumberAlways(l, o, old, new) ==
  IF flags[o] \cap {"dirty", "nodisc"} # {} \/ Present(o)
  THEN [l EXCEPT ![o] = new] ELSE l

\* mcmcswf: an object's swap handle changes from old to new.
Renumber(l, o, old, new) ==
  IF \/ flags[o] \cap {"dirty", "nodisc"} # {} /\ l[o] = old
     \/ Present(o)
  THEN [l EXCEPT ![o] = new] ELSE l

\* mcscompact comes to segment i: if it is in use it moves down to close the
\* holes before it, otherwise it is dropped.
Move(s, w, i) ==
  LET d == s.seg[i]
      new == Len(w.out) + 1
  IN IF d.use
     THEN [out |-> Append(w.out, [d EXCEPT !.ptr = w.pos, !.siz = d.osz]),
           file |-> WriteFile(w.file, w.pos, ReadFile(w.file, d.ptr, d.osz)),
           pos |-> w.pos + d.osz,
           loc |-> IF new = i THEN w.loc ELSE Renumber(w.loc, d.obj, i, new)]
     ELSE [w EXCEPT !.loc = Renumber(@, d.obj, i, NoSeg)]

Moved(s) ==
  LET walk[i \in 0 .. Len(s.seg)] ==
        IF i = 0 THEN [out |-> <<>>, file |-> s.file, pos |-> 0, loc |-> s.loc]
        ELSE Move(s, walk[i - 1], i)
  IN walk

\* mutant of Compact: segments are moved without what is in them.
CompactNoCopy(s) ==
  LET end == Moved(s)[Len(s.seg)]
  IN [seg |-> end.out, file |-> s.file, top |-> end.pos,
      max |-> s.max + s.top - end.pos, loc |-> end.loc]

\* mcscompact
Compact(s) ==
  LET end == Moved(s)[Len(s.seg)]
  IN [seg |-> end.out, file |-> end.file, top |-> end.pos,
      max |-> s.max + s.top - end.pos, loc |-> end.loc]

\* mcsout, when every write succeeds: the swapper after the object is out.
\* An object that has a copy of itself in a segment nobody took since, and
\* is not dirty, need not be written; the smallest free segment that is big
\* enough is next; then a new one, for which the file is compacted when the
\* quota is used up.
SwapOut(s, o, d, old, dirty) ==
  LET n == Len(d)
      free == {i \in DOMAIN s.seg : ~s.seg[i].use /\ s.seg[i].siz >= n}
      best == {i \in free : \A j \in free : s.seg[i].siz <= s.seg[j].siz}
      c == IF n > s.max THEN Compact(s) ELSE s
  IN IF old # NoSeg /\ old \in free /\ s.seg[old].obj = o /\ ~dirty
     THEN [s EXCEPT !.seg[old].use = TRUE, !.loc[o] = old]
     ELSE IF best # {}
     THEN LET i == Min(best)
          IN [s EXCEPT !.seg[i] = [@ EXCEPT !.use = TRUE, !.obj = o, !.osz = n],
                       !.file = WriteFile(@, s.seg[i].ptr, d), !.loc[o] = i]
     ELSE IF n > c.max THEN [c EXCEPT !.loc[o] = NoSeg]
     ELSE [c EXCEPT !.seg = Append(@, [ptr |-> c.top, siz |-> n, osz |-> n,
                                       obj |-> o, use |-> TRUE]),
                    !.file = WriteFile(@, c.top, d),
                    !.top = @ + n, !.max = @ - n, !.loc[o] = Len(c.seg) + 1]

-----------------------------------------------------------------------------
(* What the client does between two allocations.                           *)
Ready == call = Idle

\* mcmrsrv: the object will be loaded from the load file when it is needed.
Reserve(o, n) ==
  /\ Ready /\ o \in Static \ mapped
  /\ mapped' = mapped \cup {o}
  /\ flags' = [flags EXCEPT ![o] = {}]
  /\ siz' = [siz EXCEPT ![o] = n]
  /\ loc' = [loc EXCEPT ![o] = LoadHandle]
  /\ kept' = [kept EXCEPT ![o] = Original(o, n)]
  /\ UNCHANGED <<heap, chunks, locks, lru, seg, file, top, max, call>>

\* mcmalo, mcmalonum: mcmalo0 starts.
Allocate(o, n) ==
  /\ Ready /\ o \notin mapped \cup Static
  /\ call' = [Idle EXCEPT !.op = "malo", !.obj = o, !.need = n, !.stage = "first"]
  /\ UNCHANGED <<cacheVars, swapVars, kept>>

\* mcmlck of an object in memory.
Lock(o) ==
  /\ Ready /\ o \in mapped /\ Present(o) /\ locks[o] < MaxLock[o]
  /\ locks' = [locks EXCEPT ![o] = @ + 1]
  /\ UNCHANGED <<heap, chunks, mapped, flags, siz, lru, swapVars, call, kept>>

\* mcmlck of an object that is not in memory: mcmload starts.
Load(o) ==
  /\ Ready /\ o \in mapped /\ ~Present(o)
  /\ call' = [Idle EXCEPT !.op = "load", !.obj = o, !.need = siz[o], !.stage = "first"]
  /\ UNCHANGED <<cacheVars, swapVars, kept>>

\* mcmunlck
Unlock(o) ==
  /\ Ready /\ o \in mapped /\ locks[o] > 0
  /\ locks' = [locks EXCEPT ![o] = @ - 1]
  /\ lru' = IF locks[o] = 1 THEN Use(lru, o) ELSE lru
  /\ UNCHANGED <<heap, chunks, mapped, flags, siz, swapVars, call, kept>>

\* The client writes into an object it has locked, and calls mcmtch.
Modify(o) ==
  /\ Ready /\ o \in mapped /\ locks[o] > 0
  /\ LET version == IF kept[o] = <<>> THEN 0 ELSE (kept[o][1][2] + 1) % Versions[o]
         new == Fill(<<o, version>>, siz[o])
     IN /\ heap' = [heap EXCEPT ![At(heap, o)].data = new]
        /\ kept' = [kept EXCEPT ![o] = new]
  /\ flags' = [flags EXCEPT ![o] = @ \cup {"dirty"}]
  /\ UNCHANGED <<chunks, mapped, locks, siz, lru, swapVars, call>>

\* mcmrealo of an object in memory, which it locks if nobody has.
Reallocate(o, n) ==
  /\ Ready /\ o \in mapped /\ Present(o)
  /\ locks' = [locks EXCEPT ![o] = IF @ = 0 THEN 1 ELSE @]
  /\ call' = [Idle EXCEPT !.op = "realo", !.obj = o, !.need = n, !.stage = "resize",
                          !.mine = (locks[o] = 0)]
  /\ UNCHANGED <<heap, chunks, mapped, flags, siz, lru, swapVars, kept>>

\* mcmrealo of an object that must be loaded first.
ReallocateAbsent(o, n) ==
  /\ Ready /\ o \in mapped /\ ~Present(o)
  /\ call' = [Idle EXCEPT !.op = "load", !.obj = o, !.need = siz[o], !.stage = "first",
                          !.size = n]
  /\ UNCHANGED <<cacheVars, swapVars, kept>>

\* mcmfre and mcmgfre.  The object must not be locked, and the code takes it
\* to be in memory without looking: the entry of one that is not goes to the free
\* list with the address of the block the object had once, and its swap segment
\* stays in use.  (Such an entry is left out like the others of the free list:
\* what is made of a block that is not free is not followed further.)
FreeObject(o) ==
  /\ Ready /\ o \in mapped \ Static /\ locks[o] = 0
  /\ Present(o) \/ FreeAbsent
  /\ heap' = IF Present(o) THEN [heap EXCEPT ![At(heap, o)] = FreeBlock(Len(@.data))]
             ELSE heap
  /\ lru' = Unlink(lru, o)
  /\ flags' = [flags EXCEPT ![o] = {}]
  /\ mapped' = mapped \ {o}
  /\ kept' = [kept EXCEPT ![o] = <<>>]
  /\ siz' = [siz EXCEPT ![o] = 0]
  /\ loc' = [loc EXCEPT ![o] = NoSeg]
  /\ UNCHANGED <<chunks, locks, seg, file, top, max, call>>

\* mcmrevert.  An object in memory is set back by objrevert, which locks and
\* unlocks it; the others are set back when they are loaded.
Revert(o) ==
  /\ Ready /\ o \in mapped \cap Static
  /\ kept' = [kept EXCEPT ![o] = Original(o, siz[o])]
  /\ IF Present(o)
     THEN /\ heap' = [heap EXCEPT ![At(heap, o)].data = Original(o, siz[o])]
          /\ flags' = [flags EXCEPT ![o] = @ \cup {"dirty"}]
          /\ lru' = IF locks[o] = 0 THEN Use(lru, o) ELSE lru
     ELSE /\ flags' = [flags EXCEPT ![o] = @ \cup {"revrt"}]
          /\ UNCHANGED <<heap, lru>>
  /\ UNCHANGED <<chunks, mapped, locks, siz, swapVars, call>>

-----------------------------------------------------------------------------
(* mcmalo0: try, collect garbage, and swap until there is room.            *)
Trying == call.stage \in {"first", "again", "third"}
NoFit == Trying /\ Fits(call.need) = {} /\ chunks = 0

\* mutant of Fails: the lock is dropped without mcmuse.
FailsUnlockOnly ==
  /\ call' = Idle
  /\ locks' = IF call.mine THEN [locks EXCEPT ![call.obj] = 0] ELSE locks
  /\ UNCHANGED lru

\* An error: mcmrealo releases the lock it took, the call is over.
Fails ==
  /\ call' = Idle
  /\ IF call.mine
     THEN /\ locks' = [locks EXCEPT ![call.obj] = 0]
          /\ lru' = Use(lru, call.obj)
     ELSE UNCHANGED <<locks, lru>>

\* mcmhalo gets another chunk ...
HeapGrows ==
  /\ Trying /\ Fits(call.need) = {} /\ chunks > 0
  /\ chunks' = chunks - 1
  /\ heap' = <<FreeBlock(Chunk - Hdr), Block(End, <<>>)>> \o heap
  /\ UNCHANGED <<mapped, flags, locks, siz, lru, swapVars, call, kept>>

\* ... or the operating system has no more memory to give.
HeapRefused ==
  /\ Trying /\ Fits(call.need) = {} /\ chunks > 0
  /\ chunks' = 0
  /\ UNCHANGED <<heap, mapped, flags, locks, siz, lru, swapVars, call, kept>>

CollectGarbage ==
  /\ NoFit /\ call.stage \in {"first", "third"}
  /\ heap' = Garb
  /\ call' = [call EXCEPT !.stage = "again"]
  /\ UNCHANGED <<chunks, mapped, flags, locks, siz, lru, swapVars, kept>>

\* mcmswap goes through the LRU list twice: first for one object that is big
\* enough, then for any.
Victim ==
  LET loose == {o \in Range(lru) : locks[o] = 0}
      big == {o \in loose : siz[o] >= call.need}
      first(S) == lru[Min({i \in DOMAIN lru : lru[i] \in S})]
  IN IF loose = {} THEN <<>>
     ELSE IF big = {} THEN <<first(loose)>>
     ELSE <<first(big)>>

\* ERR_NOMEM1: mcmswap found nothing to throw out, and another try finds as
\* little as the one before.
NoMemory ==
  /\ NoFit /\ call.stage = "again" /\ Victim = <<>>
  /\ Fails
  /\ UNCHANGED <<heap, chunks, mapped, flags, siz, swapVars, kept>>

\* mcmswap is called after a try that failed, and throws objects out until
\* they add up.
Swapping ==
  /\ \/ call.stage = "again" /\ NoFit
     \/ call.stage = "swap" /\ call.tot < call.need
  /\ Victim # <<>>

\* mcmtoss: the object leaves memory; unless the load file still has it, it
\* goes to the swap file.
AfterSwap(o) ==
  IF flags[o] \cap {"nodisc", "dirty"} = {} THEN Swapper
  ELSE SwapOut(Swapper, o, heap[At(heap, o)].data,
               IF "nodisc" \in flags[o] THEN NoSeg ELSE loc[o], "dirty" \in flags[o])

Toss(o) ==
  /\ Swapping /\ Victim = <<o>>
  /\ AfterSwap(o).loc[o] # NoSeg
  /\ SwapperBecomes(AfterSwap(o))
  /\ heap' = [heap EXCEPT ![At(heap, o)] = FreeBlock(Len(@.data))]
  /\ flags' = [flags EXCEPT ![o] = @ \ {"pres"}]
  /\ lru' = Unlink(lru, o)
  /\ call' = [call EXCEPT !.stage = "swap", !.tot = @ + siz[o]]
  /\ UNCHANGED <<chunks, mapped, locks, siz, kept>>

\* ERR_SWAPBIG: the compacted swap file has no room for the object.
SwapFull(o) ==
  /\ Swapping /\ Victim = <<o>>
  /\ AfterSwap(o).loc[o] = NoSeg
  /\ SwapperBecomes(AfterSwap(o))
  /\ Fails
  /\ UNCHANGED <<heap, chunks, mapped, flags, siz, kept>>

\* mutant of SwapEnds: mcmalo0 does not collect garbage again after swapping.
SwapEndsNoGarbage ==
  /\ call.stage = "swap" /\ ~Swapping
  /\ call' = [call EXCEPT !.stage = "again", !.tot = 0]
  /\ UNCHANGED <<cacheVars, swapVars, kept>>

SwapEnds ==
  /\ call.stage = "swap" /\ ~Swapping
  /\ call' = [call EXCEPT !.stage = "third", !.tot = 0]
  /\ UNCHANGED <<cacheVars, swapVars, kept>>

-----------------------------------------------------------------------------
(* There is room: mcmalo1 takes a block and splits it, the call goes on.   *)

\* The new object is locked.
GrantNew(i) ==
  LET o == call.obj
      h == SplitAt(heap, i, call.need)
  IN /\ Trying /\ call.op = "malo" /\ i \in Fits(call.need)
     /\ heap' = [h EXCEPT ![i].own = o]
     /\ mapped' = mapped \cup {o}
     /\ flags' = [flags EXCEPT ![o] = {"nodisc", "pres"}]
     /\ locks' = [locks EXCEPT ![o] = 1]
     /\ siz' = [siz EXCEPT ![o] = Len(h[i].data)]
     /\ loc' = [loc EXCEPT ![o] = NoSeg]
     /\ call' = Idle
     /\ UNCHANGED <<chunks, lru, seg, file, top, max, kept>>

\* mcsin: as much as was written comes back, the segment is free.
SwappedIn(o, n) ==
  LET d == seg[loc[o]]
  IN Cells(ReadFile(file, d.ptr, Min({d.osz, n})), n)

InSwapFile(o) == flags[o] \cap {"nodisc", "dirty"} # {}

\* mcmload: the object is read into the block, and reverted if it was to be.
GrantLoad(i) ==
  LET o == call.obj
      h == SplitAt(heap, i, call.need)
      n == Len(h[i].data)
      revert == "revrt" \in flags[o]
  IN /\ Trying /\ call.op = "load" /\ i \in Fits(call.need)
     /\ heap' = [h EXCEPT ![i] = Block(o, IF InSwapFile(o) /\ ~revert
                                          THEN SwappedIn(o, n) ELSE Original(o, n))]
     /\ seg' = IF InSwapFile(o) THEN [seg EXCEPT ![loc[o]].use = FALSE] ELSE seg
     /\ flags' = [flags EXCEPT ![o] = {"pres", "nodisc"}
                                      \cup (IF revert THEN {"dirty"} ELSE {})]
     /\ locks' = [locks EXCEPT ![o] = 1]
     /\ siz' = [siz EXCEPT ![o] = n]
     /\ call' = IF call.size = 0 THEN Idle
                ELSE [Idle EXCEPT !.op = "realo", !.obj = o, !.need = call.size,
                                  !.stage = "resize", !.mine = TRUE]
     /\ UNCHANGED <<chunks, mapped, lru, file, top, max, loc, kept>>

\* The load file or the swap file cannot be read: the block is given back,
\* the object keeps the block's size.
LoadFails(i) ==
  LET o == call.obj
      h == SplitAt(heap, i, call.need)
  IN /\ Trying /\ call.op = "load" /\ i \in Fits(call.need)
     /\ heap' = h
     /\ siz' = [siz EXCEPT ![o] = Len(h[i].data)]
     /\ call' = Idle
     /\ UNCHANGED <<chunks, mapped, flags, locks, lru, swapVars, kept>>

\* mutant of GrantMove: the object entry keeps the old size.
GrantMoveKeepsSize(i) ==
  LET o == call.obj
      h == SplitAt(heap, i, call.need)
      j == At(h, o)
  IN /\ Trying /\ call.op = "realo" /\ i \in Fits(call.need)
     /\ heap' = [h EXCEPT ![i] = Block(o, Cells(h[j].data, Len(h[i].data))),
                          ![j] = FreeBlock(Len(h[j].data))]
     /\ call' = Idle
     /\ UNCHANGED <<chunks, mapped, flags, locks, siz, lru, swapVars, kept>>

\* mcmrealo found no room where the object is: it moves to the new block.
GrantMove(i) ==
  LET o == call.obj
      h == SplitAt(heap, i, call.need)
      j == At(h, o)
      n == Len(h[i].data)
  IN /\ Trying /\ call.op = "realo" /\ i \in Fits(call.need)
     /\ heap' = [h EXCEPT ![i] = Block(o, Cells(h[j].data, n)),
                          ![j] = FreeBlock(Len(h[j].data))]
     /\ siz' = [siz EXCEPT ![o] = n]
     /\ call' = Idle
     /\ UNCHANGED <<chunks, mapped, flags, locks, lru, swapVars, kept>>

-----------------------------------------------------------------------------
(* mcmrealo: the object stays where it is if it can.                       *)
Resizing == call.stage = "resize"

Resized(h) ==
  LET o == call.obj
      n == Len(h[At(h, o)].data)
  IN /\ heap' = h
     /\ siz' = [siz EXCEPT ![o] = n]
     /\ kept' = [kept EXCEPT ![o] = SubSeq(@, 1, Min({Len(@), n}))]
     /\ call' = Idle
     /\ UNCHANGED <<chunks, mapped, flags, locks, lru, swapVars>>

Shrink ==
  LET i == At(heap, call.obj)
  IN Resizing /\ call.need < siz[call.obj] /\ Resized(SplitAt(heap, i, call.need))

CanAnnex(i) ==
  heap[i + 1].own = Free /\ Len(heap[i + 1].data) >= call.need - siz[call.obj]

\* The free block behind the object becomes part of it.
Annex ==
  LET i == At(heap, call.obj)
      all == Block(call.obj, heap[i].data \o Fill(Junk, Room(heap[i + 1])))
  IN /\ Resizing /\ call.need >= siz[call.obj] /\ CanAnnex(i)
     /\ Resized(SplitAt(SubSeq(heap, 1, i - 1) \o <<all>>
                        \o SubSeq(heap, i + 2, Len(heap)), i, call.need))

\* It can't, so it needs another block, and nobody else may have it locked.
MustMove ==
  /\ Resizing /\ call.need >= siz[call.obj] /\ ~CanAnnex(At(heap, call.obj))
  /\ IF locks[call.obj] # 1
     THEN Fails                                     \* ERR_REALCK
     ELSE /\ call' = [call EXCEPT !.stage = "first"]
          /\ UNCHANGED <<locks, lru>>
  /\ UNCHANGED <<heap, chunks, mapped, flags, siz, swapVars, kept>>

-----------------------------------------------------------------------------
\* The steps of a call that is under way.
Step ==
  \/ HeapGrows \/ HeapRefused \/ CollectGarbage \/ NoMemory \/ SwapEnds
  \/ \E o \in Object : Toss(o) \/ SwapFull(o)
  \/ \E i \in DOMAIN heap : GrantNew(i) \/ GrantLoad(i) \/ LoadFails(i) \/ GrantMove(i)
  \/ Shrink \/ Annex \/ MustMove

Next ==
  \/ \E o \in Object : \E n \in Size[o] : Reserve(o, n) \/ Allocate(o, n)
  \/ \E o \in Object : \E n \in NewSize[o] : Reallocate(o, n) \/ ReallocateAbsent(o, n)
  \/ \E o \in Object :
       Lock(o) \/ Load(o) \/ Unlock(o) \/ Modify(o) \/ FreeObject(o) \/ Revert(o)
  \/ Step

Spec == Init /\ [][Next]_vars
-----------------------------------------------------------------------------
(* Properties.                                                             *)
SwappedOut(o) == o \in mapped /\ ~Present(o) /\ InSwapFile(o)

\* Where segment i ends in the file.
SegEnd(q, i) == IF i = 0 THEN 0 ELSE q[i].ptr + q[i].siz

\* The types of the variables; an object is in memory exactly if it has a block.
TypeOK ==
  /\ \A i \in DOMAIN heap : heap[i].own \in Object \cup {Free, End}
                            /\ heap[i].data \in Seq(Value)
  /\ \A o \in Object : flags[o] \subseteq Flag /\ (o \notin mapped => flags[o] = {})
  /\ \A o \in Object : locks[o] \in 0..MaxLock[o]
  /\ \A o \in mapped : siz[o] > 0
  /\ \A o \in mapped : Present(o) =>
       /\ Cardinality({i \in DOMAIN heap : heap[i].own = o}) = 1
       /\ siz[o] = Len(heap[At(heap, o)].data)
  /\ \A i \in DOMAIN heap : heap[i].own \in Object => Present(heap[i].own)
  /\ file \in Seq(Value) /\ top \in 0..Quota /\ max \in 0..Quota

\* However often an object has been moved, resized, thrown out, compacted in
\* the swap file and read back, what the client last wrote is still there: in
\* memory, in the object's swap segment, or in the load file (the union in
\* mcmodef says which, mcm.h:76).  So it is as long as the program frees objects
\* in memory only (FreeAbsent = FALSE): FreeObject of another makes the old block
\* count as free, whoever has it by then.
ContentsKept ==
  \A o \in mapped :
    LET stored == CASE Present(o) -> heap[At(heap, o)].data
                    [] SwappedOut(o) -> ReadFile(file, seg[loc[o]].ptr, seg[loc[o]].osz)
                    [] OTHER -> Original(o, siz[o])
    IN "revrt" \in flags[o] \/ kept[o] = SubSeq(stored, 1, Len(kept[o]))

\* Every object that is swapped out has a segment in use of its own, and no segment
\* stays in use for nobody, although compaction renumbers segments behind the
\* objects' backs (mcm.c:1166). The segments lie in the file one behind the other,
\* none over another, and what they take and what is left is the quota (mcscompact,
\* mcsout).  With FreeAbsent = TRUE this is violated: mcmgfre of an object that is
\* swapped out leaves its segment in use.
SwapFileOK ==
  /\ \A o \in Object : SwappedOut(o) =>
       loc[o] \in DOMAIN seg /\ seg[loc[o]].use /\ seg[loc[o]].obj = o
  /\ \A i \in DOMAIN seg : seg[i].use => SwappedOut(seg[i].obj) /\ loc[seg[i].obj] = i
  /\ \A i \in DOMAIN seg : seg[i].osz <= seg[i].siz
                            /\ seg[i].ptr = SegEnd(seg, i - 1)
  /\ top = SegEnd(seg, Len(seg))
  /\ top + max = Quota

\* An object in memory that nobody has locked can be found by mcmswap, and
\* mcmswap finds no object that is not in memory.
LruFindsUnlocked ==
  /\ IsInjective(lru)
  /\ \A o \in Object : Present(o) /\ locks[o] = 0 => o \in Range(lru)
  /\ \A o \in Range(lru) : o \in mapped /\ Present(o)

\* While an object is locked the client's pointer stays good: garbage
\* collection, swapping and the allocations of others leave it in its place;
\* only its own mcmrealo moves it (mcm.h:203).
LockedStaysPut ==
  [][heap' # heap => \A o \in Object :
       locks[o] > 0 /\ locks'[o] > 0 /\ ~(call.op = "realo" /\ call.obj = o)
       => Place(heap, o) = Place(heap', o)]_vars

\* An allocation fails for want of memory only when the locked objects leave
\* no gap that is big enough: everything else has been swapped out, and the
\* free blocks have been joined, before mcmalo0 gives up.
NoMemoryWhenFull ==
  [][NoMemory => \A i, j \in DOMAIN heap :
       i <= j /\ (\A k \in i..j : heap[k].own # End
                                  /\ (heap[k].own # Free => locks[heap[k].own] = 0))
       => Extent(heap, i, j) - Hdr < call.need]_vars

=============================================================================
