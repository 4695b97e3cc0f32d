----------------------------- MODULE Allocators -----------------------------
(***************************************************************************)
(* The allocator of blocks of any size (projects/vsa/src/vsa.c) and the    *)
(* one of blocks of one size (projects/fsa/src/fsa.c).  Both keep their    *)
(* books inside of the pool they hand out, as in these models: a pool is   *)
(* an array of words, and what a user writes into a block overwrites what  *)
(* was in its words.                                                       *)
(***************************************************************************)
EXTENDS Integers, FiniteSets, FiniteSetsExt

CONSTANTS
  WORD_SIZE,   \* bytes in a word
  VSAPools,    \* sizes in bytes of pools given to VSAInit
  FSABlocks,   \* numbers of blocks an FSA is made for
  BlockSizes   \* sizes in bytes of blocks

VARIABLES
  vsa,      \* words of the pool, its end, and the words of a header
  vsaLive,  \* blocks in the hands of users: payload and words asked for
  vsaTold,  \* the last call answered what the free words allow
  fsa,      \* words of the pool and the offset of the first free block
  fsaLive   \* offsets of the blocks in the hands of users

vsaVars == <<vsa, vsaLive, vsaTold>>
fsaVars == <<fsa, fsaLive>>

UserData == 0
AlignUp(bytes) == (bytes + WORD_SIZE - 1) \div WORD_SIZE    \* in words
AlignDown(bytes) == bytes \div WORD_SIZE                    \* in words
Abs(x) == IF x < 0 THEN -x ELSE x

-----------------------------------------------------------------------------
(* vsa.c.  Word 0 is the vsa_t; a header is of hdr words (a build with      *)
(* NDEBUG has no magic number in it) and its first one holds block_size.    *)

\* VSAInit on a pool that starts offset bytes before the next word: NoVSA when
\* there is no room for a header and a word.
NoVSA == [end |-> 0]
VSAInit(total, offset, hdr) ==
  LET words == AlignDown(total - offset) IN
  IF total <= offset \/ words < 1 + hdr + 1 THEN NoVSA
  ELSE [end |-> words, hdr |-> hdr,
        mem |-> [w \in 0 .. words - 1 |-> IF w = 1 THEN words - 1 - hdr ELSE UserData]]

FirstHdr == 1
NextHdr(v, h) == h + v.hdr + Abs(v.mem[h])
InBounds(v, h) == h >= FirstHdr /\ h < v.end
MIN_SPLIT(v) == v.hdr + 1

\* Mutant: the rest is not told of its header.
MutCommitAlloc(v, block, run, request) ==
  LET full == run - v.hdr
      rest == full - request
  IN  IF rest >= MIN_SPLIT(v)
      THEN [v EXCEPT !.mem[block + v.hdr + request] = rest, !.mem[block] = -request]
      ELSE [v EXCEPT !.mem[block] = -full]

CommitAlloc(v, block, run, request) ==
  LET full == run - v.hdr
      rest == full - request
  IN  IF rest >= MIN_SPLIT(v)
      THEN [v EXCEPT !.mem[block + v.hdr + request] = rest - v.hdr, !.mem[block] = -request]
      ELSE [v EXCEPT !.mem[block] = -full]

\* FindFitAndCommit: cur goes from header to header, run adds up the free
\* blocks in a row from start on.  The result is the pool and the header.
RECURSIVE FindFit(_, _, _, _, _)
FindFit(v, cur, start, run, request) ==
  IF ~InBounds(v, cur) THEN [v |-> v, block |-> 0]
  ELSE IF v.mem[cur] <= 0 THEN FindFit(v, NextHdr(v, cur), 0, 0, request)
  ELSE LET first == IF run = 0 THEN cur ELSE start
           total == run + v.hdr + v.mem[cur]
       IN  IF total >= request + MIN_SPLIT(v)
           THEN [v |-> CommitAlloc(v, first, total, request), block |-> first]
           ELSE FindFit(v, NextHdr(v, cur), first, total, request)

\* Defrag: a free block swallows the free blocks behind it.
RECURSIVE Defrag(_, _)
Defrag(v, cur) ==
  IF ~InBounds(v, cur) THEN v
  ELSE LET next == NextHdr(v, cur) IN
       IF v.mem[cur] > 0 /\ InBounds(v, next) /\ v.mem[next] > 0
       THEN Defrag([v EXCEPT !.mem[cur] = @ + v.hdr + v.mem[next]], cur)
       ELSE Defrag(v, next)

RECURSIVE Headers(_, _)
Headers(v, cur) == IF ~InBounds(v, cur) THEN {} ELSE {cur} \union Headers(v, NextHdr(v, cur))

LargestFree(v) == Max({v.mem[h] : h \in {g \in Headers(v, FirstHdr) : v.mem[g] > 0}} \union {0})

\* VSALargestChunkAvailable looks at the blocks after Defrag.
VSALargestChunkAvailable ==
  /\ vsa' = Defrag(vsa, FirstHdr)
  /\ vsaTold' = TRUE
  /\ UNCHANGED vsaLive

\* VSAAlloc, and what the user writes into the block.  A run of free blocks has to be
\* longer than the request, since the test asks for the words of a split.
VSAAlloc(bytes) ==
  LET request == AlignUp(bytes)
      r == FindFit(vsa, FirstHdr, 0, 0, request)
      block == [at |-> r.block + vsa.hdr, words |-> request]
      payload == block.at .. block.at + request - 1
      granted == request # 0 /\ r.block # 0
  IN  /\ vsa' = IF granted
                THEN [r.v EXCEPT !.mem = [w \in DOMAIN @ |-> IF w \in payload THEN UserData ELSE @[w]]]
                ELSE vsa
      /\ vsaLive' = IF granted THEN vsaLive \union {block} ELSE vsaLive
      /\ vsaTold' = LET largest == LargestFree(Defrag(vsa, FirstHdr))
                    IN  /\ granted => request <= largest
                        /\ 0 < request /\ request < largest => granted

VSAFree(block) ==
  /\ vsa' = [vsa EXCEPT !.mem[block.at - vsa.hdr] = -@]
  /\ vsaLive' = vsaLive \ {block}
  /\ vsaTold' = TRUE

VSAStart ==
  /\ \E total \in VSAPools, offset \in 0 .. WORD_SIZE - 1, hdr \in {1, 2} : vsa = VSAInit(total, offset, hdr)
  /\ vsaLive = {} /\ vsaTold = TRUE

VSANext ==
  /\ vsa # NoVSA
  /\ \/ VSALargestChunkAvailable
     \/ \E bytes \in 0 .. WORD_SIZE * vsa.end : VSAAlloc(bytes)
     \/ \E block \in vsaLive : VSAFree(block)

-----------------------------------------------------------------------------
(* fsa.c.  Word 0 is the fsa_t, the offset of the first free block; a free  *)
(* block holds the offset of the next one.                                  *)

OFF_NULL == 0

FSASuggestSize(amount, size) == IF amount = 0 \/ size = 0 THEN 0 ELSE 1 + amount * AlignUp(size)

\* Mutant: the loop stops one block early.
MutLinkBlocks(mem, offset, block) ==
  LET starts == {w \in DOMAIN mem : w >= offset /\ (w - offset) % block = 0 /\ w + 2 * block < Cardinality(DOMAIN mem)}
      last == IF starts = {} THEN offset ELSE Max(starts) + block
  IN  [w \in DOMAIN mem |-> IF w \in starts THEN w + block ELSE IF w = last THEN OFF_NULL ELSE mem[w]]

\* The loop of FSAInit: each block up to the last one points at the next.
LinkBlocks(mem, offset, block) ==
  LET starts == {w \in DOMAIN mem : w >= offset /\ (w - offset) % block = 0 /\ w + block < Cardinality(DOMAIN mem)}
      last == IF starts = {} THEN offset ELSE Max(starts) + block
  IN  [w \in DOMAIN mem |-> IF w \in starts THEN w + block ELSE IF w = last THEN OFF_NULL ELSE mem[w]]

FSAInit(amount, size) ==
  [mem |-> LinkBlocks([w \in 0 .. FSASuggestSize(amount, size) - 1 |-> 1], 1, AlignUp(size)),
   amount |-> amount, block |-> AlignUp(size)]

FSAAlloc ==
  LET head == fsa.mem[0] IN
  /\ head # OFF_NULL
  /\ fsa' = [fsa EXCEPT !.mem = [w \in DOMAIN @ |->
               IF w = 0 THEN fsa.mem[head] ELSE IF w \in head .. head + fsa.block - 1 THEN 1 ELSE @[w]]]
  /\ fsaLive' = fsaLive \union {head}

FSAFree(block) ==
  /\ fsa' = [fsa EXCEPT !.mem[block] = fsa.mem[0], !.mem[0] = block]
  /\ fsaLive' = fsaLive \ {block}

RECURSIVE FreeChain(_, _)
FreeChain(offset, fuel) ==
  IF offset = OFF_NULL \/ offset \notin DOMAIN fsa.mem \/ fuel = 0 THEN {}
  ELSE {offset} \union FreeChain(fsa.mem[offset], fuel - 1)

FSACountFree == Cardinality(FreeChain(fsa.mem[0], Cardinality(DOMAIN fsa.mem)))

FSAStart ==
  /\ \E amount \in FSABlocks, size \in BlockSizes : fsa = FSAInit(amount, size)
  /\ fsaLive = {}

FSANext ==
  \/ FSAAlloc
  \/ \E block \in fsaLive : FSAFree(block)

-----------------------------------------------------------------------------
VSAHolds ==
  LET payload(b) == b.at .. b.at + b.words - 1
      books == UNION {h .. h + vsa.hdr - 1 : h \in Headers(vsa, FirstHdr)}
  IN  /\ vsaTold
      /\ \A b \in vsaLive :
           /\ b.at - vsa.hdr \in Headers(vsa, FirstHdr) /\ vsa.mem[b.at - vsa.hdr] <= -b.words
           /\ payload(b) \subseteq 1 .. vsa.end - 1 /\ payload(b) \intersect books = {}
           /\ \A c \in vsaLive \ {b} : payload(b) \intersect payload(c) = {}
      /\ Cardinality({h \in Headers(vsa, FirstHdr) : vsa.mem[h] <= 0}) = Cardinality(vsaLive)
      /\ \A h \in Headers(vsa, FirstHdr) : NextHdr(vsa, h) <= vsa.end

FSAHolds ==
  LET words(b) == b .. b + fsa.block - 1 IN
  /\ FSACountFree = fsa.amount - Cardinality(fsaLive)
  /\ \A b \in fsaLive \union FreeChain(fsa.mem[0], fsa.amount) :
       /\ words(b) \subseteq 1 .. Cardinality(DOMAIN fsa.mem) - 1
       /\ \A c \in (fsaLive \union FreeChain(fsa.mem[0], fsa.amount)) \ {b} : words(b) \intersect words(c) = {}
  /\ fsaLive \intersect FreeChain(fsa.mem[0], fsa.amount) = {}

\* No two blocks in use overlap, lie over the allocator's own words or outside
\* of the pool, whatever users write into them; the chain of headers ends where
\* the pool does; every block given back can be had again; VSAAlloc grants no more
\* than VSALargestChunkAvailable reports and whatever is smaller.  (Of a request for
\* exactly that chunk nothing is said: vsa.h lets one expect it, the code refuses it.)
BlocksApart ==
  /\ vsa # NoVSA => VSAHolds
  /\ FSAHolds

=============================================================================
